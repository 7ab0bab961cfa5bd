SPECIFICATION FairSpec
CONSTANTS
  Conns = {c1, c2}
  Handlers = 2
  Methods = {"Append", "Delete", "Rename", "Auth", "Get", "List", "Ping"}
  MaxRequests = 2
INVARIANT TypeOK ContextFreedLast EventsMatchAnswer
PROPERTY KeepsServing EveryRequestEnds
