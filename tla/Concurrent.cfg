SPECIFICATION FairSpec
CONSTANTS
  MaxId = 3
  Kinds = {"reply", "broken"}
  MaxRepeats = 1
  MaxSpurious = 1
INVARIANT TypeOK RequestsWhole BodyHasOneReader BrokenNotRead SomebodyAwake
PROPERTY Multiplexes EveryCallReturns
