SPECIFICATION Spec
CONSTANTS
  MaxCalls = 4
  MaxRetries = 2
  Threads = {c}
  Creator = c
  NoThread = none
  UserOps = {"UploadFile", "Authenticate", "Reconnect"}
  RelockOutcomes = {"system_error"}
INVARIANT TypeOK AtMostOnce OwnAnswer AnswersOnce ConnectedUsable AuthenticatedConnected SessionEarned
