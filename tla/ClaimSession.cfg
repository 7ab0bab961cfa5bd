SPECIFICATION Spec
CONSTANTS
  MaxCalls = 4
  MaxRetries = 3
  Threads = {c}
  Creator = c
  NoThread = none
  UserOps = {"UploadFile","Reconnect"}
  RelockOutcomes = {"system_error"}
INVARIANT FileRequestsAuthenticated
