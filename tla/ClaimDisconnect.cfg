SPECIFICATION Spec
CONSTANTS
  MaxCalls = 4
  MaxRetries = 1
  Threads = {c}
  Creator = c
  NoThread = none
  UserOps = {"Ping", "Disconnect"}
  RelockOutcomes = {"system_error"}
INVARIANT DisconnectCloses
