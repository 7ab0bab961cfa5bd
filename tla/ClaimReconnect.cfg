SPECIFICATION FairSpec
CONSTANTS
  MaxCalls = 3
  MaxRetries = 1
  Threads = {c, t}
  Creator = c
  NoThread = none
  UserOps = {"Reconnect", "Getter"}
  RelockOutcomes = {"deadlock", "system_error"}
PROPERTY ConnectReturns
CHECK_DEADLOCK FALSE
