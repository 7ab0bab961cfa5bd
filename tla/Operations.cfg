SPECIFICATION FairSpec
CONSTANTS
  MaxCalls = 4
  MaxRetries = 1
  Threads = {c, t}
  Creator = c
  NoThread = none
  UserOps = {"UploadFile", "DownloadFile", "DeleteFile", "RenameFile", "ListDirectory", "Ping", "Authenticate", "Connect", "Disconnect", "Reconnect", "Getter"}
  RelockOutcomes = {"system_error"}
INVARIANT LastErrorIsNewest SessionAccepted
PROPERTY EveryCallReturns KeepsPromise
