SPECIFICATION SampleFairSpec
CONSTANTS
  MaxCalls = 3
  MaxRetries = 3
  Threads = {main}
  Creator = main
  NoThread = none
  UserOps = {"UploadFile", "DownloadFile", "DeleteFile", "RenameFile", "ListDirectory", "Ping"}
  RelockOutcomes = {}
  Lines <- MCLines
  MaxBytes = 2
PROPERTY ReportIsTrue
