SPECIFICATION Spec
CONSTANTS
  MaxCalls = 4
  MaxRetries = 1
  Threads = {c}
  Creator = c
  NoThread = none
  UserOps = {"UploadFile"}
  RelockOutcomes = {"system_error"}
INVARIANT UploadSuccessIsUpload
