SPECIFICATION EitherSpec
CONSTANTS
  Roots = {"Append_args", "Delete_args", "Rename_args", "Auth_args", "Get_args", "List_args", "Ping_args", "Append_result", "Delete_result", "Rename_result", "Auth_result", "Get_result", "List_result", "Ping_result", "WfsReq"}
  MaxFields = 15
  MaxForeign = 9
  MaxItems = 2
  DepthLimit = 5
INVARIANT TypeOK InStep RefusedIfLacking RefusedLeavesRest ReadAsWritten
