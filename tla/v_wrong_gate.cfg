SPECIFICATION Spec
CONSTANTS
  c1 = c1
  NoClient = NoClient
  Clients = {c1}
  c2 = c2
  MaxRoles = 1
  Roles0 = 1
  Fresh = {1}
  MaxGen = 2
  MaxOut <- NoOutput
  MaxGates = 2
  MaxKeys = 2
  MsgCap = 2
  WireCap = 2
PROPERTIES
  VerdictForShown
CHECK_DEADLOCK FALSE
