SPECIFICATION Spec
CONSTANTS
  c1 = c1
  c2 = c2
  NoClient = NoClient
  Clients = {c1, c2}
  MaxRoles = 2
  Roles0 = 1
  Fresh = {1}
  MaxGen = 2
  MaxOut <- TwoThenNone
  MaxGates = 1
  MaxKeys = 1
  MsgCap = 1
  WireCap = 2
SYMMETRY Symmetry
INVARIANTS
  OutputExact
  MirrorCurrent
  OneClient
CHECK_DEADLOCK FALSE
