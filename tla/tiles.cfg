SPECIFICATION Spec
CONSTANTS
  Roles0 = 2
  MaxRoles = 3
  Start = 0
  Areas <- LargeAndSmall
  Deltas <- FarBack
  NoLayout = NoLayout
INVARIANTS
  ActiveIsFocused
  TilesInRoster
  TilesPartition
  NoTileStranded
  CloseKeepsOthers
