SPECIFICATION Spec
CONSTANTS
  qa = qa
  scout = scout
  main = main
  other = other
  NoPath = NoPath
  Names = {qa, scout}
  Gated = {qa}
  Proposable = {scout}
  Edited <- TesterInMain
  Paths = {main, other}
  Team <- Teams
  NeedsApprove <- ApproveInMain
  Patient = TRUE
  BoardCap = 3
  MaxAsked = 2
  MaxLives = 2
  MaxSlots = 2
INVARIANTS
  IdsUnique
  InFlightRestored
  Accounted
PROPERTIES
  SlotsStable
  WriteAhead
