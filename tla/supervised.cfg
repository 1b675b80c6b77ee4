SPECIFICATION FairSpec
CONSTANTS
  coder = coder
  qa = qa
  reviewer = reviewer
  NoRole = NoRole
  Roles = {coder, reviewer}
  Judge <- ReviewerJudgesOthers
  Fresh = {coder}
  Supervised = {coder}
  RestartCap <- OneRestart
  SpawnMayFail = TRUE
  Patient = TRUE
  Mortal = {coder}
  MaxTasks = 2
  MaxGen = 2
INVARIANTS
  NothingLost
  CleanContext
  ExitedIsDead
  DeadIsNoticed
PROPERTIES
  RestartsOnlyTheDead
  HeldTaskTyped
