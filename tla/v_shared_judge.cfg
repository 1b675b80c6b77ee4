SPECIFICATION Spec
CONSTANTS
  coder = coder
  qa = qa
  reviewer = reviewer
  NoRole = NoRole
  Roles = {coder, qa, reviewer}
  Judge <- ReviewerJudgesOthers
  Fresh = {}
  Supervised = {}
  RestartCap <- OneRestart
  SpawnMayFail = FALSE
  Patient = TRUE
  Mortal = {}
  MaxTasks = 4
  MaxGen = 2
INVARIANTS
  NothingLost
