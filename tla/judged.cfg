SPECIFICATION Spec
CONSTANTS
  orch = orch
  coder = coder
  writer = writer
  qa = qa
  reviewer = reviewer
  Start = orch
  NoRole = NoRole
  Roles <- MCRoles
  Targets = {coder}
  Approve = {coder}
  Checked = {coder}
  Judge <- ReviewerJudgesCoder
  Cap <- TwoRounds
  Fresh = {coder}
  Supervised = {coder}
  Timed = {reviewer}
  Owners = {reviewer}
  Worktrees = {}
  MergeMode <- AllManual
  FailClosed = TRUE
  GitMayFail = FALSE
  Mortal = {coder, reviewer}
  MaxAsked = 2
  Resend <- EachOnce
INVARIANTS
  LoopOnItsTask
  NoLoopLost
  RoundsCapped
  ExitedJudgeGates
PROPERTIES
  EntryApproved
  CheckedFirst
