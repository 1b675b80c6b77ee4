SPECIFICATION FairSpec
CONSTANTS
  orch = orch
  coder = coder
  writer = writer
  qa = qa
  reviewer = reviewer
  Start = orch
  NoRole = NoRole
  Roles <- MCRoles
  Targets = {coder, writer, qa}
  Approve = {}
  Checked = {coder}
  Judge <- ReviewerJudgesBoth
  Cap <- WriterOneRound
  Fresh = {}
  Supervised = {}
  Timed = {reviewer}
  Owners = {reviewer}
  Worktrees = {writer, qa}
  MergeMode <- WriterGateQaAuto
  FailClosed = FALSE
  GitMayFail = TRUE
  Mortal = {reviewer}
  MaxAsked = 2
  Resend <- FirstTwice
INVARIANTS
  JudgeDecides
  BuilderReportHeld
  PlainAccounted
  MergeAccounted
PROPERTIES
  ReviewEnds
