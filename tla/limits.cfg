SPECIFICATION Spec
CONSTANTS
  coder = coder
  helper = helper
  Roles = {coder, helper}
  Timeout <- TwoTicks
  Timeouts = {1, 3}
  Budgeted = {coder}
  Pauses = {coder}
  Fresh = {helper}
  Supervised = {coder}
  Mortal = {coder}
  Halted = {coder}
  Edited = {coder}
  Caps = {1, 2}
  MaxNow = 3
  MaxTasks = 2
  MaxCost = 2
  MaxChanges = 1
INVARIANTS
  ClockExact
PROPERTIES
  TimeoutJust
  BudgetOnce
CHECK_DEADLOCK FALSE
