SPECIFICATION Spec
CONSTANTS
  f1 = f1
  f2 = f2
  x = x
  y = y
  Files = {f1, f2}
  Contents = {x, y}
  Absent = Absent
  Similar <- Same
  Keep = 2
  MaxClock = 1
  MaxTasks = 1
  MaxSessions = 2
  MaxWrites = 2
  MaxAsked = 2
SYMMETRY Symmetry
INVARIANTS
  RollbackExact
PROPERTIES
  UndoKept
CHECK_DEADLOCK FALSE
