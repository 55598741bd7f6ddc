CONSTANTS
  Requests = {r1, r2, r3}
  Threads = {t1}
  Workers = {w1, w2}
  ThreadCap = 1
  Keep = 2
  MaxRestarts = 1
  ClientsLeave = TRUE
SYMMETRY Symmetry
SPECIFICATION Spec
INVARIANTS
  LineMoves
  OneTurnAtATime
  ErrorsLeaveNoTrace
  RememberedIsRecorded
PROPERTIES
  ImplementsThreadMemory
CHECK_DEADLOCK FALSE
