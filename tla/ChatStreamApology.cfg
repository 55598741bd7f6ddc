CONSTANTS
  Requests = {r1, r2}
  Threads = {t1}
  Workers = {w1}
  ThreadCap = 1
  Keep = 2
  MaxRestarts = 0
  ClientsLeave = FALSE
SYMMETRY Symmetry
SPECIFICATION Spec
INVARIANT ApologyNotKept
CHECK_DEADLOCK FALSE
