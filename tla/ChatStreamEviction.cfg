CONSTANTS
  Requests = {r1, r2, r3, r4}
  Threads = {t1, t2}
  Workers = {w1}
  ThreadCap = 1
  Keep = 2
  MaxRestarts = 0
  ClientsLeave = FALSE
SYMMETRY Symmetry
SPECIFICATION Spec
INVARIANT OneTurnAtATime
CHECK_DEADLOCK FALSE
