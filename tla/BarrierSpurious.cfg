SPECIFICATION Spec
CONSTANTS
  Threads = {t1, t2, t3}
  Rounds = 2
  A = A
  B = B
  Meetings = {"monitor"}
  Spurious = TRUE
INVARIANT NobodyEarly
