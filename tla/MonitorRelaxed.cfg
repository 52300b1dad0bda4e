SPECIFICATION FairSpec
CONSTANTS
  Threads = {t1, t2}
  Max = 1
  Relaxed = TRUE
PROPERTIES Termination
