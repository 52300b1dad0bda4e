SPECIFICATION FairSpec
CONSTANTS
  Threads = {t1, t2, t3}
  Max = 2
INVARIANTS TypeOK MutualExclusion NoLostWakeup
PROPERTIES AtomicIncrements Termination
