SPECIFICATION MCSpec
CONSTANTS
  Threads = {t1, t2, t3}
  Iterations = 2
  BufferSize = 2
  Wrap = 3
  Padding = 1
  Period = 2
  Retries = 2
INVARIANTS MutualExclusion QueueNodesAreSafe ReadersExcludeWriter ElisionIsExclusive
PROPERTIES QueueLocksAreFifo EverySpinlockEnds
