SPECIFICATION MCSpec
CONSTANTS
  Parts = {"serial"}
  Threads = {1, 2, 3}
  Duo = {1, 2}
  NoThread = NoThread
  RollBuffer = 1
  SerialBuffer = 1
  GcSlots = 2
  GcTasks <- ThreeThreads
  MaxRetries = 2
  Bytes = 24
  MaxSize = 11
INVARIANT SerialRunsAlone
