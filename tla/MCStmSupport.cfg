SPECIFICATION MCSpec
CONSTANTS
  Parts = {"roll", "serial", "gc", "reset", "modules", "wrappers"}
  Threads = {1, 2, 3}
  Duo = {1, 2}
  NoThread = NoThread
  RollBuffer = 1
  SerialBuffer = 0
  GcSlots = 2
  GcTasks <- ThreeThreads
  MaxRetries = 2
  Bytes = 24
  MaxSize = 11
INVARIANTS SerialRunsAlone  AbortsLeaveNothing NothingIsUncounted BytesAreExact
PROPERTIES ResetWhileIdle EveryThreadExits
