SPECIFICATION MCSpec
CONSTANTS
  Threads = {t1, t2}
  NoThread = NoThread
  a = a
  b = b
  c = c
  Addrs <- MCAddrs
  Stripes <- MCStripes
  GET_LOCK <- MCGetLock
  Programs <- MCPrograms
  RW_SET_SIZE = 1
  VERSION_MAX = 3
  INCARNATION_MAX = 1
  Delay = FALSE
  Iterations = 2
  Designs = {"ETL", "CTL", "WT", "ETLDelay"}
  Bodies = {"readonly", "reader", "writer", "skew", "skew2", "chain", "part", "rfw", "nested", "aborts", "noretry", "later", "before", "twice", "stripe",
            "counter", "array", "rw"}
SYMMETRY Symmetry
INVARIANTS Snapshot ReadsOwnWrites MemoryIsCommitted NoOrphanLocks
PROPERTIES Serializable IrrevocableCannotAbort
