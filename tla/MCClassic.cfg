SPECIFICATION MCSpec
CONSTANTS
  Threads = {0, 1, 2}
  Iterations = 2
  BufferSize = 4
  FastIterations = 1
  Wrap = 16
  MaskBits = 2
INVARIANTS OneThreadInside InsideIsVisible SleepersAreWoken
PROPERTIES NobodyOvertakes EveryProgramEnds
