SPECIFICATION FairSpec
CONSTANTS
  Threads = {0, 1}
  Iterations = 1
  BufferSize = 3
PROPERTIES Termination
