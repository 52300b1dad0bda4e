SPECIFICATION MCSpec
CONSTANTS
  Threads = {0, 1, 2}
  Max = 2
  TreeNodes = {0, 1, 2, 3}
INVARIANTS OneNodeInside RequestsAreOrdered TokenSentToWaiter ParentsFormForest
PROPERTIES EveryNodeEnds
