SPECIFICATION MCSpec
CONSTANTS
  Threads = {t1, t2, t3}
  Crew = {t1, t2, t3, t4}
  Duo = {t1, t2}
  Max = 2
  A = A
  B = B
  Rounds = 3
  Nodes = {n1, n2}
  NULL = NULL
  Operations = 2
  Variants = {"tagged", "llsc"}
  Writes = 3
  Period = 2
  N = 5
  Meals = 2
  Producers = {t1, t2}
  Consumers = {t3, t4}
  Size = 2
  ToProduce = 3
INVARIANTS NobodyIsForgotten NobodyShares
PROPERTIES IncrementsAreAtomic BarriersImplementBarrier ObjectsAreLinearizable EveryThreadFinishes
