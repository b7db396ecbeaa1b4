SPECIFICATION Spec
CONSTANTS
  w1 = w1
  w2 = w2
  BaseDelay = 100
  MaxDelay = 30000
  Jitter = 25
  MultiplierBits = 4
  Workers <- OneWorker
  Jobs = {"fullPath"}
  Budget = 2
  Target = 2
  Responses <- GoodResponses
  Materials = {}
  MaxRuns = 2
INVARIANTS
  StoreFailuresNotHidden
CHECK_DEADLOCK FALSE
