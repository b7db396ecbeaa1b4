SPECIFICATION Spec
CONSTANTS
  w1 = w1
  w2 = w2
  BaseDelay = 100
  MaxDelay = 30000
  Jitter = 25
  MultiplierBits = 4
  Workers <- OneWorker
  Jobs = {"harness"}
  Budget = 1
  Target = 1
  Responses <- GoodResponses
  Materials = {}
  MaxRuns = 3
INVARIANTS
  RemoteWithinBudget
CHECK_DEADLOCK FALSE
