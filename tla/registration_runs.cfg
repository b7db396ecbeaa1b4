SPECIFICATION FairSpec
CONSTANTS
  w1 = w1
  w2 = w2
  BaseDelay = 100
  MaxDelay = 30000
  Jitter = 25
  MultiplierBits = 4
  Workers <- TwoWorkers
  Jobs <- AllJobs
  Budget = 3
  Target = 2
  Responses <- AllResponses
  Materials <- AllMaterials
  MaxRuns = 4
INVARIANTS
  RegistrationTypeOK
  RetainedWithinBudget
  CreatedOnlyWhenNeeded
PROPERTIES
  RunsEnd
CHECK_DEADLOCK FALSE
