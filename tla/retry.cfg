SPECIFICATION FairSpec
CONSTANTS
  t1 = t1
  t2 = t2
  t3 = t3
  BaseDelay = 100
  MaxDelay = 150
  Jitter = 25
  MultiplierBits = 2
  Kinds <- TwoKinds
  Limit <- TwoLimits
  Tasks <- ThreeTasks
  Failures <- AllFailures
  MaxAttempts = 2
INVARIANTS
  DisciplineTypeOK
  PermitsCounted
PROPERTIES
  RefusedOnlyWhenFull
  LostOnlyToWinners
  BlockedStopsRetry
  NextRetryPredicts
  BackoffGrows
