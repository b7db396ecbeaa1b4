SPECIFICATION FairSpec
CONSTANTS
  o1 = o1
  o2 = o2
  o3 = o3
  Openers <- ThreeOpeners
  Stores <- AnyStore
  MaxOpens = 3
INVARIANTS
  StoreTypeOK
  MigratedBeforeUse
  SomebodyLeads
PROPERTIES
  SomebodyMigrates
CHECK_DEADLOCK FALSE
