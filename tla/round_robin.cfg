SPECIFICATION MemorySpec
CONSTANTS
  h1 = h1
  h2 = h2
  h3 = h3
  h4 = h4
  nobody = nobody
  e1 = e1
  e2 = e2
  e3 = e3
  g1 = g1
  g2 = g2
  unprobed = unprobed
  Holders <- TwoHolders
  NoHolder = nobody
  Pools <- LoadPools
  Exits <- LoadExits
  NoExit = unprobed
  Groups <- MCGroups
  Routes <- MCRoutes
INVARIANTS
  RoundRobinBreaksTies
