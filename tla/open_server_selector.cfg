SPECIFICATION Spec
CONSTANTS
  c1 = c1
  c2 = c2
  c3 = c3
  nobody = nobody
  e1 = e1
  e2 = e2
  g1 = g1
  unprobed = unprobed
  Holders <- MCConnections
  NoHolder = nobody
  Pools <- MCPools
  Exits <- MCExits
  NoExit = unprobed
  Groups <- MCGroups
  Routes <- MCRoutes
  Requests <- SelectorRequests
  AuthRequired = FALSE
SYMMETRY Symmetry
INVARIANTS
  UsernameHonoured
