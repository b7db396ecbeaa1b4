SPECIFICATION Spec
CONSTANTS
  e1 = e1
  e2 = e2
  e3 = e3
  unprobed = unprobed
  endpointFailed = endpointFailed
  Size = 3
  Target = 2
  Exits <- ThreeExits
  NoExit = unprobed
  EndpointFailed = endpointFailed
  MaxCycles = 2
SYMMETRY Symmetry
INVARIANTS
  ProbeTypeOK
  ServingIsHealthy
PROPERTIES
  ExitNeedsConsensus
  PlacesAreStable
