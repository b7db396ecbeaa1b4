SPECIFICATION Spec
CONSTANTS
  i1 = i1
  i2 = i2
  h1 = h1
  nobody = nobody
  Instances <- MCInstances
  Handles <- MCHandles
  NoInstance = nobody
  Configs <- MCConfigs
  MaxPackets = 4
INVARIANTS
  DataPlaneTypeOK
  OpenMeansPrepared
  PacketsAccounted
  StreamsNeverFail
PROPERTIES
  ImplementsChannels
