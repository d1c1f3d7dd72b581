SPECIFICATION Spec
CONSTANTS
  EpSize = 2
  NBanks = 2
  LOOPBACK_SIZE = 4
  MAX_TRANS = 4
  ReadSizes <- MCReadSizes
INVARIANTS
  OutEndpointServed
  NothingLost
PROPERTY
  TransfersEnd
