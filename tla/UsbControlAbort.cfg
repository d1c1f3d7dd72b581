SPECIFICATION Spec
CONSTANTS
  EpSize = 2
  Requests <- MCRequests
PROPERTY
  CalledAfterZlp
