SPECIFICATION Spec
CONSTANTS
  EpSize = 2
  Requests <- MCRequests
INVARIANTS
  ServedInFull
PROPERTIES
  AckedIsExecuted
  ImplementsControlPipe
  CalledWhenOver
  RequestEnds
