CONSTANTS
  Setups <- OverflowSetup
  FIFO_LATENCY = 5
  STRM = STRM
SPECIFICATION Spec
INVARIANT NothingAfterOverflow
