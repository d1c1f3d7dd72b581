CONSTANTS
  Setups <- OneEntrySetup
  FIFO_LATENCY = 5
  STRM = STRM
SPECIFICATION Spec
INVARIANT DoneMeansAllRead
