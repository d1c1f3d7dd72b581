CONSTANTS
  a = a
  b = b
  Bytes = {a, b}
  Zero = b
  Setups <- GoodSetups
  FIFO_LATENCY = 4
SPECIFICATION FairSpec
INVARIANT FreshAtFullSpeed
INVARIANT NothingMissedAtMatch
INVARIANT CaptureStartIsDue
INVARIANT DoneMeansOver
INVARIANT FlushSparesCapture
PROPERTY DisarmMeansCapture
PROPERTY MatchDisarms
