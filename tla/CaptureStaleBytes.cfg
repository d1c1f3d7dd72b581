CONSTANTS
  a = a
  b = b
  Bytes = {a, b}
  Zero = b
  Setups <- LongerPattern
  FIFO_LATENCY = 5
SPECIFICATION Spec
INVARIANT MatchIsFresh
