CONSTANTS
  a = a
  b = b
  Bytes = {a, b}
  Zero = b
  Setups <- ShortCapture
  FIFO_LATENCY = 5
SPECIFICATION Spec
INVARIANT CaptureStartIsDue
