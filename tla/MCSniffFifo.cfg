CONSTANTS
  Setups <- ReadSetups
  FIFO_LATENCY = 5
  STRM = STRM
SPECIFICATION FairSpec
INVARIANTS EachEntryOnce NoUnderflow NoOverflow UnwarnedIsUnbroken
PROPERTIES HostFinishes
