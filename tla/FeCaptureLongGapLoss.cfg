CONSTANTS
  SHORT = 6
  FULL = 8
  COUNT_MOD = 5
  CaptureLens = {0}
  MaxIdle = 11
  Stat = {s1, s2}
  s1 = s1
  s2 = s2
SPECIFICATION Spec
INVARIANT EntryPerEvent
