CONSTANTS
  SHORT = 6
  FULL = 8
  COUNT_MOD = 5
  CaptureLens = {0, 1}
  MaxIdle = 9
  Stat = {s1, s2}
  s1 = s1
  s2 = s2
SYMMETRY StatSymmetry
SPECIFICATION Spec
INVARIANT EntryPerEvent
INVARIANT HostTimeExact
INVARIANT HostStatusCurrent
INVARIANT OvershootAtMostTwo
