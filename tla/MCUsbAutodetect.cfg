CONSTANTS
  WAIT1 = 3
  WAIT2 = 5
  TIMER_MOD = 8
SPECIFICATION FairSpec
INVARIANTS TypeOK WaitNotMissed SpeedIsEarned DoneAnnounces
PROPERTIES SpeedIsStable DetectionEnds
