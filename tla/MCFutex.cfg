SPECIFICATION FairSpec
CONSTANTS
  t1 = t1
  t2 = t2
  t3 = t3
  Threads = {t1, t2, t3}
  Words = {0, 1}
  Timeouts <- MCTimeouts
  Width = 3
INVARIANTS
  WakesExact
  NoLostWakeup
PROPERTIES
  WaitEnds
  RefusedSpins
CHECK_DEADLOCK FALSE
