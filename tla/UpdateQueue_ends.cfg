CONSTANTS
  Tasks = {t1, t2}
  Pairs = {p1, p2}
  Workers = {w1}
  MaxAttempts = 2
  StuckTimeout = 1
  MaxReleases <- OneOnce
  None = None
SPECIFICATION FairSpec
PROPERTIES
  EveryTaskEnds
CHECK_DEADLOCK FALSE
