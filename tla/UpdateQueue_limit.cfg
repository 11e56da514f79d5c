CONSTANTS
  Tasks = {t1}
  Pairs = {p1}
  Workers = {w1}
  MaxAttempts = 1
  StuckTimeout = 0
  MaxReleases <- EachOnce
  None = None
SPECIFICATION Spec
INVARIANTS
  ClaimedAtMostMaxAttempts
CHECK_DEADLOCK FALSE
