CONSTANTS
  Tasks = {t1, t2}
  Pairs = {p1}
  Workers = {w1, w2}
  MaxAttempts = 2
  StuckTimeout = 1
  MaxReleases <- EachOnce
  None = None
SPECIFICATION Spec
SYMMETRY Symmetry
INVARIANTS
  ResultsWhole
  ClaimsDistinct
  AttemptsBounded
  NewestRateWins
  OneUnfinishedPerPair
PROPERTIES
  TerminalIsFinal
  OnlyHolderFinishes
  RecoveryClockRuns
  KeepsPromise
  RowsAsAgreed
CHECK_DEADLOCK FALSE
