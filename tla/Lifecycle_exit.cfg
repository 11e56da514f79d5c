CONSTANTS
  Workers = {w1, w2}
  Requests = {r1, r2}
SPECIFICATION FairSpec
INVARIANTS
  PoolOutlivesClaims
  CleanExitWhole
  InFlightFinish
PROPERTIES
  ProcessEnds
CHECK_DEADLOCK FALSE
