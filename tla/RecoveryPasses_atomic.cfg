CONSTANTS
  Passes = {p1, p2}
  Rows = {r1, r2}
  Worker = Worker
  Nobody = Nobody
  MaxAttempts = 2
  MaxFaults = 1
SPECIFICATION FairSpec
INVARIANTS
  EndedOnce
PROPERTIES
  PassesAreAtomic
  ClaimsEnd
