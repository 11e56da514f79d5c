CONSTANTS
  Tasks = {t1, t2}
  Workers = {w1, w2}
  Requests = {r1, r2, r3, r4}
  Here = {r1, r2, r3}
  None = None
SPECIFICATION Spec
SYMMETRY Symmetry
INVARIANTS
  SignalKept
CHECK_DEADLOCK FALSE
