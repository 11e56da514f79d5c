CONSTANTS
  Requests = {r1, r2, r3}
  Tasks = {t1, t2, t3}
  Pairs = {p1, p2}
  Keys = {k1}
  TTL = 1
  MaxNow = 2
  None = None
SPECIFICATION Spec
SYMMETRY Symmetry
INVARIANTS
  AnswerStands
  AnswerFresh
  NoCircleOfWaits
PROPERTIES
  PostsAreAtomic
  LiveBindingKept
  NobodysTask
  UnboundOnlyByAge
CHECK_DEADLOCK FALSE
