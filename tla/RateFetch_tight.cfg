CONSTANTS
  Attempts = 3
  Timeout = 3
  Backoff = 2
  TaskTimeout <- Tight
SPECIFICATION Spec
INVARIANTS
  OutcomeTrue
  OursNeverBlamed
  DeadlineEarned
CHECK_DEADLOCK FALSE
