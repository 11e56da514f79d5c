CONSTANTS
  Half = 8
  Margin = 1
  Unset = Unset
  Malformed = Malformed
  Refused = Refused
  Default <- MCDefault
  Envs <- MCEnvs
  ClocksAgree = FALSE
  Horizon = 9
SPECIFICATION Spec
INVARIANTS
  MarginHolds
  NoTimeoutDisabled
CHECK_DEADLOCK FALSE
