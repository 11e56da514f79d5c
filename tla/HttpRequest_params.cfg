CONSTANTS
  Half = 16
  Margin = 2
  WriteTimeout = 6
  ReadTimeout = 3
  Lag = 1
  Horizon = 9
  MaxLength = 5
  Invalid = Invalid
SPECIFICATION Spec
INVARIANTS
  ParamsRefused
CHECK_DEADLOCK FALSE
