CONSTANTS
  Half = 16
  Margin = 2
  WriteTimeout = 6
  ReadTimeout = 3
  Lag = 1
  Horizon = 9
  MaxLength = 5
  Invalid = Invalid
SPECIFICATION FairSpec
INVARIANTS
  OneAnswer
  LogTellsAnswer
  StayingClientAnswered
  OneSpelling
PROPERTIES
  RequestEnds
CHECK_DEADLOCK FALSE
