SPECIFICATION FairSpec
CONSTANTS
  Modes = {TRUE, FALSE}
  MayHangUp = TRUE
  MaxTokens = 4
  MaxRuns = 6
  PatchFound = {TRUE, FALSE}
  MayFail = TRUE
INVARIANTS
  TypeOK
  ExecutesEachOnce
  NoTaskSkipped
PROPERTY Stops
CHECK_DEADLOCK FALSE
