SPECIFICATION FairSpec
CONSTANTS
  b1 = b1
  b2 = b2
  b3 = b3
  bx = bx
  Modes = {FALSE}
  TrackingMode = "z3"
  Size = {1, 2}
  MaxSize = 2
  MaxTasks = 3
  Block = {b1, b2, b3, bx}
  Entry = b1
  Branch <- MCBranch
  Tested <- MCTested
  Untranslatable = {bx}
  PatchFound = {TRUE}
INVARIANTS
  TypeOK
  AnswersFaithful
  AnswersFramed
PROPERTIES
  ServesTasks
  Stops
CHECK_DEADLOCK FALSE
