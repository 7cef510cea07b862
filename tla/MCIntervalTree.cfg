SPECIFICATION Spec
CONSTANT Interval <- MCInterval
INVARIANTS
  SearchTree
  HoldsStored
  FindsValues
PROPERTY BreaksOnlyLeaning
CHECK_DEADLOCK FALSE
