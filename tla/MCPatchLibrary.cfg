SPECIFICATION Spec
CONSTANTS
  Module = {"libpayload"}
  Unloaded = {"libother"}
  Offset = {"o1", "o2"}
  Value = {"v1", "v2"}
  MaxLines = 3
  Blanks = {0, 1}
  Kind = {"patch", "force", "comment", "empty"}
INVARIANTS
  PrefixApplied
  AllApplied
CHECK_DEADLOCK FALSE
