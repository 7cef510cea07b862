SPECIFICATION Spec
CONSTANTS
  a = a
  b = b
  Variable <- MCVariable
  Word <- MCWord
  ByteSize = 3
  Block <- MCBlock
  NoBlock = 0
  Entry <- MCEntry
  Reads <- MCReads
  Test <- MCTest
  Successors <- MCSuccessors
  PoolSize = 8
  LogSize = 2
  Reports = {TRUE, FALSE}
INVARIANTS
  PathState
  OnlyNewPaths
PROPERTY ExploresAll
CHECK_DEADLOCK FALSE
