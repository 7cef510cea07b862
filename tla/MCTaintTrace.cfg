SPECIFICATION Spec
CONSTANTS
  ax = ax
  bx = bx
  CF = CF
  ZF = ZF
  NumSymbolicVariables = 2
  Reg <- MCReg
  Flag <- MCFlag
  Instr <- MCInstr
  MaxIndex = 5
INVARIANTS
  TypeOK
  IndicesAreDense
  DepsWrittenBefore
  IndicesKnown
  RootsFollowTrace
  TaintExact
  TaintHasSource
CHECK_DEADLOCK FALSE
