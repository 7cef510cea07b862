SPECIFICATION CSpec
CONSTANTS
  ax = ax
  bx = bx
  ZF = ZF
  NumSymbolicVariables = 1
  Reg <- MCReg
  Flag <- MCFlag
  Instr <- MCInstr
  MaxIndex = 4
PROPERTY ClearsOnlyEqualOperands
CHECK_DEADLOCK FALSE
