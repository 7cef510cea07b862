SPECIFICATION Spec
CONSTANTS
  ax = ax
  bx = bx
  cx = cx
  al = al
  ah = ah
  NoCell = NoCell
  one = one
  Loc <- MCLoc
  Cell <- MCCell
  CellSize <- MCCellSize
  Low <- MCLow
  High <- MCHigh
  Accumulator = ax
  Input <- MCInput
  Payload <- MCPayload
  First <- MCFirst
  Symbolic <- MCSymbols
  Instr <- MCInstr
  MaxSteps = 3
  Leftover = {TRUE, FALSE}
  BitAnd <- MCAnd
  BitOr <- MCOr
  BitXor <- MCXor
  BitOdd <- MCOdd
INVARIANTS
  TypeOK
  OperandsExact
  FlagsExact
  ConditionsExact
CHECK_DEADLOCK FALSE
