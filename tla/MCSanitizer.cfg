SPECIFICATION SpecAll
CONSTANTS
  MaxBlocks = 3
  Symbolic <- MCSymbolic
  Locals = {0, 1}
  Arguments = {0}
  Input = {1, 2}
  Formula <- MCFormula
  EmptySpace <- MCEmptySpace
  WithInterval <- MCWithInterval
  InSpace <- MCInSpace
INVARIANTS
  SanitizerTypeOK
  NeverBreaks
  AddressesAnnotated
  CallsFollowed
  ReportsExact
CHECK_DEADLOCK FALSE
