SPECIFICATION Spec
CONSTANTS
  ChunkSize = 2
  MaxDepth = 21
  MaxFile = 7
INVARIANTS
  TypeOK
  PopsWhatWasPushed
CHECK_DEADLOCK FALSE
