SPECIFICATION InstructionSpec
CONSTANTS
  Words <- TranslatedWords
  Numbers <- Edges
  Samples <- Corners
  Bases <- Positions
  MEM_SIZE_IN_BYTE = 64
  Outside = {0}
  And16 <- BitAnd
  Or16 <- BitOr
  Xor16 <- BitXor
INVARIANTS
  TypeOK
  InstructionsMean
CHECK_DEADLOCK FALSE
