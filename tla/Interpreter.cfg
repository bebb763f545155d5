SPECIFICATION Spec
CONSTANTS
  Texts <- AllTexts
  TokenMax = 2
  Numbers <- Operand
  ChipWords <- OneChipWord
  Width = 4
  STACK_DEEP_SIZE = 5
  AndBits <- BitAnd
  OrBits <- BitOr
  XorBits <- BitXor
INVARIANTS
  TypeOK
  WordsOutsideComments
  ErrorNamesItsLine
PROPERTIES
  ImplementsDataStack
CHECK_DEADLOCK FALSE
