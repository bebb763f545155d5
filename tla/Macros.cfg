SPECIFICATION Spec
CONSTANTS
  Names = {"A", "DUP"}
  Uses <- MacroWords
  Numbers = {0, 2}
  MaxMacros = 2
  MaxWords = 6
  ChipWords = {"DUP"}
  MaxTyped = 3
  MaxFuel = 20
  Width = 4
  STACK_DEEP_SIZE = 9
  AndBits <- BitAnd
  OrBits <- BitOr
  XorBits <- BitXor
INVARIANTS
  TypeOK
  MacrosClosed
  MacrosMean
  NextReturnEnds
PROPERTIES
  FinishedMacrosFrozen
  MacrosEnd
CONSTRAINT
  OneKind
CHECK_DEADLOCK FALSE
