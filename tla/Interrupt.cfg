SPECIFICATION Spec
CONSTANTS
  Names = {"A"}
  Uses = {"BEGIN", "WHILE", "REPEAT"}
  Numbers = {2}
  MaxMacros = 1
  MaxWords = 4
  ChipWords = {"DUP"}
  MaxTyped = 1
  MaxFuel = 20
  Width = 4
  STACK_DEEP_SIZE = 9
  AndBits <- BitAnd
  OrBits <- BitOr
  XorBits <- BitXor
PROPERTIES
  InterruptStops
CHECK_DEADLOCK FALSE
