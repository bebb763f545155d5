SPECIFICATION Spec
CONSTANTS
  Names = {"A", "B"}
  Uses = {}
  Numbers = {2}
  MaxMacros = 2
  MaxWords = 3
  ChipWords = {"DUP"}
  MaxTyped = 1
  MaxFuel = 20
  Width = 4
  STACK_DEEP_SIZE = 9
  AndBits <- BitAnd
  OrBits <- BitOr
  XorBits <- BitXor
INVARIANTS
  EveryMacroMeans
CHECK_DEADLOCK FALSE
