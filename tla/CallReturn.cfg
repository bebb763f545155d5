SPECIFICATION Spec
CONSTANTS
  Names = {"a"}
  Values <- Literals
  Ops = {"ADD"}
  Uses = {"#"}
  SST_NODE_MAX = 8
  DictCells = 5
  SymbolCells = 2
  ConstantValues = {0}
  MEM_SIZE_IN_BYTE = 64
  Outside = {0}
  And16 <- BitAnd
  Or16 <- BitOr
  Xor16 <- BitXor
  HostValues <- NoNumbers
  MaxCells = 1
  MaxCalls = 1
  MaxSteps = 16
INVARIANTS
  EveryCallReturns
CHECK_DEADLOCK FALSE
