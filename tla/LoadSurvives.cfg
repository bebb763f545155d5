SPECIFICATION Spec
CONSTANTS
  Names = {"a"}
  Values <- NoNumbers
  Ops = {}
  Uses = {"IF"}
  SST_NODE_MAX = 4
  DictCells = 5
  SymbolCells = 2
  ConstantValues = {0}
  MEM_SIZE_IN_BYTE = 64
  Outside = {0}
  And16 <- BitAnd
  Or16 <- BitOr
  Xor16 <- BitXor
  HostValues <- NoNumbers
  MaxCells = 1
  MaxCalls = 0
  MaxSteps = 0
INVARIANTS
  EveryLoadSurvives
CHECK_DEADLOCK FALSE
