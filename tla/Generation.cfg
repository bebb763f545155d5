SPECIFICATION Spec
CONSTANTS
  Names = {"(DO)"}
  Values <- Sizes
  Ops = {"STORE"}
  Uses = {"VARIABLE", "ALLOT", "IF", "ELSE", "THEN", "DO"}
  SST_NODE_MAX = 7
  DictCells = 7
  SymbolCells = 2
  ConstantValues = {9}
  MEM_SIZE_IN_BYTE = 64
  Outside = {0}
  And16 <- BitAnd
  Or16 <- BitOr
  Xor16 <- BitXor
  HostValues <- NoNumbers
  MaxCells = 1
  MaxCalls = 0
  MaxSteps = 0
INVARIANTS
  BranchesGenerated
  NodesApart
CHECK_DEADLOCK FALSE
