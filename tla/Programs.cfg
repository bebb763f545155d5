SPECIFICATION Spec
CONSTANTS
  Names = {"a", "b"}
  Values <- Literals
  Ops = {"ADD", "SWAP", "STORE", "FETCH", "DUP", "1_SUB"}
  Uses = {"#", "VARIABLE", "IF", "ELSE", "THEN", "BEGIN", "WHILE", "REPEAT", "UNTIL"}
  SST_NODE_MAX = 8
  DictCells = 9
  SymbolCells = 2
  ConstantValues = {0}
  MEM_SIZE_IN_BYTE = 64
  Outside = {0}
  And16 <- BitAnd
  Or16 <- BitOr
  Xor16 <- BitXor
  HostValues <- Typed
  MaxCells = 3
  MaxCalls = 2
  MaxSteps = 40
INVARIANTS
  ResultsAgree
  LoadedNeverCrashes
CONSTRAINT
  OneKind
CHECK_DEADLOCK FALSE
