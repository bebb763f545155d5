SPECIFICATION Spec
CONSTANTS
  Names = {"a"}
  Values = {}
  Ops = {"DUP"}
  Uses <- StructureWords
  SST_NODE_MAX = 7
  DictCells = 5
  SymbolCells = 2
INVARIANTS
  BranchesStayInWord
  OpenBranchesHeld
  LoopsNest
PROPERTIES
  FinishedCodeFrozen
  ImplementsWordStore
CHECK_DEADLOCK FALSE
