SPECIFICATION Spec
CONSTANTS
  Names = {"a", "b"}
  Values <- OneValue
  Ops = {}
  Uses = {"#", "VARIABLE", "CONSTANT", "ALLOT", "IF", "ELSE", "THEN", "FOR", "NEXT"}
  SST_NODE_MAX = 7
  DictCells = 7
  SymbolCells = 2
INVARIANTS
  TypeOK
  CallsFinishedWords
  VisibleWordsComplete
  DictionaryFits
PROPERTIES
  ImplementsWordStore
CHECK_DEADLOCK FALSE
