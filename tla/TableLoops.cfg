SPECIFICATION Spec
CONSTANTS
  NumTables = 1
  TableSize = 3
  MaxDelay = 2
  CountModulus = 8
  AddrModulus = 16
  SymbolNames <- MCSymbolNames
  NullSymbol = ""
  SymbolTable <- MCSymbolTable
  Memory <- MCMemory
  Signatures = {"none", "load"}
  NoSignature = "none"
  Unterminated = "unterminated"
  IndexModulus = 4
  Images <- MCImages
INVARIANTS
  CheckFindsFirst
  CopyMatches
PROPERTIES
  EndNears
  LoopsEnd
CHECK_DEADLOCK FALSE
