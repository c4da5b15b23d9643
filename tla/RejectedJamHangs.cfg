SPECIFICATION Spec
CONSTANTS
  NumTables = 1
  TableSize = 3
  MaxDelay = 2
  CountModulus = 8
  AddrModulus = 8
  SymbolNames <- MCSymbolNames
  NullSymbol = ""
  SymbolTable <- MCSymbolTable
  Memory <- MCMemory
  Signatures = {"none", "default", "load"}
  NoSignature = "none"
  Unterminated = "unterminated"
  DefaultSignature = "default"
  CounterModulus = 1
  SavedImages <- HangImages
  LoadImages <- Nothing
  StartStopMasks = {}
  JamCommands <- HangJams
  SignatureCommands <- Nothing
  TblFaults = TRUE
  ReadFaults = FALSE
PROPERTIES
  ScanEnds
