SPECIFICATION AppSpec
CONSTANTS
  NumTables = 1
  TableSize = 1
  MaxDelay = 1
  CountModulus = 4
  AddrModulus = 8
  SymbolNames <- MCSymbolNames
  NullSymbol = ""
  SymbolTable <- MCSymbolTable
  Memory <- MCMemory
  Signatures = {"none", "default", "load"}
  NoSignature = "none"
  Unterminated = "unterminated"
  DefaultSignature = "default"
  CounterModulus = 2
  SavedImages <- Nothing
  LoadImages <- Nothing
  StartStopMasks = {}
  JamCommands <- OneJam
  SignatureCommands <- Nothing
  TblFaults = FALSE
  ReadFaults = FALSE
  MaxLoads = 1
  Builds = {"headers"}
  ServiceFaults = FALSE
PROPERTIES
  JamNotSaved
