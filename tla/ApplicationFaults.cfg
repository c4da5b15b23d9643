SPECIFICATION AppSpec
CONSTANTS
  NumTables = 2
  TableSize = 1
  MaxDelay = 1
  CountModulus = 4
  AddrModulus = 8
  SymbolNames <- MCSymbolNames
  NullSymbol = ""
  SymbolTable <- MCSymbolTable
  Memory <- MCMemory
  Signatures = {"none", "default", "load"}
  NoSignature = "none"
  Unterminated = "unterminated"
  DefaultSignature = "default"
  CounterModulus = 2
  SavedImages <- SavedIdling
  LoadImages <- SavedIdling
  StartStopMasks = {1, 3, 4}
  JamCommands <- NullJams
  SignatureCommands <- AnySignatures
  TblFaults = TRUE
  ReadFaults = TRUE
  MaxLoads = 1
  Builds = {"headers", "eds"}
  ServiceFaults = FALSE
PROPERTIES
  VerdictReported
  DriftTold
  LossTold
