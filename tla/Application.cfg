SPECIFICATION AppSpec
CONSTANTS
  NumTables = 2
  TableSize = 1
  MaxDelay = 1
  CountModulus = 4
  AddrModulus = 8
  SymbolNames <- MCSymbolNames
  NullSymbol = ""
  SymbolTable <- MCSymbolTable
  Memory <- MCMemory
  Signatures = {"none", "default", "load"}
  NoSignature = "none"
  Unterminated = "unterminated"
  DefaultSignature = "default"
  CounterModulus = 2
  SavedImages <- OldSaved
  LoadImages <- AppLoads
  StartStopMasks = {2}
  JamCommands <- RateJams
  SignatureCommands <- Nothing
  TblFaults = FALSE
  ReadFaults = TRUE
  MaxLoads = 1
  Builds = {"headers"}
  ServiceFaults = TRUE
INVARIANTS
  AppTypeOK
  ResetResumes
PROPERTIES
  FailureStops
  ZeroRateTold
  StartUpKeepsSaved
  ImplementsStreams
  PipeApproached
  ReturnsToPipe
  LoadsServed
