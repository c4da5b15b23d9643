SPECIFICATION Spec
CONSTANTS
  NumTables = 2
  TableSize = 2
  MaxDelay = 1
  CountModulus = 4
  AddrModulus = 8
  SymbolNames <- MCSymbolNames
  NullSymbol = ""
  SymbolTable <- MCSymbolTable
  Memory <- MCMemory
  Signatures = {"none", "default", "load", "jam"}
  NoSignature = "none"
  Unterminated = "unterminated"
  DefaultSignature = "default"
  CounterModulus = 2
  SavedImages <- TwoTableImages
  LoadImages <- TwoTableImages
  StartStopMasks = {0, 1, 2, 3, 4, 6}
  JamCommands <- TwoTableJams
  SignatureCommands <- TwoTableSignatures
  TblFaults = FALSE
  ReadFaults = FALSE
INVARIANTS
  BufferRestoresStream
  WaitsWithinDelay
PROPERTIES
  RejectionChangesNothing
  ImplementsTimer
