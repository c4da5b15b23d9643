SPECIFICATION Spec
CONSTANTS
  NumTables = 1
  TableSize = 2
  MaxDelay = 1
  CountModulus = 4
  AddrModulus = 8
  SymbolNames <- MCSymbolNames
  NullSymbol = ""
  SymbolTable <- MCSymbolTable
  Memory <- MCMemory
  Signatures = {"none", "default", "load"}
  NoSignature = "none"
  Unterminated = "unterminated"
  DefaultSignature = "default"
  CounterModulus = 1
  SavedImages <- FaultImages
  LoadImages <- FaultImages
  StartStopMasks = {0, 1, 2}
  JamCommands <- FaultJams
  SignatureCommands <- FaultSignatures
  TblFaults = TRUE
  ReadFaults = TRUE
INVARIANTS
  EntryInTable
  WritesInPacket
