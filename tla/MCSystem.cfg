SPECIFICATION MCSpec
CONSTANTS
  NCpus = 2
  MaxFlushes = 2
  x86emu_optab <- Optab
INVARIANTS
  MessagesServed
  CpusBooted
  PrimMatches ServiceReturns InstructionsMatch
  DeviceBroughtUp DeviceManaged TransfersSound  
CHECK_DEADLOCK FALSE
