CONSTANTS
  Words = 3
  Instrs = {"nop", "ill", "trap"}
  Faults = {"read", "write"}
  FreeNpc = FALSE
  MaxRequests = 8
  MaxRun = 4
SPECIFICATION Spec
INVARIANTS
  RequestTypeOK
  
  
  PcTruthful
  
  
CHECK_DEADLOCK FALSE
