SPECIFICATION Spec
CONSTANTS
  Threads = {"monitor", "rsp", "jsp"}
  Builds <- BothBuilds
  Calls <- CallsOf
  Words = 2
  LengthField = 8
  JspMax = 1
  MaxBusErrors = 1
  Faults = {"corrupt", "bus", "timeout", "cable"}
  MaxFaults = 2
  MaxCalls = 3
INVARIANT AccessTypeOK
 
 
CHECK_DEADLOCK FALSE
