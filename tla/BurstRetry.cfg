SPECIFICATION Spec
CONSTANTS
  Threads = {"monitor", "rsp", "jsp"}
  Builds <- AdvancedBuild
  Calls <- CallsOf
  Words = 2
  LengthField = 8
  JspMax = 1
  MaxBusErrors = 1
  Faults = {"bus"}
  MaxFaults = 2
  MaxCalls = 3
PROPERTY WritesAreAsked
CHECK_DEADLOCK FALSE
