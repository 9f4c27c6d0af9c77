CONSTANTS
  GDB_BUF_MAX = 4
  EarlyKinds = {"q"}
  MaxAsked = 3
  MaxIncidents = 1
SPECIFICATION Spec
INVARIANT PacketTypeOK
PROPERTIES
  InStep
  RequestAnswered
CHECK_DEADLOCK FALSE
