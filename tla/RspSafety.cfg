CONSTANTS
  Rsp = rsp
  Jsp = jsp
  Servers = {rsp, hwp}
  Fds = {f1, f2}
  NoFd = NoFd
  MAX_MONITOR_CONNECTIONS = 5
  PipeCap = 3
  JtagFaults = TRUE
  PipeFaults = FALSE
  StayAttached = {}
  CpuMayTrap = TRUE
SPECIFICATION BridgeSpec
INVARIANTS
  BridgeTypeOK
PROPERTIES
  StopReplyTruthful
  ClosedSessionIsOver
