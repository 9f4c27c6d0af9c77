CONSTANTS
  Rsp = rsp
  Jsp = jsp
  Servers = {rsp}
  Fds = {f1, f2}
  NoFd = NoFd
  MAX_MONITOR_CONNECTIONS = 5
  PipeCap = 4
  JtagFaults = FALSE
  PipeFaults = FALSE
  StayAttached = {}
  CpuMayTrap = FALSE
SPECIFICATION BridgeSpec
INVARIANT
  DetachResumes
