CONSTANTS
  Servers = {s1, s2, s3}
  Fds = {f1, f2, f3}
  NoFd = NoFd
  MAX_MONITOR_CONNECTIONS = 2
  PipeCap = 1
  JtagFaults = TRUE
  PipeFaults = TRUE
SPECIFICATION Spec
SYMMETRY Symmetry
INVARIANTS
  TypeOK
  TableConsistent
  StoppedIsStopped
  DrainedServerAgrees
