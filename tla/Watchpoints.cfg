CONSTANTS
  HWP_MAX_WP = 2
  Absent = {}
  Addrs = {a1, a2}
  HwTypes = {"BP_HARDWARE", "WP_WRITE"}
  GdbRepeats = FALSE
  ClientWaits = TRUE
  MaxRequests = 4
  MaxEdits = 2
  MaxFaults = 1
SPECIFICATION Spec
INVARIANTS
  WatchTypeOK
  WatchpointsAccounted
  
  

  
CHECK_DEADLOCK FALSE
