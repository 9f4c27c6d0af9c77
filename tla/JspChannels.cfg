CONSTANTS
  JSP_BUFFER_SIZE = 3
  XFER = 2
  ClientReads = TRUE
  LateFaults = FALSE
  TargetStops = TRUE
  MaxIn = 7
  MaxOut = 7
SPECIFICATION FairJsp
INVARIANT JspTypeOK
PROPERTIES
  ToHwIsChannel
  FromHwIsChannel
  RunningIsServed
