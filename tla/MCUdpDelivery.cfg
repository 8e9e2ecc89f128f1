SPECIFICATION FairSpec
CONSTANTS
  InboxMax = 2
  CacheSize = 2
  ReusePorts = FALSE
  MaxSessions = 2
  MaxCmds = 2
  MaxExecs = 3
INVARIANT OneSessionPerCommand
PROPERTIES
  AtMostOnceDelivery
  ResendStops
CHECK_DEADLOCK FALSE
