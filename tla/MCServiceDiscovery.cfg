SPECIFICATION Spec
CONSTANTS
  RecommendedPorts <- TwoPorts
  Ports <- TwoPorts
  CommonHosts <- NoHosts
  Gateway = "172.17.0.1"
  MaxRetries = 3
  MaxFaults = 2
  MaxAdmin = 3
INVARIANTS TypeOK UninstallRemovesRules InstallComplete
PROPERTIES StopNotLost ServesAgain 
CHECK_DEADLOCK FALSE
