SPECIFICATION MCSpec
CONSTANTS
  t1 = t1
  t2 = t2
  Ports <- TwoPorts
  CommonHosts <- TwoHosts
  Gateway = "172.17.0.1"
  MaxRetries = 2
  Tokens = {t1, t2}
  MaxChanges = 2
  MaxCmds = 2
  MaxLag = 1
  MaxConns = 2
INVARIANTS TypeOK NothingSkipped
PROPERTIES TcpAtMostOnce DeliveredOrEnded TokensAgree MetricsResume
