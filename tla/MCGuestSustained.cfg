SPECIFICATION FairSpec
CONSTANTS
  HostDefer = 2
  LocalCooldown = 1
  SustainedTicks = 3
  HistoryMax = 2
PROPERTY ActsAfterSustainedTicks
