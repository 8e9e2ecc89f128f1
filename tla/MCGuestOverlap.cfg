SPECIFICATION Spec
CONSTANTS
  HostDefer = 3
  LocalCooldown = 2
  SustainedTicks = 2
  HistoryMax = 3
PROPERTY SilentDuringCommands
