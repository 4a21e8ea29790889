SPECIFICATION Spec
CONSTANTS
  Module = {"FTL", "MANAGER"}
  ManagerId = "MANAGER"
  Priority = {1, 2, 3}
  MsgType = {"ERROR_REPORT", "HEALTH_CHECK"}
  QueueSize = 3
  WatchdogTimeout = 2
  MaxErrorCount = 3
  IdleTimeout = 2
  StandbyTimeout = 3
  SleepTimeout = 4
  NormalTemp = 1
  WarningTemp = 3
  CriticalTemp = 4
  ShutdownTemp = 5
  Temperatures = {2, 4, 5}
  Healths = {2}
  PowerSettings = {"ACTIVE"}
INVARIANT OverallIsWorst
PROPERTY DeliveredInOrder
PROPERTY RecoveryEarned
PROPERTY SilentModuleRecovered
