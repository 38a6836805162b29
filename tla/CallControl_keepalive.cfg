SPECIFICATION Spec
CONSTANTS
  CallIds = {c1}
  InitCall = c1
  Controllers = {q1}
  QueueApps <- AppsPlayNoop
  NowApps <- AppsFetch
  NodeCanFail = FALSE
  SlowSwitch = FALSE
  MaxCmds = 2
  MaxGroup = 1
  MaxNow = 1
PROPERTIES KeepAliveHonoured
CHECK_DEADLOCK FALSE
