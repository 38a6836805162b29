SPECIFICATION Spec
CONSTANTS
  CallIds = {c1, c2}
  InitCall = c1
  Controllers = {q1}
  QueueApps <- AppsNoop
  NowApps <- AppsFetch
  NodeCanFail = TRUE
  SlowSwitch = TRUE
  MaxCmds = 1
  MaxGroup = 1
  MaxNow = 1
INVARIANTS StopOnlyWhenGone
CHECK_DEADLOCK FALSE
