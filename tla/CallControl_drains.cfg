SPECIFICATION FairSpec
CONSTANTS
  CallIds = {c1}
  InitCall = c1
  Controllers = {q1}
  QueueApps <- AppsNoopPickup
  NowApps <- AppsFetch
  NodeCanFail = FALSE
  SlowSwitch = TRUE
  MaxCmds = 3
  MaxGroup = 1
  MaxNow = 1
INVARIANTS OneAtATime
PROPERTIES QueueDrains LingersThenStops
CHECK_DEADLOCK FALSE
