SPECIFICATION Spec
CONSTANTS
  CallIds = {c1}
  InitCall = c1
  Controllers = {q1}
  QueueApps <- AppsNoopStore
  NowApps <- AppsFetch
  NodeCanFail = TRUE
  SlowSwitch = FALSE
  MaxCmds = 3
  MaxGroup = 2
  MaxNow = 2
INVARIANTS ExactlyOnce TailOrder WorkConserving
PROPERTIES ImplementsQueue
CHECK_DEADLOCK FALSE
