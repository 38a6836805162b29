SPECIFICATION FairSpec
CONSTANTS
  ChannelsFail = TRUE
  MaxFailures = 2
INVARIANTS OneConnection KeepsTrying BindingsFollow
PROPERTY MgrRecovers
CHECK_DEADLOCK FALSE
