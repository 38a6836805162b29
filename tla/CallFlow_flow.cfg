SPECIFICATION FairSpec
CONSTANTS
  Nodes <- MCNodes
  Keys <- MCKeys
  Wild = "_"
  Child <- MCChild
  Root = "menu"
  Branches <- MCBranches
  Undefined = "undefined"
  Empty = "empty"
  Pids = {p1, p2}
  None = none
  MaxTransfers = 2
  MaxAsks = 1
  MaxStrays = 1
  MaxMail = 1
INVARIANTS OneDecider DecidedHere NoOrphans FollowsItsCall HangsUpItsCall CheckIsComing
PROPERTIES ImplementsWalk GoneCallEnds
CHECK_DEADLOCK FALSE
