SPECIFICATION FairSpec
CONSTANTS
  c1 = c1
  c2 = c2
  c3 = c3
  Calls <- Three
  Switch <- TwoSwitches
  NoSwitch = NoSwitch
  Actions <- AllActions
  First = 2
  Dialled = {0, 2}
  NoSlot = NoSlot
PROPERTIES ImplementsLot ModulesEnd
CHECK_DEADLOCK FALSE
