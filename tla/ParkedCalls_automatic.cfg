SPECIFICATION Spec
CONSTANTS
  c1 = c1
  c2 = c2
  c3 = c3
  Calls <- Three
  Switch <- TwoSwitches
  NoSwitch = NoSwitch
  Actions <- OnlyPark
  First = 100
  Dialled = {}
  NoSlot = NoSlot
INVARIANT AutomaticSlotsDiffer
CHECK_DEADLOCK FALSE
