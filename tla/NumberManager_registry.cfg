SPECIFICATION FairSpec
CONSTANTS
  Numbers = {n1}
  Accounts = {a, b}
  NoOne = NoOne
  Stock = {n1}
  MaxRequests = 3
  MaxRunning = 2
  MaxFaults = 2
INVARIANTS DiscoveryNotPurchased ListsAgree
PROPERTIES ImplementsRegistry Finishes
CHECK_DEADLOCK FALSE
