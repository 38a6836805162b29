SPECIFICATION FairSpec
CONSTANTS
  Callers = {route, control}
  Lasting = {control}
  NoOne = NoOne
  OWC = 1
  Reluctance = 2
  PublishRaises = TRUE
  MaxRequests = 2
  MaxWorkers = 4
  MaxCrashes = 1
INVARIANTS Custody DeadOnesLeave CountCovers EndIsHeard
PROPERTIES ImplementsLending WorkersReturn PeakIsShed
CHECK_DEADLOCK FALSE
