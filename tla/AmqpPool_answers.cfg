SPECIFICATION Spec
CONSTANTS
  Callers = {p1, p2}
  Lasting = {}
  NoOne = NoOne
  OWC = 1
  Reluctance = 2
  PublishRaises = FALSE
  MaxRequests = 2
  MaxWorkers = 4
  MaxCrashes = 0
INVARIANT AnswersOwn
CHECK_DEADLOCK FALSE
