SPECIFICATION Spec
CONSTANTS
  Clients <- MCClients
  Runs <- MCRuns
  MaxRequests = 2
  MaxSigReqs = 2
  Workers = {1, 2}
INVARIANTS
  ResponsesInOrder
  NoRequestMissed
PROPERTIES
  EveryRequestAnswered
CHECK_DEADLOCK FALSE
