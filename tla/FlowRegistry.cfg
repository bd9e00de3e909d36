SPECIFICATION Spec
CONSTANTS
  Flows = {"a", "b", "c", "d"}
  Entrypoint = "a"
  Versions <- MCVersions
  MaxDepth = 3
INVARIANTS
  LoadsWhatIsCalled
  ErrorsReachTheTop
  OnlyCutRunsLeaveCalls
PROPERTIES
  EveryRunEnds
CHECK_DEADLOCK FALSE
