CONSTANTS
    Flows <- CheckedFlows
    MaxArray = 3
SPECIFICATION FairSpec
INVARIANTS
  ElementsAligned
  CollectIsComplete
  LoopNeverPanics
  NoStuckWait
  BundleIsWhole
PROPERTIES
  RerunsUseElements
  Terminates
