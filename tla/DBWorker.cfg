SPECIFICATION Spec
CONSTANTS
  Runs = {"r1", "r2"}
  Owner <- OneUser
  MaxRows = 2
  ChunkSize = 2
  Proxied = TRUE
INVARIANTS
  RowsInOrder
  ShutdownKeepsRows
PROPERTIES
  ShutdownEnds
CHECK_DEADLOCK FALSE
