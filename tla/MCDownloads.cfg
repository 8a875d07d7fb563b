CONSTANTS
  Names = {a}
  LastVersion = 2
  Handlers = {h1}
  Workers = {w1}
  QueueCap = 1
  MaxTries = 2
  MaxCrashes = 1
SPECIFICATION DLFairSpec
INVARIANTS
  DLTypeOK
  NoStrandedReservation
PROPERTIES
  IntentsSettle
