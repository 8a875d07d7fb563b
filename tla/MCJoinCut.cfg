SPECIFICATION JISpec
CONSTANTS
  MaxFaults = 0
  MaxCrashes = 2
INVARIANTS
  JoinRecoverable
CHECK_DEADLOCK FALSE
