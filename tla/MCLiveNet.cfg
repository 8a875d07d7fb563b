CONSTANTS
  Jobs = {1}
  Sponsors = {1, 2, 3}
  Forwards = {}
  NoSponsor = 0
  RelayCap = 1
  RelaySlots = 1
  Callers = {c, d}
  MaxServers = 2
  NoCaller = noCaller
SPECIFICATION NetSpec
PROPERTIES
  ShutdownEnds
  AddressFollowsMapping
  
  StopCompletes
\* A stopped node is quiet.
CHECK_DEADLOCK FALSE
