CONSTANTS
  m1 = m1
  m2 = m2
  NPeers = 1
  Mutators <- MCMutators
  Kinds <- MCLiveKinds
  Ordered = TRUE
  MaxRev = 2
  Nodes = {"c", "w"}
  NoNode = "nobody"
  NoReq = NoReq
  Hosts = {"c", "w"}
  Keeper = "c"
  Resumers = {1}
  LastStep = 1
  MaxFaults = 1
SPECIFICATION WorkSpec
PROPERTIES
  EventuallyDelivered
  MutationsEnd
  EscrowLeaves
\* Quiet once everything is delivered and the task is over.
CHECK_DEADLOCK FALSE
