\* Pipelines, with the push that follows every address refresh.
CONSTANTS
  m1 = m1
  m2 = m2
  NPeers = 1
  Mutators <- MCMutators
  Kinds <- MCPushKinds
  Ordered = TRUE
  MaxRev = 2
  AddRevs = {1}
SPECIFICATION PushSpec
INVARIANTS
  NoLostUpdate
\* Quiet once the revisions are used up and delivered.
CHECK_DEADLOCK FALSE
