CONSTANTS
  m1 = m1
  m2 = m2
  NPeers = 2
  Mutators <- MCMutators
  Kinds <- MCKinds
  Ordered = TRUE
  MaxRev = 2
SPECIFICATION Spec
INVARIANTS
  TypeOK
  NoLostUpdate
  NoUncommittedDelivery
  NoCircularWait
\* Quiet once the revisions are used up and delivered.
CHECK_DEADLOCK FALSE
