CONSTANTS
  Jobs = {1, 2}
  Prewarms = {p1, p2}
  Caller = caller
  Conns = {c1, c2}
  NoConn = noConn
  NoThread = noThread
  MaxGen = 2
  MaxTLS = 2
  Sponsors = {1, 2}
  Forwards = {"f", "g"}
  NoSponsor = 0
  RelayCap = 1
  RelaySlots = 2
  Peers = {p, q}
  Addresses = {a, b}
  Others = {{}}
  MaxSeq = 1
  Handlers = {h, i}
  NoRecord = noRecord
  Secrets = {s, t}
  Joins = {j, k}
  ValidFor = 2
  MaxTime = 4
  Members = {m, n}
  Runs = {1}
  MaxFaults = 1
  MaxCrashes = 2
  Callers = {u, v}
  MaxServers = 3
  NoCaller = noCaller
INIT NodeInit
NEXT NodeNext
SYMMETRY NodeSymmetry
INVARIANTS
  NodeTypeOK
  ShutdownClean
  SessionsCurrent
  WorkOwned
  RelayBounded
  RepliesDelivered
  PrimaryUnique
  InviteBuysOne
  
  
  RuntimeExclusive
\* A shut down node, a finished rotation and a finished join are quiet.
CHECK_DEADLOCK FALSE
