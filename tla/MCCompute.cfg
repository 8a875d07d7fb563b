CONSTANTS
  Nodes = {"c", "w", "v"}
  NoNode = "nobody"
  NoReq = NoReq
  Tasks = {t1, t2}
  Self = "c"
  Peer = "w"
  QueueCap = 1
  Workers = 1
  Limit = 1
  PendingTTL = 1
  TerminalTTL = 2
  Coord = "c"
  Revisions <- MCRevisions
  Deployments <- MCDeployments
  Ports <- MCPorts
  Attempts = 3
  MaxLost = 1
  Hosts = {"c", "w"}
  Keeper = "c"
  Resumers = {1, 2}
  LastStep = 1
  MaxFaults = 1
INIT ComputeInit
NEXT ComputeNext
INVARIANTS
  
  CloseSettles
  TaskKept
  PrefixProduced
  EscrowKept
  SchemaRulesSound
PROPERTIES
  TerminalStable
\* A closed engine and a finished task are quiet.
CHECK_DEADLOCK FALSE
