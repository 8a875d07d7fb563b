----------------------------- MODULE BindRuntime ------------------------------
(* The singleton node of the bind runtime (bind.go).  StartNode, StopNode and *)
(* JoinCluster are called by the user interface at any time; a monitor ends   *)
(* the node when its listeners fail, and a finalizer goroutine shuts the      *)
(* server down, waits for the background work and clears the globals.         *)
(* joinMutex keeps starts and joins apart; srvMutex guards the globals and is *)
(* held through a whole start.  Servers are numbered in the order created.    *)
EXTENDS Naturals, FiniteSets

CONSTANTS Callers,    \* the threads of the user interface
          MaxServers, \* bound on the servers created
          NoCaller

ASSUME BindRuntimeAssumption == MaxServers \in Nat /\ NoCaller \notin Callers

VARIABLES srv,       \* the global server, 0 when none
          stopping,  \* appStopping
          finalizer, \* finalizer[g]: none, run, wait (for the work), done
          server,    \* server[g]: none, starting, serving, ended, closed
          bg,        \* the servers with background work
          call,      \* call[c]: where the call of thread c stands
          joinLock, srvLock \* the callers that hold the mutexes

brVars == <<srv, stopping, finalizer, server, bg, call, joinLock, srvLock>>

Servers == 1..MaxServers
Returned == [pc |-> "idle"]

BRTypeOK ==
  /\ srv \in 0..MaxServers /\ stopping \in BOOLEAN
  /\ finalizer \in [Servers -> {"none", "run", "wait", "done"}]
  /\ server \in [Servers -> {"none", "starting", "serving", "ended", "closed"}]
  /\ bg \subseteq Servers
  /\ \A c \in Callers : call[c].pc \in {"idle", "enter", "boot", "stop", "await"}
  /\ {joinLock, srvLock} \subseteq Callers \cup {NoCaller}

BRInit == /\ srv = 0 /\ stopping = FALSE
          /\ finalizer = [g \in Servers |-> "none"]
          /\ server = [g \in Servers |-> "none"]
          /\ bg = {}
          /\ call = [c \in Callers |-> Returned]
          /\ joinLock = NoCaller /\ srvLock = NoCaller

Unlocked == srvLock = NoCaller
Goes(c, s) == call' = [call EXCEPT ![c] = s]
Globals == <<srv, stopping, finalizer>>

(* --------------------------------- start --------------------------------- *)

\* StartNode takes joinMutex and recovers an interrupted join.
StartNode(c) ==
  /\ call[c] = Returned /\ joinLock = NoCaller
  /\ joinLock' = c
  /\ Goes(c, [pc |-> "enter", op |-> "start", retry |-> FALSE])
  /\ UNCHANGED <<Globals, server, bg, srvLock>>

\* The end of a start: StartNode returns; a join whose node does not start, or
\* is not committed, stops what runs and rolls back.
AfterStart(c, ok) ==
  IF call[c].op = "join" /\ ~ ok
  THEN /\ Goes(c, [pc |-> "stop", op |-> "restore", retry |-> call[c].retry])
       /\ UNCHANGED joinLock
  ELSE Goes(c, Returned) /\ joinLock' = NoCaller

\* Mutant of StartEnter: only a running node refuses the start, not one that is stopping.
StartEnterStopping(c) ==
  /\ call[c].pc = "enter" /\ Unlocked
  /\ IF srv # 0 /\ ~ stopping
     THEN AfterStart(c, FALSE) /\ UNCHANGED <<server, srvLock>>
     ELSE \/ AfterStart(c, FALSE) /\ UNCHANGED <<server, srvLock>>
          \/ \E g \in Servers :
               /\ server[g] = "none" /\ \A h \in 1..(g - 1) : server[h] # "none"
               /\ server' = [server EXCEPT ![g] = "starting"]
               /\ srvLock' = c
               /\ Goes(c, [call[c] EXCEPT !.pc = "boot"])
               /\ UNCHANGED joinLock
  /\ UNCHANGED <<Globals, bg>>

\* startNode with srvMutex held: refused while a server is there, stopping or
\* not; else the server is created, or that fails.
StartEnter(c) ==
  /\ call[c].pc = "enter" /\ Unlocked
  /\ IF srv # 0
     THEN AfterStart(c, FALSE) /\ UNCHANGED <<server, srvLock>>
     ELSE \/ AfterStart(c, FALSE) /\ UNCHANGED <<server, srvLock>>
          \/ \E g \in Servers :
               /\ server[g] = "none" /\ \A h \in 1..(g - 1) : server[h] # "none"
               /\ server' = [server EXCEPT ![g] = "starting"]
               /\ srvLock' = c
               /\ Goes(c, [call[c] EXCEPT !.pc = "boot"])
               /\ UNCHANGED joinLock
  /\ UNCHANGED <<Globals, bg>>

\* Server.Ready: the globals are published and the bootstrap starts, if the
\* configuration names a bootstrap node.
StartPublish(c) ==
  \E g \in Servers :
    /\ call[c].pc = "boot" /\ server[g] = "starting"
    /\ server' = [server EXCEPT ![g] = "serving"]
    /\ srv' = g /\ stopping' = FALSE /\ UNCHANGED finalizer
    /\ bg' \in {bg, bg \cup {g}}
    /\ srvLock' = NoCaller
    /\ AfterStart(c, TRUE) \/ AfterStart(c, FALSE)

\* The listeners fail first: the server is shut down before the lock is given up.
StartFails(c) ==
  \E g \in Servers :
    /\ call[c].pc = "boot" /\ server[g] = "starting"
    /\ server' = [server EXCEPT ![g] = "closed"]
    /\ srvLock' = NoCaller
    /\ AfterStart(c, FALSE)
    /\ UNCHANGED <<Globals, bg>>

(* ---------------------------- finalizer and stop ------------------------- *)

\* ensureNodeFinalizer, under srvMutex: one finalizer per server.
EnsureNodeFinalizer(g) ==
  IF srv = g /\ finalizer[g] = "none"
  THEN /\ stopping' = TRUE
       /\ finalizer' = [finalizer EXCEPT ![g] = "run"]
  ELSE UNCHANGED <<stopping, finalizer>>

\* The listeners of a published server fail; its monitor sees that, or that a
\* shutdown ended them.
ServeEnds(g) ==
  /\ server[g] = "serving"
  /\ server' = [server EXCEPT ![g] = "ended"]
  /\ UNCHANGED <<Globals, bg, call, joinLock, srvLock>>

MonitorStartedServer(g) ==
  /\ server[g] \in {"ended", "closed"} /\ Unlocked
  /\ srv = g /\ finalizer[g] = "none"
  /\ EnsureNodeFinalizer(g)
  /\ UNCHANGED <<srv, server, bg, call, joinLock, srvLock>>

\* Mutant of FinalizerShutdown: the finalizer waits for the work, which ends with the shutdown, first.
FinalizerShutdownLast(g) ==
  /\ finalizer[g] = "run" /\ g \notin bg
  /\ server' = [server EXCEPT ![g] = "closed"]
  /\ finalizer' = [finalizer EXCEPT ![g] = "wait"]
  /\ UNCHANGED <<srv, stopping, bg, call, joinLock, srvLock>>

\* The finalizer: Shutdown returns when the server is closed; then the
\* background work is waited for; then the globals are cleared.
FinalizerShutdown(g) ==
  /\ finalizer[g] = "run"
  /\ server' = [server EXCEPT ![g] = "closed"]
  /\ finalizer' = [finalizer EXCEPT ![g] = "wait"]
  /\ UNCHANGED <<srv, stopping, bg, call, joinLock, srvLock>>

\* Mutant of FinalizerClears: the background work is not waited for.
FinalizerClearsEarly(g) ==
  /\ finalizer[g] = "wait" /\ Unlocked
  /\ finalizer' = [finalizer EXCEPT ![g] = "done"]
  /\ srv' = IF srv = g THEN 0 ELSE srv
  /\ stopping' = IF srv = g THEN FALSE ELSE stopping
  /\ UNCHANGED <<server, bg, call, joinLock, srvLock>>

FinalizerClears(g) ==
  /\ finalizer[g] = "wait" /\ g \notin bg /\ Unlocked
  /\ finalizer' = [finalizer EXCEPT ![g] = "done"]
  /\ srv' = IF srv = g THEN 0 ELSE srv
  /\ stopping' = IF srv = g THEN FALSE ELSE stopping
  /\ UNCHANGED <<server, bg, call, joinLock, srvLock>>

\* startNodeBackgroundWork: refused once the node is stopping.
StartBackgroundWork(g) ==
  /\ Unlocked /\ srv = g /\ ~ stopping /\ g \notin bg
  /\ bg' = bg \cup {g}
  /\ UNCHANGED <<Globals, server, call, joinLock, srvLock>>

\* The work ends; at the latest when the server's lifetime is over, since a
\* lease on a closed server is cancelled or refused.
BackgroundWorkEnds(g) ==
  /\ g \in bg
  /\ bg' = bg \ {g}
  /\ UNCHANGED <<Globals, server, call, joinLock, srvLock>>

\* StopNodeWithError: the global server is read; without one it returns.
StopNode(c) ==
  /\ call[c] = Returned
  /\ Goes(c, [pc |-> "stop", op |-> "stop", retry |-> FALSE])
  /\ UNCHANGED <<Globals, server, bg, joinLock, srvLock>>

\* What follows a stop that ended well, or not: StopNode returns; JoinCluster
\* installs and starts the joined node, rolls back when it cannot install, or
\* gives up; after a rollback the node that ran before is started again.
AfterStop(c, ok) ==
  \/ /\ call[c].op = "stop"
     /\ Goes(c, Returned) /\ UNCHANGED joinLock
  \/ /\ call[c].op = "join" /\ ~ ok
     /\ Goes(c, Returned) /\ joinLock' = NoCaller
  \/ /\ call[c].op = "join" /\ ok
     /\ \/ Goes(c, [pc |-> "enter", op |-> "join", retry |-> call[c].retry])
        \/ Goes(c, [pc |-> "stop", op |-> "restore", retry |-> call[c].retry])
     /\ UNCHANGED joinLock
  \/ /\ call[c].op = "restore" /\ call[c].retry
     /\ Goes(c, [pc |-> "enter", op |-> "start", retry |-> FALSE])
     /\ UNCHANGED joinLock
  \/ /\ call[c].op = "restore" /\ ~ call[c].retry
     /\ Goes(c, Returned) /\ joinLock' = NoCaller

StopFind(c) ==
  /\ call[c].pc = "stop" /\ Unlocked
  /\ IF srv = 0
     THEN AfterStop(c, TRUE) /\ UNCHANGED <<stopping, finalizer>>
     ELSE /\ Goes(c, [pc |-> "await", op |-> call[c].op, g |-> srv,
                      retry |-> call[c].retry])
          /\ EnsureNodeFinalizer(srv) /\ UNCHANGED joinLock
  /\ UNCHANGED <<srv, server, bg, srvLock>>

StopAwait(c) ==
  /\ call[c].pc = "await"
  /\ \/ finalizer[call[c].g] = "done" /\ AfterStop(c, TRUE)
     \/ finalizer[call[c].g] = "done" /\ AfterStop(c, FALSE)
     \/ finalizer[call[c].g] # "done" /\ AfterStop(c, FALSE)
  /\ UNCHANGED <<Globals, server, bg, srvLock>>

\* JoinCluster under joinMutex: the node is stopped, the joined one started; when
\* that fails and a node was running before, the previous node is started again.
JoinCluster(c) ==
  /\ call[c] = Returned /\ joinLock = NoCaller /\ Unlocked
  /\ joinLock' = c
  /\ Goes(c, [pc |-> "stop", op |-> "join", retry |-> srv # 0 /\ ~ stopping])
  /\ UNCHANGED <<Globals, server, bg, srvLock>>

BRNext ==
  \/ \E c \in Callers :
       \/ StartNode(c) \/ StartEnter(c) \/ StartPublish(c) \/ StartFails(c)
       \/ StopNode(c) \/ StopFind(c) \/ StopAwait(c) \/ JoinCluster(c)
  \/ \E g \in Servers :
       \/ ServeEnds(g) \/ MonitorStartedServer(g) \/ FinalizerShutdown(g)
       \/ FinalizerClears(g) \/ StartBackgroundWork(g) \/ BackgroundWorkEnds(g)

BRSpec == BRInit /\ [][BRNext]_brVars

\* Goroutines run on: starts, monitors, finalizers and calls under way go on;
\* background work ends once its server is closed.
BRFairness ==
  /\ \A c \in Callers : /\ WF_brVars(StartPublish(c) \/ StartFails(c))
                        /\ SF_brVars(StartEnter(c))
                        /\ SF_brVars(StopFind(c))
                        /\ WF_brVars(StopAwait(c))
  /\ \A g \in Servers :
       /\ SF_brVars(MonitorStartedServer(g))
       /\ WF_brVars(FinalizerShutdown(g))
       /\ SF_brVars(FinalizerClears(g))
       /\ WF_brVars(server[g] = "closed" /\ BackgroundWorkEnds(g))

(* ------------------------------- properties ------------------------------ *)

\* At most one server exists, and it is the published one unless a start that
\* holds the lock is bringing it up: a node that is gone from the globals is
\* closed and has no work left, so that the next start, and a stop or a join
\* that returns, meet no remains of it, on disk or on its ports.
RuntimeExclusive ==
  \A g \in Servers :
    (server[g] \in {"serving", "ended"} \/ g \in bg => srv = g)
    /\ (server[g] = "starting" => srv = 0 /\ ~ Unlocked)

\* A node that began to stop is finalized, so that it can be started again, even
\* when the stop had timed out.
StopCompletes == \A g \in Servers : srv = g /\ stopping ~> srv # g
===============================================================================
