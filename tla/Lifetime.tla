------------------------------- MODULE Lifetime -------------------------------
(***************************************************************************)
(* The lifetime of a node: listeners, admission of work, network address   *)
(* setup and shutdown (internal/server/server.go, nat.go, turn.go; the     *)
(* port mapper of internal/p2p/nat_mapper.go and the allocation of         *)
(* internal/p2p/turn_client.go).                                           *)
(*                                                                         *)
(* The mapper talks to a gateway (external); a job stands for anything     *)
(* joined through goOwned, AcquireWorkLease, the HTTP handlers or a Unix   *)
(* connection.                                                             *)
(***************************************************************************)
EXTENDS Naturals, FiniteSets

CONSTANT Jobs \* pieces of owned work, running or not

VARIABLES
  requested, \* shutdownRequested
  admit,     \* acceptingWork; FALSE exactly when done is closed
  cancelled, \* lifetimeCtx is done
  bound,     \* listeners that are open
  ready,     \* the ready channel is closed
  job,       \* what each job does
  conns,     \* registered Unix connections that are open
  sd,        \* where finishShutdown is
  nat,       \* where determineSponsorAndNATStatus is
  port,      \* the public UDP port in hand: none, from STUN, or mapped
  pub,       \* publicUDPAddr, the address the node announces
  cb,        \* SetOnMapped was called
  sock,      \* the UDP socket opened for QUIC
  mapper,    \* the NAT mapper and its goroutine
  gateway,   \* port mapping held by the gateway
  mapped,    \* port mapping the mapper remembers
  quic,      \* the QUIC manager
  turnSrv,   \* the embedded TURN server
  alloc,     \* the allocation of the TURN client
  offline,   \* announceOffline
  up         \* parts that are not yet closed

ltVars == <<requested, admit, cancelled, bound, ready, job, conns, sd, nat, port, pub, cb,
            sock, mapper, gateway, mapped, quic, turnSrv, alloc, offline, up>>
core == <<requested, admit, cancelled, bound, ready, sd, offline, up>>
net  == <<nat, port, pub, cb, sock, quic, turnSrv>>
gate == <<mapper, gateway, mapped>>

Parts == {"compute", "downloads", "router", "storage"}
SDSteps == {"none", "stop", "cancel", "unix", "http", "nat", "mapper", "joinmapper", "compute",
            "downloads", "listeners", "work", "router", "quic", "turn", "storage", "done"}

LTTypeOK ==
  /\ {requested, admit, cancelled, ready, cb, alloc} \subseteq BOOLEAN
  /\ {port, pub} \subseteq {"none", "stun", "map"}
  /\ offline \in {"none", "sending", "done"}
  /\ bound \subseteq {"unix", "tcp"}
  /\ job \in [Jobs -> {"idle", "running", "unix", "hungup", "allocating"}]
  /\ conns \subseteq Jobs
  /\ sd \in SDSteps
  /\ nat \in {"idle", "open", "upnp", "publish", "wait", "callback", "discard", "turn", "turnpub", "quic",
              "quicpub", "probe", "done"}
  /\ sock \in {"none", "open", "closed"}
  /\ mapper \in [pub : BOOLEAN, stop : BOOLEAN, run : {"none", "discover", "map", "idle", "off"}]
  /\ gateway \in {"none", "held", "lost"} /\ mapped \in BOOLEAN
  /\ quic \in {"none", "made", "published", "closed"}
  /\ turnSrv \in {"none", "made", "published", "closed"}
  /\ up \subseteq Parts

LTInit ==
  /\ requested = FALSE /\ admit = TRUE /\ cancelled = FALSE
  /\ bound = {} /\ ready = FALSE
  /\ job = [j \in Jobs |-> "idle"] /\ conns = {}
  /\ sd = "none"
  /\ nat = "idle" /\ port = "none" /\ pub = "none" /\ cb = FALSE /\ sock = "none"
  /\ mapper = [pub |-> FALSE, stop |-> FALSE, run |-> "none"]
  /\ gateway = "none" /\ mapped = FALSE
  /\ quic = "none" /\ turnSrv = "none" /\ alloc = FALSE /\ offline = "none"
  /\ up = Parts

-----------------------------------------------------------------------------
(* Listeners and work.                                                     *)

\* ListenAndServe runs under lifecycleMu: both listeners, or neither.
ListenAndServe ==
  /\ ~requested /\ admit /\ ~ready
  /\ \/ /\ bound' = {"unix", "tcp"} /\ ready' = TRUE
        /\ nat' = IF nat = "idle" THEN "open" ELSE nat \* scheduleNATCheck
     \/ UNCHANGED <<bound, ready, nat>> \* a listener failed and the other was closed
  /\ UNCHANGED <<requested, admit, cancelled, sd, offline, up, job, conns, port, pub, cb, sock,
                 quic, turnSrv, gate, alloc>>

IsReady == ready /\ ~requested

\* goOwned, AcquireWorkLease and trackHTTPHandler.
BeginOwnedWork(j) ==
  /\ job[j] = "idle" /\ admit
  /\ job' = [job EXCEPT ![j] = "running"]
  /\ UNCHANGED <<core, conns, net, gate, alloc>>

\* Mutant of BeginUnixWork: the connection is registered by its own goroutine.
BeginUnixWorkLate(j) ==
  /\ job[j] = "idle" /\ admit /\ "unix" \in bound
  /\ job' = [job EXCEPT ![j] = "unix"]
  /\ UNCHANGED <<core, conns, net, gate, alloc>>

\* serveUnixListener accepts and admits a connection, registered under workMu.
BeginUnixWork(j) ==
  /\ job[j] = "idle" /\ admit /\ "unix" \in bound
  /\ job' = [job EXCEPT ![j] = "unix"]
  /\ conns' = conns \cup {j}
  /\ UNCHANGED <<core, net, gate, alloc>>

\* finishOwnedWork.  A Unix handler may wait for its client as long as the
\* connection is open; other work sees the cancellation of lifetimeCtx.
FinishOwnedWork(j) ==
  /\ job[j] \in {"running", "unix", "hungup"}
  /\ job' = [job EXCEPT ![j] = "idle"]
  /\ conns' = conns \ {j}
  /\ UNCHANGED <<core, net, gate, alloc>>

\* maybeStartTURNCallee and DialPeer: EnsureAllocation under the manager's lock.
EnsureAllocation(j) ==
  /\ job[j] = "allocating"
  /\ job' = [job EXCEPT ![j] = "idle"]
  /\ \/ "router" \in up /\ alloc' = TRUE
     \/ UNCHANGED alloc
  /\ UNCHANGED <<core, conns, net, gate>>

-----------------------------------------------------------------------------
(* determineSponsorAndNATStatus.                                           *)

\* CheckNAT; checkNATOnce lets one caller run the check.
BeginNATWork ==
  /\ nat = "idle" /\ ~cancelled
  /\ nat' = "open"
  /\ UNCHANGED <<core, job, conns, port, pub, cb, sock, quic, turnSrv, gate, alloc>>

\* openUDPEndpoint: STUN twice, then a socket without a public address.
OpenUDPEndpoint ==
  /\ nat = "open"
  /\ \/ ~cancelled /\ sock' = "open" /\ nat' = "upnp" /\ port' \in {"none", "stun"}
     \/ nat' = "done" /\ UNCHANGED <<sock, port>>
  /\ UNCHANGED <<core, job, conns, pub, cb, quic, turnSrv, gate, alloc>>

\* mapPortsWithUPnP makes a mapper, unless mapping is disabled or skipped.
MakeMapper ==
  /\ nat = "upnp"
  /\ \/ ~cancelled /\ nat' = "publish"
     \/ nat' = "turn"
  /\ UNCHANGED <<core, job, conns, port, pub, cb, sock, quic, turnSrv, gate, alloc>>

\* The mapper is published under natMu and started, or stopped at once.
PublishMapper ==
  /\ nat = "publish"
  /\ IF cancelled THEN nat' = "turn" /\ UNCHANGED gate
     ELSE /\ nat' = "wait"
          /\ mapper' = [pub |-> TRUE, stop |-> FALSE, run |-> "discover"]
          /\ UNCHANGED <<gateway, mapped>>
  /\ UNCHANGED <<core, job, conns, port, pub, cb, sock, quic, turnSrv, alloc>>

\* WaitReady returns: first result, timeout or cancellation.
WaitReady ==
  /\ nat = "wait"
  /\ port' \in {port} \cup (IF mapped /\ ~cancelled THEN {"map"} ELSE {})
  /\ IF cancelled \/ port' = "none"
     THEN /\ nat' = "discard" /\ UNCHANGED cb
          /\ mapper' = [mapper EXCEPT !.pub = FALSE, !.stop = TRUE]
     ELSE nat' = "callback" /\ UNCHANGED <<cb, mapper>>
  /\ UNCHANGED <<core, job, conns, pub, sock, quic, turnSrv, gateway, mapped, alloc>>

SetOnMapped ==
  /\ nat = "callback"
  /\ nat' = "turn" /\ cb' = TRUE
  /\ UNCHANGED <<core, job, conns, port, pub, sock, quic, turnSrv, gate, alloc>>

\* removeMappings of Stop, once the goroutine of the mapper ended.
Unmapped == IF mapped THEN "none" ELSE gateway

DiscardMapper ==
  /\ nat = "discard" /\ mapper.run = "off"
  /\ nat' = "turn"
  /\ gateway' = Unmapped /\ mapped' = FALSE
  /\ UNCHANGED <<core, job, conns, port, pub, cb, sock, quic, turnSrv, mapper, alloc>>

\* maybeStartTURNServer: started, then published under natMu unless done is closed.
StartTURNServer ==
  /\ nat = "turn"
  /\ IF cancelled THEN nat' = "done" /\ sock' = "closed" /\ UNCHANGED turnSrv
     ELSE /\ UNCHANGED sock
          /\ \/ admit /\ turnSrv' = "made" /\ nat' = "turnpub"
             \/ nat' = "quic" /\ UNCHANGED turnSrv
  /\ UNCHANGED <<core, job, conns, port, pub, cb, quic, gate, alloc>>

PublishTURNServer ==
  /\ nat = "turnpub"
  /\ turnSrv' = IF admit THEN "published" ELSE "closed"
  /\ nat' = "quic"
  /\ UNCHANGED <<core, job, conns, port, pub, cb, sock, quic, gate, alloc>>

\* startQUIC: the manager owns the socket from here on.
StartQUIC ==
  /\ nat = "quic"
  /\ \/ /\ ~cancelled
        /\ quic' = "made" /\ nat' = "quicpub" /\ UNCHANGED sock
     \/ /\ sock' = "closed" /\ nat' = "probe" /\ UNCHANGED quic
  /\ UNCHANGED <<core, job, conns, port, pub, cb, turnSrv, gate, alloc>>

PublishQUIC ==
  /\ nat = "quicpub"
  /\ nat' = "probe"
  /\ IF cancelled THEN quic' = "closed" /\ sock' = "closed" /\ UNCHANGED pub
     ELSE quic' = "published" /\ pub' = port /\ UNCHANGED sock
  /\ UNCHANGED <<core, job, conns, port, cb, turnSrv, gate, alloc>>

\* detectPublicReachability; a node that is not reachable asks for an allocation.
ProbeDone ==
  /\ nat = "probe"
  /\ nat' = "done"
  /\ \/ /\ ~cancelled /\ admit
        /\ \E j \in Jobs : job[j] = "idle" /\ job' = [job EXCEPT ![j] = "allocating"]
     \/ UNCHANGED job
  /\ UNCHANGED <<core, conns, port, pub, cb, sock, quic, turnSrv, gate, alloc>>

-----------------------------------------------------------------------------
(* The goroutine of the NAT mapper.                                        *)

Discover ==
  /\ mapper.run = "discover"
  /\ \/ mapper.stop /\ mapper' = [mapper EXCEPT !.run = "off"]
     \/ ~mapper.stop /\ mapper' = [mapper EXCEPT !.run = "map"]
  /\ UNCHANGED <<core, job, conns, net, gateway, mapped, alloc>>

\* Mutant of MapPort: a mapping made after Stop is left to the gateway.
MapPortStopped ==
  /\ mapper.run = "map"
  /\ gateway' = "held" /\ mapped' = ~mapper.stop
  /\ mapper' = [mapper EXCEPT !.run = IF mapper.stop THEN "off" ELSE "idle"]
  /\ UNCHANGED <<core, job, conns, net, alloc>>

\* refreshPublicUDPFromMapping, as the callback of the mapper.
RefreshPublicUDP == pub' = IF cb /\ admit THEN "map" ELSE pub

\* Mutant of MapPort: the address is announced only when the port was not mapped.
MapPortOnce ==
  /\ mapper.run = "map"
  /\ mapper' = [mapper EXCEPT !.run = IF mapper.stop THEN "off" ELSE "idle"]
  /\ IF mapper.stop THEN gateway' = "none" /\ UNCHANGED <<mapped, pub>>
     ELSE gateway' = "held" /\ mapped' = TRUE /\ IF mapped THEN UNCHANGED pub ELSE RefreshPublicUDP
  /\ UNCHANGED <<core, job, conns, nat, port, cb, sock, quic, turnSrv, alloc>>

\* mapPort: AddPortMapping answers, and the lifetime is looked at again.  After
\* a failed refresh the gateway may keep the old lease, which is forgotten.
MapPort ==
  /\ mapper.run = "map"
  /\ mapper' = [mapper EXCEPT !.run = IF mapper.stop THEN "off" ELSE "idle"]
  /\ \/ IF mapper.stop THEN gateway' = "none" /\ UNCHANGED <<mapped, pub>>
        ELSE gateway' = "held" /\ mapped' = TRUE /\ RefreshPublicUDP
     \/ /\ UNCHANGED pub
        /\ IF mapper.stop THEN UNCHANGED <<gateway, mapped>>
           ELSE /\ mapped' = FALSE
                /\ gateway' \in {"none", IF gateway = "none" THEN "none" ELSE "lost"}
  /\ UNCHANGED <<core, job, conns, nat, port, cb, sock, quic, turnSrv, alloc>>

\* The ticker of runMapper, or the cancellation.
MapperTick ==
  /\ mapper.run = "idle"
  /\ mapper' = [mapper EXCEPT !.run = IF mapper.stop THEN "off" ELSE "map"]
  /\ UNCHANGED <<core, job, conns, net, gateway, mapped, alloc>>

-----------------------------------------------------------------------------
(* Shutdown and finishShutdown.                                            *)

Shutdown ==
  /\ ~requested
  /\ requested' = TRUE /\ sd' = "stop"
  /\ UNCHANGED <<admit, cancelled, bound, ready, offline, up, job, conns, net, gate, alloc>>

SD(from, to) == sd = from /\ sd' = to /\ UNCHANGED requested

StopAdmission ==
  /\ SD("stop", "cancel") /\ admit' = FALSE
  /\ UNCHANGED <<cancelled, bound, ready, offline, up, job, conns, net, gate, alloc>>

CancelLifetime ==
  /\ SD("cancel", "unix") /\ cancelled' = TRUE
  /\ UNCHANGED <<admit, bound, ready, offline, up, job, conns, net, gate, alloc>>

CloseUnix ==
  /\ SD("unix", "http") /\ bound' = bound \ {"unix"} /\ conns' = {}
  /\ job' = [j \in Jobs |-> IF j \in conns THEN "hungup" ELSE job[j]]
  /\ UNCHANGED <<admit, cancelled, ready, offline, up, net, gate, alloc>>

CloseHTTP ==
  /\ SD("http", "nat") /\ bound' = bound \ {"tcp"} /\ offline' = "sending"
  /\ UNCHANGED <<admit, cancelled, ready, up, job, conns, net, gate, alloc>>

\* announceOffline tells the peers; its calls share the context of Shutdown.
AnnounceOffline ==
  /\ offline = "sending" /\ offline' = "done"
  /\ UNCHANGED <<requested, admit, cancelled, bound, ready, sd, up, job, conns, net, gate, alloc>>

\* stopNATWork: natWG, then the mapper is taken under natMu and stopped.
StopNATWork ==
  /\ SD("nat", "mapper") /\ nat \in {"idle", "done"}
  /\ UNCHANGED <<admit, cancelled, bound, ready, offline, up, job, conns, net, gate, alloc>>

StopMapper ==
  /\ sd = "mapper" /\ UNCHANGED requested
  /\ IF mapper.pub THEN sd' = "joinmapper" /\ mapper' = [mapper EXCEPT !.pub = FALSE, !.stop = TRUE]
     ELSE sd' = "compute" /\ UNCHANGED mapper
  /\ UNCHANGED <<admit, cancelled, bound, ready, offline, up, job, conns, net, gateway, mapped, alloc>>

JoinMapper ==
  /\ SD("joinmapper", "compute") /\ mapper.run = "off"
  /\ gateway' = Unmapped /\ mapped' = FALSE
  /\ UNCHANGED <<admit, cancelled, bound, ready, offline, up, job, conns, net, mapper, alloc>>

ClosePart(from, to, p) ==
  /\ SD(from, to) /\ up' = up \ {p}
  /\ UNCHANGED <<admit, cancelled, bound, ready, offline, job, conns, net, gate>>

CloseCompute   == ClosePart("compute", "downloads", "compute") /\ UNCHANGED alloc
JoinDownloads  == ClosePart("downloads", "listeners", "downloads") /\ UNCHANGED alloc

JoinListeners ==
  /\ SD("listeners", "work") /\ "unix" \notin bound
  /\ UNCHANGED <<admit, cancelled, bound, ready, offline, up, job, conns, net, gate, alloc>>

\* Mutant of JoinWork: shutdown does not wait for owned work.
JoinWorkNot ==
  /\ SD("work", "router")
  /\ UNCHANGED <<admit, cancelled, bound, ready, offline, up, job, conns, net, gate, alloc>>

\* workWG.Wait and offlineDone
JoinWork ==
  /\ SD("work", "router") /\ offline = "done" /\ \A j \in Jobs : job[j] = "idle"
  /\ UNCHANGED <<admit, cancelled, bound, ready, offline, up, job, conns, net, gate, alloc>>

\* peerClient.Close closes the router and with it the TURN client.
CloseRouter == ClosePart("router", "quic", "router") /\ alloc' = FALSE

CloseQUIC ==
  /\ SD("quic", "turn")
  /\ IF quic = "published" THEN quic' = "closed" /\ sock' = "closed" ELSE UNCHANGED <<quic, sock>>
  /\ UNCHANGED <<admit, cancelled, bound, ready, offline, up, job, conns, nat, port, pub, cb, turnSrv, gate, alloc>>

CloseTURN ==
  /\ SD("turn", "storage")
  /\ turnSrv' = IF turnSrv = "published" THEN "closed" ELSE turnSrv
  /\ UNCHANGED <<admit, cancelled, bound, ready, offline, up, job, conns, nat, port, pub, cb, sock,
                 quic, gate, alloc>>

CloseStorage == ClosePart("storage", "done", "storage") /\ UNCHANGED alloc

-----------------------------------------------------------------------------
ShutdownStep ==
  \/ StopAdmission \/ AnnounceOffline \/ CancelLifetime \/ CloseUnix \/ CloseHTTP \/ StopNATWork \/ StopMapper
  \/ JoinMapper \/ CloseCompute \/ JoinDownloads \/ JoinListeners \/ JoinWork \/ CloseRouter
  \/ CloseQUIC \/ CloseTURN \/ CloseStorage

NATStep ==
  \/ OpenUDPEndpoint \/ MakeMapper \/ PublishMapper \/ WaitReady \/ SetOnMapped \/ DiscardMapper
  \/ StartTURNServer \/ PublishTURNServer \/ StartQUIC \/ PublishQUIC \/ ProbeDone

MapperStep == Discover \/ MapPort \/ MapperTick

\* Work that cannot be held up by a client: a job, or a closed connection.
JobEnds(j) == job[j] # "unix" /\ (FinishOwnedWork(j) \/ EnsureAllocation(j))

LTNext ==
  \/ ListenAndServe \/ BeginNATWork \/ NATStep \/ MapperStep
  \/ \E j \in Jobs :
       BeginOwnedWork(j) \/ BeginUnixWork(j) \/ FinishOwnedWork(j) \/ EnsureAllocation(j)
  \/ Shutdown \/ ShutdownStep

LTSpec == LTInit /\ [][LTNext]_ltVars

\* Goroutines go on, calls to the network time out, and work ends once
\* lifetimeCtx is done; a client may keep an open connection for ever.
LTFairness ==
  /\ WF_ltVars(ShutdownStep)
  /\ WF_ltVars(NATStep)
  /\ WF_ltVars(MapperStep)
  /\ \A j \in Jobs : WF_ltVars(cancelled /\ JobEnds(j))

-----------------------------------------------------------------------------
\* Shutdown releases in order.  Nobody touches a closed part: storage is closed
\* after every job, the NAT setup and the listeners have ended; and ShutdownDone
\* closes only after every resource is released: sockets, QUIC manager, TURN
\* server and allocation, the mapper and its mapping, although NAT setup, TURN
\* and jobs publish them concurrently (finishShutdown, workWG, natWG).  A lease
\* forgotten after a failed refresh is left to expire.
ShutdownClean ==
  /\ "storage" \notin up => /\ \A j \in Jobs : job[j] = "idle"
                            /\ nat \in {"idle", "done"} /\ bound = {}
  /\ "router" \notin up => offline = "done" /\ \A j \in Jobs : job[j] # "allocating"
  /\ sd = "done" => /\ sock # "open" /\ quic \in {"none", "closed"}
                    /\ turnSrv \in {"none", "closed"} /\ ~alloc
                    /\ mapper.run \in {"none", "off"} /\ gateway # "held"
                    /\ ~IsReady /\ bound = {}

\* Shutdown ends although clients may keep Unix connections open for ever: each
\* accepted one is closed by it, and no join waits for another
\* (beginUnixWork, closeUnixConnections, finishShutdown).
ShutdownEnds == requested ~> sd = "done"

\* The announced address follows the port mapping, although the mapping may
\* complete before the callback is set, or before startQUIC overwrites the
\* address with the one in hand (SetOnMapped, refreshPublicUDPFromMapping).
AddressFollowsMapping == []<>(pub = "map" \/ ~mapped \/ ~cb \/ ~admit)
=============================================================================
