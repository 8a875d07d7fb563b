------------------------------ MODULE Transport ------------------------------
(***************************************************************************)
(* How a node reaches one peer over QUIC: the routing table and prewarms   *)
(* of P2PRoundTripper (internal/p2p/router.go) over the sessions, dial     *)
(* coalescing and TLS generations of QUICManager (internal/p2p/            *)
(* holepunch.go), with requests, hole-punch responses and inbound          *)
(* handshakes running concurrently.                                        *)
(*                                                                         *)
(* A connection is [st, gen]: gen is the TLS generation its handshake      *)
(* used.  A thread is a prewarm, a request or a response to a hole punch.  *)
(***************************************************************************)
EXTENDS Naturals, FiniteSets

CONSTANTS
  Prewarms,  \* goroutines of prewarmConnection
  Caller,    \* runs a RoundTrip or a RespondToHolePunch
  Conns,     \* connections that may exist at once
  NoConn, NoThread,
  MaxGen,    \* bound on the route generation
  MaxTLS     \* bound on the TLS generation

TransportAssumption ==
  /\ Caller \notin Prewarms /\ NoThread \notin Prewarms \cup {Caller} /\ NoConn \notin Conns
ASSUME TransportAssumption

VARIABLES
  route,    \* a route to the peer exists
  gen,      \* routeGeneration
  router,   \* open, closing (Close waits for prewarms) or closed
  cur,      \* prewarms[peerID]
  th,       \* the threads
  qm,       \* the QUIC manager: none, up or closed
  tls,      \* tlsGeneration
  blocked,  \* blockedPeers holds the peer
  session,  \* Sessions[peerID]
  conn,     \* the connections
  dial,     \* the thread that owns dials[peerID]
  lower,    \* LocalID < peerID: this node dials
  removed   \* history: the route was removed while the manager was up

trVars == <<route, gen, router, cur, th, qm, tls, blocked, session, conn, dial, lower, removed>>

Threads == Prewarms \cup {Caller}
Closed == [st |-> "closed", gen |-> 0]
IdleThread == [pc |-> "idle", gen |-> 0, dead |-> FALSE, conn |-> NoConn, ph |-> "punch"]

TRTypeOK ==
  /\ {route, blocked, lower, removed} \subseteq BOOLEAN
  /\ gen \in 0..MaxGen /\ tls \in 1..MaxTLS
  /\ router \in {"open", "closing", "closed"} /\ qm \in {"none", "up", "closed"}
  /\ cur \in Prewarms \cup {NoThread} /\ dial \in Threads \cup {NoThread}
  /\ session \in Conns \cup {NoConn}
  /\ th \in [Threads -> [pc : {"idle", "start", "punch", "inbound", "dial", "publish", "return",
                               "wait", "finish", "send"},
                         gen : 0..MaxGen, dead : BOOLEAN, conn : Conns \cup {NoConn},
                         ph : {"session", "punch", "turn", "respond"}]]
  /\ conn \in [Conns -> [st : {"closed", "hello", "checked", "recorded", "dialed", "open"},
                         gen : 0..MaxTLS]]

TRInit ==
  /\ route = FALSE /\ gen = 0 /\ router = "open" /\ cur = NoThread
  /\ th = [t \in Threads |-> IdleThread]
  /\ qm = "none" /\ tls = 1 /\ blocked = FALSE /\ session = NoConn
  /\ conn = [c \in Conns |-> Closed]
  /\ dial = NoThread /\ lower \in BOOLEAN /\ removed = FALSE

rest == <<route, gen, router, cur, qm, tls, blocked, lower, removed>>

-----------------------------------------------------------------------------
(* Sessions.                                                               *)

Shut(cs, S) == [c \in Conns |-> IF c \in S THEN Closed ELSE cs[c]]

\* Connections nobody refers to any more.
Unused == {c \in Conns : conn[c].st = "closed" /\ c # session /\ \A t \in Threads : th[t].conn # c}

\* Mutant of Publishable: the TLS generation is not compared.
PublishableAnyGen(c) == qm = "up" /\ ~blocked

\* Mutant of Publishable: a removed peer is not refused.
PublishableBlocked(c) == conn[c].gen = tls /\ qm = "up"

\* setSession accepts: the generation of the handshake is current, the manager
\* is open and the peer is not blocked.
Publishable(c) == conn[c].gen = tls /\ qm = "up" /\ ~blocked

\* setSession, and its callers that close a refused connection.
SetSession(c) ==
  IF Publishable(c)
  THEN /\ session' = c
       /\ conn' = [Shut(conn, {session} \ {c, NoConn}) EXCEPT ![c].st = "open"]
  ELSE conn' = Shut(conn, {c}) /\ UNCHANGED session

\* detachSessions and CloseAndRemoveSession
DropSession == session' = NoConn /\ conn' = Shut(conn, {session} \ {NoConn})

\* CloseSessionIf
CloseSessionIf(c) ==
  /\ session' = IF session = c THEN NoConn ELSE session
  /\ conn' = Shut(conn, {c})

\* BlockPeerSessions
BlockPeerSessions == blocked' = TRUE /\ DropSession

-----------------------------------------------------------------------------
(* The router.                                                             *)

Cancelled(S) == [t \in Threads |-> IF t \in S THEN [th[t] EXCEPT !.dead = TRUE] ELSE th[t]]

\* Mutant of Superseded: the running prewarm is replaced, not cancelled.
SupersededOnly == th

\* The prewarm in progress is cancelled.
Superseded == Cancelled({cur} \ {NoThread})

\* UpdatePeerRoute; a prewarm starts if the node has a sponsor and a public
\* address and the peer announces a QUIC address.
UpdatePeerRoute ==
  /\ router = "open" /\ gen < MaxGen
  /\ gen' = gen + 1 /\ route' = TRUE
  /\ IF qm = "up" THEN blocked' = FALSE /\ removed' = FALSE ELSE UNCHANGED <<blocked, removed>>
  /\ \/ /\ qm = "up" /\ session = NoConn
        /\ \E t \in Prewarms :
             /\ th[t].pc = "idle" /\ cur' = t
             /\ th' = [Superseded EXCEPT ![t] = [IdleThread EXCEPT !.pc = "start", !.gen = gen + 1]]
     \/ cur' = NoThread /\ th' = Superseded
  /\ UNCHANGED <<router, qm, tls, session, conn, dial, lower>>

\* RemovePeerRoute; a prewarm always belongs to the manager of the router.
RemovePeerRoute ==
  /\ gen < MaxGen
  /\ gen' = gen + 1 /\ route' = FALSE /\ cur' = NoThread
  /\ th' = Superseded
  /\ IF qm = "none" THEN UNCHANGED <<blocked, session, conn, removed>>
     ELSE BlockPeerSessions /\ removed' = TRUE
  /\ UNCHANGED <<router, qm, tls, dial, lower>>

\* SetQUICManager, called once by startQUIC: no prewarm exists without a manager.
SetQUICManager ==
  /\ qm = "none"
  /\ qm' = "up"
  /\ UNCHANGED <<route, gen, router, cur, th, tls, blocked, session, conn, dial, lower, removed>>

\* Close cancels the prewarms and waits for them.
CloseBegin ==
  /\ router = "open" /\ router' = "closing"
  /\ cur' = NoThread /\ th' = Superseded
  /\ UNCHANGED <<route, gen, qm, tls, blocked, session, conn, dial, lower, removed>>

CloseEnd ==
  /\ router = "closing" /\ \A t \in Prewarms : th[t].pc = "idle"
  /\ router' = "closed"
  /\ UNCHANGED <<route, gen, cur, th, qm, tls, blocked, session, conn, dial, lower, removed>>

\* QUICManager.Close, which the server calls after the router is closed.
CloseManager ==
  /\ qm = "up" /\ router = "closed" /\ tls < MaxTLS
  /\ qm' = "closed" /\ tls' = tls + 1
  /\ DropSession
  /\ UNCHANGED <<route, gen, router, cur, th, blocked, dial, lower, removed>>

\* ReloadTLS: new generation, recorded handshakes forgotten, sessions dropped.
ReloadTLS ==
  /\ qm = "up" /\ tls < MaxTLS
  /\ tls' = tls + 1 /\ session' = NoConn
  /\ conn' = [c \in Conns |->
                IF c = session \/ conn[c].st = "recorded" THEN Closed ELSE conn[c]]
  /\ UNCHANGED <<route, gen, router, cur, th, qm, blocked, dial, lower, removed>>

-----------------------------------------------------------------------------
(* InitiateHolePunch and RespondToHolePunch.                               *)

ThreadAt(t, p, c) == IF p = "idle" THEN IdleThread ELSE [th[t] EXCEPT !.pc = p, !.conn = c]
Goto(t, p) == th' = [th EXCEPT ![t] = ThreadAt(t, p, @.conn)]

\* After the punch: prewarms and requests use the result, a response is over.
After(t) == CASE t \in Prewarms -> "finish" [] th[t].ph = "respond" -> "idle" [] OTHER -> "send"

\* A session is there, the thread owns the dial, or it waits for the owner.
PunchBegin(t) ==
  /\ th[t].pc = "start"
  /\ \/ /\ session # NoConn /\ UNCHANGED dial
        /\ th' = [th EXCEPT ![t] = ThreadAt(t, After(t), session)]
     \/ session = NoConn /\ dial = NoThread /\ dial' = t /\ Goto(t, "punch")
     \/ session = NoConn /\ dial # NoThread /\ UNCHANGED dial /\ Goto(t, "wait")
  /\ UNCHANGED <<rest, session, conn>>

\* The offer over the relay and the exchange of pings.
Punch(t) ==
  /\ th[t].pc = "punch"
  /\ \/ Goto(t, "return") \* refused, timed out or cancelled
     \/ lower /\ Goto(t, "dial")
     \/ ~lower /\ Goto(t, IF th[t].ph = "respond" THEN "return" ELSE "inbound")
  /\ UNCHANGED <<rest, session, conn, dial>>

\* establishSessionAfterPunch on the higher side polls for an inbound session.
AwaitInbound(t) ==
  /\ th[t].pc = "inbound"
  /\ \/ session # NoConn /\ th' = [th EXCEPT ![t].pc = "return", ![t].conn = session]
     \/ Goto(t, "return")
  /\ UNCHANGED <<rest, session, conn, dial>>

\* dialSessionWithTransport takes the TLS configuration and its generation.
Dial(t) ==
  /\ th[t].pc = "dial"
  /\ \/ \E c \in Unused :
          /\ conn' = [conn EXCEPT ![c] = [st |-> "dialed", gen |-> tls]]
          /\ th' = [th EXCEPT ![t].pc = "publish", ![t].conn = c]
     \/ Goto(t, IF th[t].ph = "turn" THEN "idle" ELSE "return") /\ UNCHANGED conn
  /\ UNCHANGED <<rest, session, dial>>

DialPublish(t) ==
  /\ th[t].pc = "publish"
  /\ SetSession(th[t].conn)
  /\ LET c == IF Publishable(th[t].conn) THEN th[t].conn ELSE NoConn
     IN th' = [th EXCEPT ![t] = ThreadAt(t, IF th[t].ph # "turn" THEN "return"
                                       ELSE IF c = NoConn THEN "idle" ELSE "send", c)]
  /\ UNCHANGED <<rest, dial>>

\* A waiter whose own context lives tries again after the owner was cancelled
\* or timed out; otherwise it takes the owner's result.
Woken(w, c) ==
  IF c = NoConn /\ ~th[w].dead /\ th[w].ph # "respond" THEN {"start", After(w)} ELSE {After(w)}

\* Mutant of DialReturn: the entry in dials is left behind.
DialReturnKept(t) ==
  /\ th[t].pc = "return"
  /\ Goto(t, After(t))
  /\ UNCHANGED <<rest, session, conn, dial>>

\* The owner publishes its result, removes the entry and wakes the waiters.
DialReturn(t) ==
  /\ th[t].pc = "return"
  /\ dial' = NoThread
  /\ \E next \in [Threads -> {"idle", "start", "finish", "send"}] :
       /\ \A w \in Threads : next[w] \in Woken(w, th[t].conn)
       /\ th' = [w \in Threads |->
            CASE w = t -> ThreadAt(t, After(t), th[t].conn)
              [] th[w].pc = "wait" -> ThreadAt(w, next[w], IF next[w] = "start" THEN NoConn ELSE th[t].conn)
              [] OTHER -> th[w]]
  /\ UNCHANGED <<rest, session, conn>>

\* A waiter gives up when its own context ends.
WaitEnds(t) ==
  /\ th[t].pc = "wait"
  /\ Goto(t, After(t))
  /\ UNCHANGED <<rest, session, conn, dial>>

\* prewarmConnection looks at the route again under the router's lock.
PrewarmFinish(t) ==
  /\ th[t].pc = "finish"
  /\ cur' = IF cur = t THEN NoThread ELSE cur
  /\ th' = [th EXCEPT ![t] = IdleThread]
  /\ CASE ~route -> BlockPeerSessions
       [] route /\ gen # th[t].gen /\ th[t].conn # NoConn -> CloseSessionIf(th[t].conn) /\ UNCHANGED blocked
       [] OTHER -> UNCHANGED <<session, conn, blocked>>
  /\ UNCHANGED <<route, gen, router, qm, tls, dial, lower, removed>>

-----------------------------------------------------------------------------
(* Requests and responses.                                                 *)

\* RoundTrip with the existing session, or by a hole punch.
RequestBegin ==
  /\ th[Caller].pc = "idle" /\ route /\ qm = "up"
  /\ th' = [th EXCEPT ![Caller] =
        IF session = NoConn THEN [IdleThread EXCEPT !.pc = "start"]
        ELSE [IdleThread EXCEPT !.pc = "send", !.conn = session, !.ph = "session"]]
  /\ UNCHANGED <<rest, session, conn, dial>>

\* Where a request goes on after the phase it is in failed; other phases (a host
\* name, the relay, an IP literal) use no session and may end it.
NextPhase ==
  {IdleThread} \cup CASE th[Caller].ph = "session" -> {[IdleThread EXCEPT !.pc = "start"]}
              [] th[Caller].ph = "punch" -> {[IdleThread EXCEPT !.pc = "dial", !.ph = "turn"]}
              [] OTHER -> {}

\* routeOverQUICSession: after an error the peer's session is removed, whichever
\* it is by now.
RequestSend ==
  /\ th[Caller].pc = "send"
  /\ LET c == th[Caller].conn
     IN \/ /\ c # NoConn /\ conn[c].st = "open"
           /\ th' = [th EXCEPT ![Caller] = IdleThread]
           /\ \/ UNCHANGED <<session, conn>>
              \/ DropSession \* the peer answers "forbidden" or "unauthorized"
        \/ /\ IF c = NoConn THEN UNCHANGED <<session, conn>> ELSE DropSession
           /\ \E n \in NextPhase : th' = [th EXCEPT ![Caller] = n]
  /\ UNCHANGED <<rest, dial>>

\* The peer asks for a hole punch over the relay (HandleHolePunchInit).
RespondBegin ==
  /\ th[Caller].pc = "idle" /\ qm = "up"
  /\ th' = [th EXCEPT ![Caller] = [IdleThread EXCEPT !.pc = "start", !.ph = "respond"]]
  /\ UNCHANGED <<rest, session, conn, dial>>

-----------------------------------------------------------------------------
(* Inbound handshakes; the peer, or the network, may also end a session.   *)

Hello ==
  /\ qm = "up"
  /\ \E c \in Unused : conn' = [conn EXCEPT ![c] = [st |-> "hello", gen |-> tls]]
  /\ UNCHANGED <<rest, th, session, dial>>

\* VerifyConnection compares the generation, then records it.
Verify(c) ==
  /\ conn[c].st = "hello"
  /\ conn' = [conn EXCEPT ![c] = IF conn[c].gen = tls THEN [@ EXCEPT !.st = "checked"] ELSE Closed]
  /\ UNCHANGED <<rest, th, session, dial>>

Record(c) ==
  /\ conn[c].st = "checked"
  /\ conn' = [conn EXCEPT ![c].st = "recorded"]
  /\ UNCHANGED <<rest, th, session, dial>>

\* handleIncomingConnection
Accept(c) ==
  /\ conn[c].st = "recorded"
  /\ SetSession(c)
  /\ UNCHANGED <<rest, th, dial>>

ConnLost(c) ==
  /\ conn[c].st = "open"
  /\ conn' = [conn EXCEPT ![c] = Closed]
  /\ UNCHANGED <<rest, th, session, dial>>

-----------------------------------------------------------------------------
TRNext ==
  \/ UpdatePeerRoute \/ RemovePeerRoute \/ SetQUICManager \/ CloseBegin \/ CloseEnd
  \/ CloseManager \/ ReloadTLS
  \/ \E t \in Threads :
       \/ PunchBegin(t) \/ Punch(t) \/ AwaitInbound(t) \/ Dial(t) \/ DialPublish(t)
       \/ DialReturn(t) \/ WaitEnds(t) \/ PrewarmFinish(t)
  \/ RequestBegin \/ RequestSend \/ RespondBegin
  \/ Hello
  \/ \E c \in Conns : Verify(c) \/ Record(c) \/ Accept(c) \/ ConnLost(c)

TRSpec == TRInit /\ [][TRNext]_trVars

-----------------------------------------------------------------------------
\* A published session was authenticated with the current TLS material, however
\* a rotation falls between its handshake and its publication (setSession,
\* consumeHandshakeGeneration, ReloadTLS), and every other connection that was
\* ever published is closed.  Route removal blocks late sessions: whatever dial,
\* prewarm or handshake was under way, a removed peer has none until it is added
\* again (RemovePeerRoute, BlockPeerSessions, prewarmConnection).
SessionsCurrent ==
  /\ \A c \in Conns : conn[c].st = "open" => session = c /\ conn[c].gen = tls
  /\ session # NoConn => qm = "up" /\ ~removed

\* Prewarms are cancellation- and generation-bound: one that is not cancelled is
\* the attempt the router knows, for a route that exists with its generation,
\* and none outlives Close.  Nobody waits for a dial that nobody makes, and one
\* thread at a time punches (prewarmConnection, InitiateHolePunch,
\* RespondToHolePunch, removeDial).
WorkOwned ==
  /\ \A t \in Prewarms : th[t].pc # "idle" /\ ~th[t].dead => cur = t /\ route /\ gen = th[t].gen
  /\ router = "closed" => \A t \in Prewarms : th[t].pc = "idle"
  /\ dial # NoThread => th[dial].pc \in {"punch", "inbound", "dial", "publish", "return"}
  /\ \A t \in Threads : /\ th[t].pc = "wait" => dial # NoThread
                        /\ th[t].pc \in {"punch", "inbound", "return"} => dial = t
=============================================================================
