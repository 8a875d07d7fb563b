---------------------------- MODULE TransportProofs ----------------------------
(***************************************************************************)
(* What the sessions, prewarms and dials of the transport and the relay    *)
(* queue guarantee, for any number of threads, connections, route and TLS  *)
(* generations, sponsors and forwarded requests.                           *)
(***************************************************************************)
EXTENDS Transport, Relay, FiniteSetTheorems, TLAPS

\* The time a leaf may take, by default.
USE ZenonT(3), SMTT(50)

(* ------------------------------ the transport ---------------------------- *)

Steps == {"idle", "start", "punch", "inbound", "dial", "publish", "return", "wait", "finish",
          "send"}
ThreadStates == [pc : Steps, gen : Nat, dead : BOOLEAN, conn : Conns \cup {NoConn},
                 ph : {"session", "punch", "turn", "respond"}]
ConnStates == [st : {"closed", "hello", "checked", "recorded", "dialed", "open"}, gen : Nat]

TRTyped ==
  /\ th \in [Threads -> ThreadStates]
  /\ conn \in [Conns -> ConnStates]
  /\ tls \in Nat /\ gen \in Nat
  /\ session \in Conns \cup {NoConn}
  /\ cur \in Prewarms \cup {NoThread} /\ dial \in Threads \cup {NoThread}

\* The session is the one open connection, of the current generation, and a peer
\* that was removed is blocked.
SessionInv ==
  /\ \A c \in Conns : conn[c].st = "open" => session = c /\ conn[c].gen = tls
  /\ session # NoConn => qm = "up" /\ ~ blocked
  /\ removed => blocked

\* The thread whose result the waiters will get; a dial over TURN is nobody's.
Dials(r) == \/ r.pc \in {"punch", "inbound", "return"}
            \/ r.pc \in {"dial", "publish"} /\ r.ph # "turn"

\* What a thread may be on its own.
ThreadOK(r) == /\ r.pc \in {"start", "punch", "inbound", "wait"} => r.ph # "turn"
               /\ r.pc = "publish" => r.conn \in Conns

WorkInv ==
  /\ \A t \in Prewarms : th[t].pc # "idle" /\ ~ th[t].dead => cur = t /\ route /\ gen = th[t].gen
  /\ router = "closed" => \A t \in Prewarms : th[t].pc = "idle"
  /\ \A t \in Threads : /\ Dials(th[t]) <=> dial = t
                        /\ th[t].pc = "wait" => dial # NoThread
                        /\ ThreadOK(th[t])

TRInv == TRTyped /\ SessionInv /\ WorkInv

\* Under the invariant the properties hold.
LEMMA TRInvImplies == TRInv => SessionsCurrent /\ WorkOwned
<1> SUFFICES ASSUME TRInv PROVE SessionsCurrent /\ WorkOwned
  OBVIOUS
<1>1. SessionsCurrent
  BY DEF TRInv, SessionInv, SessionsCurrent
<1>2. WorkOwned
  BY DEF TRInv, TRTyped, WorkInv, WorkOwned, Dials
<1> QED BY <1>1, <1>2

\* Where a thread goes, it is a thread, and the same attempt unless it is over.
LEMMA ThreadAtIs ==
  ASSUME th \in [Threads -> ThreadStates], NEW t \in Threads, NEW p \in Steps,
         NEW c \in Conns \cup {NoConn}
  PROVE  /\ ThreadAt(t, p, c) \in ThreadStates
         /\ ThreadAt(t, p, c).pc = p
         /\ p # "idle" => /\ ThreadAt(t, p, c).dead = th[t].dead
                          /\ ThreadAt(t, p, c).gen = th[t].gen
                          /\ ThreadAt(t, p, c).ph = th[t].ph
                          /\ ThreadAt(t, p, c).conn = c
<1>1. CASE p = "idle"
  BY <1>1 DEF ThreadAt, IdleThread, ThreadStates, Steps
<1>2. CASE p # "idle"
  BY <1>2 DEF ThreadAt, ThreadStates
<1> QED BY <1>1, <1>2

\* One thread moves on: it stays the attempt it was, and takes the dial if it is
\* free.
OneMoves(t, r) ==
  /\ th' = [th EXCEPT ![t] = r]
  /\ r \in ThreadStates /\ ThreadOK(r)
  /\ UNCHANGED <<route, gen, router>>
  /\ cur' = cur \/ (cur = t /\ cur' = NoThread /\ r.pc = "idle")
  /\ t \in Prewarms /\ r.pc # "idle" =>
       th[t].pc # "idle" /\ r.dead = th[t].dead /\ r.gen = th[t].gen
  /\ dial' = dial \/ (dial = NoThread /\ dial' = t)
  /\ Dials(r) <=> dial' = t
  /\ r.pc = "wait" => dial' # NoThread

\* Such a move keeps every prewarm and every dial with its owner.
LEMMA OneMovesInv ==
  ASSUME TRInv, NEW t \in Threads, NEW r, OneMoves(t, r)
  PROVE  WorkInv' /\ th' \in [Threads -> ThreadStates] /\ dial' \in Threads \cup {NoThread}
         /\ cur' \in Prewarms \cup {NoThread}
<1>1. th'[t] = r /\ \A u \in Threads : u # t => th'[u] = th[u]
  BY DEF TRInv, TRTyped, OneMoves
<1>2. \A u \in Threads : /\ Dials(th'[u]) <=> dial' = u
                         /\ th'[u].pc = "wait" => dial' # NoThread
                         /\ ThreadOK(th'[u])
  <2> SUFFICES ASSUME NEW u \in Threads
               PROVE  /\ Dials(th'[u]) <=> dial' = u
                      /\ th'[u].pc = "wait" => dial' # NoThread
                      /\ ThreadOK(th'[u])
    OBVIOUS
  <2>1. u # NoThread /\ t # NoThread
    BY TransportAssumption DEF TransportAssumption, Threads
  <2>2. CASE u = t
    BY <1>1, <2>2 DEF OneMoves
  <2>3. CASE u # t
    BY <1>1, <2>1, <2>3 DEF TRInv, WorkInv, OneMoves
  <2> QED BY <2>2, <2>3
<1>3. \A u \in Prewarms : th'[u].pc # "idle" /\ ~ th'[u].dead => cur' = u /\ route' /\ gen' = th'[u].gen
  BY <1>1 DEF TRInv, WorkInv, OneMoves, Threads
<1>4. router' = "closed" => \A u \in Prewarms : th'[u].pc = "idle"
  BY <1>1 DEF TRInv, WorkInv, OneMoves, Threads
<1>5. WorkInv'
  BY <1>2, <1>3, <1>4 DEF WorkInv, Dials, ThreadOK
<1> QED BY <1>5 DEF OneMoves, TRInv, TRTyped
\* Closing connections.
LEMMA ShutIs ==
  ASSUME conn \in [Conns -> ConnStates], NEW S
  PROVE  /\ Shut(conn, S) \in [Conns -> ConnStates]
         /\ \A c \in Conns : Shut(conn, S)[c] = IF c \in S THEN Closed ELSE conn[c]
  BY DEF Shut, Closed, ConnStates

ConnsKept == conn' \in [Conns -> ConnStates] /\ session' \in Conns \cup {NoConn}

\* setSession publishes a connection of the current generation and closes the
\* session it replaces, or closes the connection.
LEMMA SetSessionInv ==
  ASSUME TRInv, NEW c \in Conns, SetSession(c), UNCHANGED <<tls, qm, blocked, removed>>
  PROVE  SessionInv' /\ ConnsKept
<1>1. conn \in [Conns -> ConnStates] /\ session \in Conns \cup {NoConn}
  BY DEF TRInv, TRTyped
<1>2. CASE Publishable(c)
  <2> DEFINE cs == Shut(conn, {session} \ {c, NoConn})
  <2>1. session' = c /\ conn' = [cs EXCEPT ![c].st = "open"]
    BY <1>2 DEF SetSession
  <2>2. /\ cs \in [Conns -> ConnStates]
        /\ \A d \in Conns : cs[d] = IF d \in {session} \ {c, NoConn} THEN Closed ELSE conn[d]
    BY <1>1, ShutIs
  <2> HIDE DEF cs
  <2>3. conn' \in [Conns -> ConnStates]
    BY <2>1, <2>2 DEF ConnStates
  <2>4. conn'[c].gen = conn[c].gen
    BY <2>1, <2>2 DEF ConnStates
  <2>5. \A d \in Conns : d # c => conn'[d] = cs[d]
    BY <2>1, <2>2
  <2>6. \A d \in Conns : d # c => conn'[d].st # "open"
    BY <2>2, <2>5, TransportAssumption DEF Closed, TRInv, SessionInv, TransportAssumption
  <2> QED BY <1>2, <2>1, <2>3, <2>4, <2>6 DEF Publishable, SessionInv, ConnsKept, TRInv
<1>3. CASE ~ Publishable(c)
  <2>1. conn' = Shut(conn, {c}) /\ UNCHANGED session
    BY <1>3 DEF SetSession
  <2>2. /\ conn' \in [Conns -> ConnStates]
        /\ \A d \in Conns : conn'[d] = IF d \in {c} THEN Closed ELSE conn[d]
    BY <1>1, <2>1, ShutIs
  <2>3. Closed.st # "open"
    BY DEF Closed
  <2>4. \A d \in Conns : conn'[d].st = "open" => conn'[d] = conn[d]
    BY <2>2, <2>3
  <2>5. SessionInv'
    BY <2>1, <2>4 DEF SessionInv, TRInv
  <2> QED BY <1>1, <2>1, <2>2, <2>5 DEF ConnsKept
<1> QED BY <1>2, <1>3

\* Dropping the session leaves no open connection.
LEMMA DropSessionIs ==
  ASSUME TRInv, DropSession
  PROVE  session' = NoConn /\ ConnsKept /\ \A c \in Conns : conn'[c].st # "open"
<1>1. conn \in [Conns -> ConnStates] /\ session \in Conns \cup {NoConn}
  BY DEF TRInv, TRTyped
<1>2. conn' = Shut(conn, {session} \ {NoConn}) /\ session' = NoConn
  BY DEF DropSession
<1>3. /\ conn' \in [Conns -> ConnStates]
      /\ \A d \in Conns : conn'[d] = IF d \in {session} \ {NoConn} THEN Closed ELSE conn[d]
  BY <1>1, <1>2, ShutIs
<1>4. Closed.st # "open"
  BY DEF Closed
<1>5. ASSUME NEW c \in Conns PROVE conn'[c].st # "open"
  BY <1>3, <1>4, TransportAssumption DEF SessionInv, TRInv, TransportAssumption
<1> QED BY <1>2, <1>3, <1>5 DEF ConnsKept

\* A step that drops the session, whatever becomes of the generation.
LEMMA DropSessionInv ==
  ASSUME TRInv, DropSession, removed' => blocked'
  PROVE  SessionInv' /\ ConnsKept
  BY DropSessionIs DEF SessionInv

\* A step that leaves the sessions alone.
LEMMA SameSessions ==
  ASSUME TRInv, UNCHANGED <<session, conn, tls, qm, blocked, removed>>
  PROVE  SessionInv' /\ ConnsKept
  BY DEF TRInv, TRTyped, SessionInv, ConnsKept

\* A step of a connection that is neither open before nor after it, or is closed.
LEMMA OneConnInv ==
  ASSUME TRInv, UNCHANGED <<session, tls, qm, blocked, removed>>,
         NEW c \in Conns, NEW r \in ConnStates, conn' = [conn EXCEPT ![c] = r], r.st # "open"
  PROVE  SessionInv' /\ ConnsKept
<1>1. conn'[c] = r /\ \A d \in Conns : d # c => conn'[d] = conn[d]
  BY DEF TRInv, TRTyped
<1>2. conn' \in [Conns -> ConnStates]
  BY DEF TRInv, TRTyped
<1> QED BY <1>1, <1>2 DEF TRInv, TRTyped, SessionInv, ConnsKept

\* A move of one thread, with the sessions kept.
LEMMA OneMovesTRInv ==
  ASSUME TRInv, NEW t \in Threads, NEW r, OneMoves(t, r), SessionInv', ConnsKept, tls' \in Nat
  PROVE  TRInv'
<1>1. WorkInv' /\ th' \in [Threads -> ThreadStates] /\ dial' \in Threads \cup {NoThread}
      /\ cur' \in Prewarms \cup {NoThread}
  BY OneMovesInv
<1>2. gen' \in Nat
  BY DEF OneMoves, TRInv, TRTyped
<1> QED BY <1>1, <1>2 DEF TRInv, TRTyped, ConnsKept

\* Where a thread goes after the punch.
LEMMA AfterIs == \A t \in Threads : After(t) \in {"finish", "idle", "send"}
  BY DEF After

\* The idle thread.
LEMMA IdleIs == IdleThread \in ThreadStates /\ IdleThread.pc = "idle"
  BY DEF IdleThread, ThreadStates, Steps

\* A thread that goes on to p with connection c, the dial as it was.
LEMMA GoesInv ==
  ASSUME TRInv, NEW t \in Threads, NEW p \in Steps, NEW c \in Conns \cup {NoConn},
         th[t].pc # "idle",
         th' = [th EXCEPT ![t] = ThreadAt(t, p, c)], UNCHANGED <<rest, dial>>,
         SessionInv', ConnsKept,
         p = "publish" => c \in Conns,
         p \in {"start", "inbound", "punch", "wait"} => th[t].ph # "turn",
         p \in {"punch", "inbound", "return"} => dial = t,
         p \in {"dial", "publish"} => (dial = t <=> th[t].ph # "turn"),
         p \in {"idle", "start", "wait", "finish", "send"} => dial # t,
         p = "wait" => dial # NoThread
  PROVE  TRInv'
<1> DEFINE r == ThreadAt(t, p, c)
<1>1. /\ r \in ThreadStates /\ r.pc = p
      /\ p # "idle" => /\ r.dead = th[t].dead /\ r.gen = th[t].gen
                       /\ r.ph = th[t].ph /\ r.conn = c
  BY ThreadAtIs DEF TRInv, TRTyped
<1>2. th' = [th EXCEPT ![t] = r]
  OBVIOUS
<1> HIDE DEF r
<1>3. ThreadOK(r)
  BY <1>1 DEF ThreadOK
<1>4. Dials(r) <=> dial' = t
  BY <1>1 DEF Dials, Steps
<1>5. OneMoves(t, r)
  BY <1>1, <1>2, <1>3, <1>4 DEF OneMoves, rest
<1>6. tls' \in Nat
  BY DEF rest, TRInv, TRTyped
<1> QED BY <1>5, <1>6, OneMovesTRInv

\* Every action that moves one thread moves it as it should.
LEMMA ThreadStepInv ==
  ASSUME TRInv, NEW t \in Threads,
         \/ PunchBegin(t) \/ Punch(t) \/ AwaitInbound(t) \/ Dial(t) \/ DialPublish(t)
         \/ WaitEnds(t) \/ PrewarmFinish(t)
  PROVE  TRInv'
<1>0. /\ th[t] \in ThreadStates /\ session \in Conns \cup {NoConn}
      /\ th[t].conn \in Conns \cup {NoConn} /\ t # NoThread
  BY TransportAssumption DEF TRInv, TRTyped, ThreadStates, TransportAssumption, Threads
<1>1. Dials(th[t]) <=> dial = t
  BY DEF TRInv, WorkInv
<1>2. ThreadOK(th[t])
  BY DEF TRInv, WorkInv
<1>3. CASE PunchBegin(t)
  <2>1. UNCHANGED <<rest, session, conn>> /\ th[t].pc = "start"
    BY <1>3 DEF PunchBegin
  <2>2. SessionInv' /\ ConnsKept
    BY <2>1, SameSessions DEF rest
  <2>3. dial # t /\ th[t].ph # "turn"
    BY <1>1, <1>2, <2>1 DEF Dials, ThreadOK
  <2>4. CASE session # NoConn /\ UNCHANGED dial /\ th' = [th EXCEPT ![t] = ThreadAt(t, After(t), session)]
    <3>1. After(t) \in {"finish", "idle", "send"}
      BY AfterIs
    <3> QED BY <1>0, <2>1, <2>2, <2>3, <2>4, <3>1, GoesInv DEF Steps
  <2>5. CASE dial = NoThread /\ dial' = t /\ Goto(t, "punch")
    <3> DEFINE r == ThreadAt(t, "punch", th[t].conn)
    <3>1. th' = [th EXCEPT ![t] = r]
      BY <2>5 DEF Goto
    <3>2. /\ r \in ThreadStates /\ r.pc = "punch" /\ r.dead = th[t].dead /\ r.gen = th[t].gen
          /\ r.ph = th[t].ph
      BY <1>0, ThreadAtIs DEF TRInv, TRTyped, Steps
    <3> HIDE DEF r
    <3>3. OneMoves(t, r)
      BY <1>0, <2>1, <2>3, <2>5, <3>1, <3>2 DEF OneMoves, ThreadOK, Dials, rest
    <3> QED BY <2>1, <2>2, <3>3, OneMovesTRInv DEF rest, TRInv, TRTyped
  <2>6. CASE dial # NoThread /\ UNCHANGED dial /\ Goto(t, "wait")
    BY <1>0, <2>1, <2>2, <2>3, <2>6, GoesInv DEF Steps, Goto
  <2> QED BY <1>3, <2>4, <2>5, <2>6 DEF PunchBegin
<1>4. CASE Punch(t)
  <2>1. UNCHANGED <<rest, session, conn, dial>> /\ th[t].pc = "punch"
    BY <1>4 DEF Punch
  <2>2. SessionInv' /\ ConnsKept
    BY <2>1, SameSessions DEF rest
  <2>3. dial = t /\ th[t].ph # "turn"
    BY <1>1, <1>2, <2>1 DEF Dials, ThreadOK
  <2>4. PICK p \in {"return", "dial", "inbound"} : Goto(t, p)
    BY <1>4 DEF Punch
  <2> QED BY <1>0, <2>1, <2>2, <2>3, <2>4, GoesInv DEF Steps, Goto
<1>5. CASE AwaitInbound(t)
  <2>1. UNCHANGED <<rest, session, conn, dial>> /\ th[t].pc = "inbound"
    BY <1>5 DEF AwaitInbound
  <2>2. SessionInv' /\ ConnsKept
    BY <2>1, SameSessions DEF rest
  <2>3. dial = t
    BY <1>1, <2>1 DEF Dials
  <2>4. PICK c \in {session, th[t].conn} : th' = [th EXCEPT ![t] = ThreadAt(t, "return", c)]
    <3>0. ThreadAt(t, "return", session) = [th[t] EXCEPT !.pc = "return", !.conn = session]
      BY DEF ThreadAt
    <3>1. CASE th' = [th EXCEPT ![t].pc = "return", ![t].conn = session]
      BY <3>0, <3>1 DEF ThreadStates, TRInv, TRTyped
    <3> QED BY <1>5, <3>1 DEF AwaitInbound, Goto
  <2>5. c \in Conns \cup {NoConn}
    BY <1>0
  <2> QED BY <1>0, <2>1, <2>2, <2>3, <2>4, <2>5, GoesInv DEF Steps
<1>6. CASE Dial(t)
  <2>1. UNCHANGED <<rest, session, dial>> /\ th[t].pc = "dial"
    BY <1>6 DEF Dial
  <2>2. dial = t <=> th[t].ph # "turn"
    BY <1>1, <2>1 DEF Dials
  <2>3. ASSUME NEW c \in Unused, conn' = [conn EXCEPT ![c] = [st |-> "dialed", gen |-> tls]],
               th' = [th EXCEPT ![t].pc = "publish", ![t].conn = c]
        PROVE  TRInv'
    <3> DEFINE r == [st |-> "dialed", gen |-> tls]
    <3>1. c \in Conns /\ r \in ConnStates /\ r.st # "open"
      BY <2>3 DEF Unused, ConnStates, TRInv, TRTyped
    <3>2. conn' = [conn EXCEPT ![c] = r]
      BY <2>3
    <3> HIDE DEF r
    <3>3. SessionInv' /\ ConnsKept
      BY <2>1, <3>1, <3>2, OneConnInv DEF rest
    <3>4. th' = [th EXCEPT ![t] = ThreadAt(t, "publish", c)]
      <4>1. ThreadAt(t, "publish", c) = [th[t] EXCEPT !.pc = "publish", !.conn = c]
        BY DEF ThreadAt
      <4> QED BY <2>3, <4>1 DEF ThreadStates, TRInv, TRTyped
    <3> QED BY <1>0, <2>1, <2>2, <3>1, <3>3, <3>4, GoesInv DEF Steps
  <2>4. CASE Goto(t, IF th[t].ph = "turn" THEN "idle" ELSE "return") /\ UNCHANGED conn
    <3>1. SessionInv' /\ ConnsKept
      BY <2>1, <2>4, SameSessions DEF rest
    <3>2. PICK p \in {"idle", "return"} :
            /\ p = (IF th[t].ph = "turn" THEN "idle" ELSE "return")
            /\ th' = [th EXCEPT ![t] = ThreadAt(t, p, th[t].conn)]
      BY <2>4 DEF Goto
    <3>3. p = "idle" <=> dial # t
      BY <2>2, <3>2
    <3> QED BY <1>0, <2>1, <3>1, <3>2, <3>3, GoesInv DEF Steps
  <2> QED BY <1>6, <2>3, <2>4 DEF Dial
<1>7. CASE DialPublish(t)
  <2>1. UNCHANGED <<rest, dial>> /\ th[t].pc = "publish" /\ SetSession(th[t].conn)
    BY <1>7 DEF DialPublish
  <2>2. th[t].conn \in Conns
    BY <1>2, <2>1 DEF ThreadOK
  <2>3. SessionInv' /\ ConnsKept
    BY <2>1, <2>2, SetSessionInv DEF rest
  <2>4. dial = t <=> th[t].ph # "turn"
    BY <1>1, <2>1 DEF Dials
  <2>5. PICK c \in {th[t].conn, NoConn}, p \in {"return", "idle", "send"} :
          /\ p = "return" <=> th[t].ph # "turn"
          /\ th' = [th EXCEPT ![t] = ThreadAt(t, p, c)]
    <3> DEFINE c == IF Publishable(th[t].conn) THEN th[t].conn ELSE NoConn
               p == IF th[t].ph # "turn" THEN "return" ELSE IF c = NoConn THEN "idle" ELSE "send"
    <3>1. th' = [th EXCEPT ![t] = ThreadAt(t, p, c)]
      BY <1>7 DEF DialPublish
    <3>2. c \in {th[t].conn, NoConn}
      OBVIOUS
    <3>3. p \in {"return", "idle", "send"} /\ (p = "return" <=> th[t].ph # "turn")
      OBVIOUS
    <3> QED BY <3>1, <3>2, <3>3
  <2>6. c \in Conns \cup {NoConn}
    BY <2>2, <2>5
  <2> QED BY <1>0, <2>1, <2>3, <2>4, <2>5, <2>6, GoesInv DEF Steps
<1>8. CASE WaitEnds(t)
  <2>1. UNCHANGED <<rest, session, conn, dial>> /\ th[t].pc = "wait"
    BY <1>8 DEF WaitEnds
  <2>2. SessionInv' /\ ConnsKept
    BY <2>1, SameSessions DEF rest
  <2>3. dial # t
    BY <1>1, <2>1 DEF Dials
  <2>4. PICK p \in {"finish", "idle", "send"} : Goto(t, p)
    BY <1>8, AfterIs DEF WaitEnds
  <2> QED BY <1>0, <2>1, <2>2, <2>3, <2>4, GoesInv DEF Steps, Goto
<1>9. CASE PrewarmFinish(t)
  <2>1. /\ th[t].pc = "finish" /\ th' = [th EXCEPT ![t] = IdleThread]
        /\ cur' = IF cur = t THEN NoThread ELSE cur
        /\ UNCHANGED <<route, gen, router, qm, tls, dial, lower, removed>>
    BY <1>9 DEF PrewarmFinish
  <2>2. OneMoves(t, IdleThread)
    BY <1>1, <2>1, IdleIs DEF OneMoves, ThreadOK, Dials
  <2>3. SessionInv' /\ ConnsKept
    <3>1. CASE BlockPeerSessions
      BY <3>1, DropSessionInv DEF BlockPeerSessions
    <3>2. CASE UNCHANGED <<session, conn, blocked>>
      BY <2>1, <3>2, SameSessions
    <3>3. CASE CloseSessionIf(th[t].conn) /\ UNCHANGED blocked
      <4> DEFINE c == th[t].conn
      <4>1. conn' = Shut(conn, {c}) /\ session' = IF session = c THEN NoConn ELSE session
        BY <3>3 DEF CloseSessionIf
      <4>2. /\ conn' \in [Conns -> ConnStates]
            /\ \A d \in Conns : conn'[d] = IF d \in {c} THEN Closed ELSE conn[d]
        BY <4>1, ShutIs DEF TRInv, TRTyped
      <4>3. Closed.st # "open"
        BY DEF Closed
      <4>4. \A d \in Conns : conn'[d].st = "open" => conn'[d] = conn[d] /\ d # c
        BY <4>2, <4>3
      <4>5. SessionInv'
        BY <2>1, <3>3, <4>1, <4>4 DEF SessionInv, TRInv
      <4> QED BY <1>0, <4>1, <4>2, <4>5 DEF ConnsKept
    <3> QED BY <1>9, <3>1, <3>2, <3>3 DEF PrewarmFinish
  <2> QED BY <2>1, <2>2, <2>3, OneMovesTRInv DEF TRInv, TRTyped
<1> QED BY <1>3, <1>4, <1>5, <1>6, <1>7, <1>8, <1>9

\* The owner's return wakes every waiter and frees the dial.
LEMMA DialReturnInv ==
  ASSUME TRInv, NEW t \in Threads, DialReturn(t)
  PROVE  TRInv'
<1>1. PICK next \in [Threads -> {"idle", "start", "finish", "send"}] :
        th' = [w \in Threads |->
            CASE w = t -> ThreadAt(t, After(t), th[t].conn)
              [] th[w].pc = "wait" -> ThreadAt(w, next[w], IF next[w] = "start" THEN NoConn ELSE th[t].conn)
              [] OTHER -> th[w]]
  BY DEF DialReturn
<1>2. dial' = NoThread /\ UNCHANGED <<rest, session, conn>> /\ th[t].pc = "return"
  BY DEF DialReturn
<1>3. dial = t /\ th \in [Threads -> ThreadStates] /\ th[t].conn \in Conns \cup {NoConn}
  BY <1>2 DEF TRInv, TRTyped, WorkInv, Dials, ThreadStates
<1>4. ASSUME NEW w \in Threads
      PROVE  /\ th'[w] \in ThreadStates /\ ~ Dials(th'[w]) /\ th'[w].pc # "wait" /\ ThreadOK(th'[w])
             /\ th'[w].pc # "idle" =>
                  th[w].pc # "idle" /\ th'[w].dead = th[w].dead /\ th'[w].gen = th[w].gen
  <2>1. CASE w = t
    <3>1. th'[w] = ThreadAt(t, After(t), th[t].conn) /\ After(t) \in {"finish", "idle", "send"}
      BY <1>1, <1>2, <2>1, AfterIs
    <3>2. /\ th'[w] \in ThreadStates /\ th'[w].pc = After(t)
          /\ After(t) # "idle" => th'[w].dead = th[w].dead /\ th'[w].gen = th[w].gen
      BY <1>3, <2>1, <3>1, ThreadAtIs DEF Steps
    <3> QED BY <1>2, <2>1, <3>1, <3>2 DEF Dials, ThreadOK
  <2>2. CASE w # t /\ th[w].pc = "wait"
    <3> DEFINE c == IF next[w] = "start" THEN NoConn ELSE th[t].conn
    <3>1. th'[w] = ThreadAt(w, next[w], c)
      BY <1>1, <2>2
    <3>2. c \in Conns \cup {NoConn} /\ next[w] \in {"idle", "start", "finish", "send"}
      BY <1>1, <1>3
    <3> HIDE DEF c
    <3>3. /\ th'[w] \in ThreadStates /\ th'[w].pc = next[w]
          /\ next[w] # "idle" => th'[w].dead = th[w].dead /\ th'[w].gen = th[w].gen /\ th'[w].ph = th[w].ph
      BY <1>3, <3>1, <3>2, ThreadAtIs DEF Steps
    <3>4. th[w].ph # "turn"
      BY <2>2 DEF TRInv, WorkInv, ThreadOK
    <3> QED BY <2>2, <3>2, <3>3, <3>4 DEF Dials, ThreadOK
  <2>3. CASE w # t /\ th[w].pc # "wait"
    <3>1. th'[w] = th[w]
      BY <1>1, <2>3
    <3> QED BY <1>3, <2>3, <3>1 DEF TRInv, WorkInv
  <2> QED BY <2>1, <2>2, <2>3
<1>5. th' \in [Threads -> ThreadStates]
  <2>1. DOMAIN th' = Threads /\ th' = [w \in Threads |-> th'[w]]
    BY <1>1
  <2> QED BY <1>4, <2>1
<1>6. WorkInv'
  <2>1. \A u \in Threads : /\ Dials(th'[u]) <=> dial' = u
                           /\ th'[u].pc = "wait" => dial' # NoThread
                           /\ ThreadOK(th'[u])
    BY <1>2, <1>4, TransportAssumption DEF TransportAssumption, Threads
  <2>2. \A u \in Prewarms : th'[u].pc # "idle" /\ ~ th'[u].dead => cur' = u /\ route' /\ gen' = th'[u].gen
    BY <1>2, <1>4 DEF TRInv, WorkInv, rest, Threads
  <2>3. router' = "closed" => \A u \in Prewarms : th'[u].pc = "idle"
    BY <1>2, <1>4 DEF TRInv, WorkInv, rest, Threads
  <2> QED BY <2>1, <2>2, <2>3 DEF WorkInv, Dials, ThreadOK
<1>7. SessionInv' /\ ConnsKept
  BY <1>2, SameSessions DEF rest
<1> QED BY <1>2, <1>5, <1>6, <1>7 DEF TRInv, TRTyped, ConnsKept, rest

\* A request or a response to a hole punch.
LEMMA CallerStepInv ==
  ASSUME TRInv, RequestBegin \/ RequestSend \/ RespondBegin
  PROVE  TRInv'
<1> DEFINE Onward ==
  {q \in ThreadStates : /\ q.pc \in {"idle", "start", "send", "dial"}
                        /\ q.pc = "start" => q.ph # "turn"
                        /\ q.pc = "dial" => q.ph = "turn"}
<1>1. ASSUME NEW r \in Onward, th' = [th EXCEPT ![Caller] = r], th[Caller].pc \in {"idle", "send"},
             UNCHANGED <<rest, dial>>, SessionInv', ConnsKept
      PROVE  TRInv'
  <2>1. Caller \in Threads /\ Caller \notin Prewarms
    BY TransportAssumption DEF TransportAssumption, Threads
  <2>2. dial # Caller
    BY <1>1, <2>1 DEF TRInv, WorkInv, Dials
  <2>3. ~ Dials(r) /\ ThreadOK(r) /\ r \in ThreadStates /\ r.pc # "wait"
    <3>1. /\ r \in ThreadStates /\ r.pc \in {"idle", "start", "send", "dial"}
          /\ r.pc = "start" => r.ph # "turn"
          /\ r.pc = "dial" => r.ph = "turn"
      BY <1>1
    <3>2. ~ Dials(r)
      BY <3>1 DEF Dials
    <3>3. ThreadOK(r)
      BY <3>1 DEF ThreadOK
    <3> QED BY <3>1, <3>2, <3>3
  <2>5. OneMoves(Caller, r)
    BY <1>1, <2>1, <2>2, <2>3 DEF OneMoves, rest
  <2>4. tls' \in Nat
    BY <1>1 DEF rest, TRInv, TRTyped
  <2> QED BY <1>1, <2>1, <2>4, <2>5, OneMovesTRInv
<1>2. session \in Conns \cup {NoConn}
  BY DEF TRInv, TRTyped
<1>3. /\ IdleThread \in Onward
      /\ [IdleThread EXCEPT !.pc = "start"] \in Onward
      /\ [IdleThread EXCEPT !.pc = "send", !.conn = session, !.ph = "session"] \in Onward
      /\ [IdleThread EXCEPT !.pc = "dial", !.ph = "turn"] \in Onward
      /\ [IdleThread EXCEPT !.pc = "start", !.ph = "respond"] \in Onward
  BY <1>2 DEF IdleThread, ThreadStates, Steps
<1> HIDE DEF Onward
<1>4. CASE RequestBegin
  <2>1. SessionInv' /\ ConnsKept
    BY <1>4, SameSessions DEF RequestBegin, rest
  <2>2. PICK r \in Onward : th' = [th EXCEPT ![Caller] = r]
    BY <1>3, <1>4 DEF RequestBegin
  <2> QED BY <1>1, <1>4, <2>1, <2>2 DEF RequestBegin
<1>5. CASE RespondBegin
  <2>1. SessionInv' /\ ConnsKept
    BY <1>5, SameSessions DEF RespondBegin, rest
  <2>2. PICK r \in Onward : th' = [th EXCEPT ![Caller] = r]
    BY <1>3, <1>5 DEF RespondBegin
  <2> QED BY <1>1, <1>5, <2>1, <2>2 DEF RespondBegin
<1>6. CASE RequestSend
  <2>1. UNCHANGED <<rest, dial>> /\ th[Caller].pc = "send"
    BY <1>6 DEF RequestSend
  <2>2. UNCHANGED <<session, conn>> \/ DropSession
    BY <1>6 DEF RequestSend
  <2>3. SessionInv' /\ ConnsKept
    <3>1. removed' => blocked'
      BY <2>1 DEF rest, TRInv, SessionInv
    <3> QED BY <2>1, <2>2, <3>1, SameSessions, DropSessionInv DEF rest
  <2>4. NextPhase \subseteq Onward
    BY <1>3 DEF NextPhase
  <2>5. PICK r \in Onward : th' = [th EXCEPT ![Caller] = r]
    BY <1>3, <1>6, <2>4 DEF RequestSend
  <2> QED BY <1>1, <2>1, <2>3, <2>5
<1> QED BY <1>4, <1>5, <1>6

\* The superseded prewarm is cancelled and nothing else changes.
LEMMA SupersededIs ==
  ASSUME TRInv
  PROVE  /\ Superseded \in [Threads -> ThreadStates]
         /\ \A u \in Threads : /\ Superseded[u].pc = th[u].pc /\ Superseded[u].ph = th[u].ph
                               /\ Superseded[u].conn = th[u].conn
         /\ \A u \in Prewarms : th[u].pc # "idle" => Superseded[u].dead
<1>1. \A u \in Threads : Superseded[u] = IF u \in {cur} \ {NoThread} THEN [th[u] EXCEPT !.dead = TRUE] ELSE th[u]
  BY DEF Superseded, Cancelled
<1>2. Superseded = [u \in Threads |-> Superseded[u]]
  BY DEF Superseded, Cancelled
<1>3. ASSUME NEW u \in Threads PROVE Superseded[u] \in ThreadStates
  <2>1. th[u] \in ThreadStates
    BY DEF TRInv, TRTyped
  <2>2. [th[u] EXCEPT !.dead = TRUE] \in ThreadStates
    BY <2>1 DEF ThreadStates
  <2> QED BY <1>1, <2>1, <2>2
<1>4. Superseded \in [Threads -> ThreadStates]
  BY <1>2, <1>3
<1>5. ASSUME NEW u \in Threads
      PROVE  /\ Superseded[u].pc = th[u].pc /\ Superseded[u].ph = th[u].ph
             /\ Superseded[u].conn = th[u].conn
  <2>1. th[u] \in ThreadStates
    BY DEF TRInv, TRTyped
  <2>2. CASE Superseded[u] = [th[u] EXCEPT !.dead = TRUE]
    BY <2>1, <2>2 DEF ThreadStates
  <2> QED BY <1>1, <2>2
<1>6. ASSUME NEW u \in Prewarms, th[u].pc # "idle" PROVE Superseded[u].dead
  <2>0. u \in Threads /\ u # NoThread /\ th[u] \in ThreadStates
    BY TransportAssumption DEF TransportAssumption, Threads, TRInv, TRTyped
  <2>1. CASE th[u].dead
    BY <1>1, <2>0, <2>1 DEF ThreadStates
  <2>2. CASE ~ th[u].dead
    <3>1. cur = u
      BY <1>6, <2>2 DEF TRInv, WorkInv
    <3>2. Superseded[u] = [th[u] EXCEPT !.dead = TRUE]
      BY <1>1, <2>0, <3>1
    <3> QED BY <2>0, <3>2 DEF ThreadStates
  <2> QED BY <2>1, <2>2
<1> QED BY <1>4, <1>5, <1>6

\* After the running prewarm is cancelled no thread is bound to the route.
LEMMA SupersededInv ==
  ASSUME TRInv, th' = Superseded, UNCHANGED dial, cur' = NoThread, router' = "closed" => router = "closed"
  PROVE  WorkInv' /\ th' \in [Threads -> ThreadStates]
<1> HIDE DEF Superseded
<1>1. \A u \in Threads : th'[u].pc = th[u].pc /\ th'[u].ph = th[u].ph /\ th'[u].conn = th[u].conn
  BY SupersededIs
<1>2. \A u \in Threads : (Dials(th'[u]) <=> Dials(th[u])) /\ (ThreadOK(th[u]) => ThreadOK(th'[u]))
  BY <1>1 DEF Dials, ThreadOK
<1>3. \A u \in Prewarms : th'[u].pc = th[u].pc /\ (th[u].pc # "idle" => th'[u].dead)
  BY <1>1, SupersededIs DEF Threads
<1>4. \A u \in Threads : /\ Dials(th'[u]) <=> dial' = u
                         /\ th'[u].pc = "wait" => dial' # NoThread
                         /\ ThreadOK(th'[u])
  BY <1>1, <1>2 DEF TRInv, WorkInv
<1>5. WorkInv'
  <2>1. router' = "closed" => \A u \in Prewarms : th'[u].pc = "idle"
    BY <1>3 DEF TRInv, WorkInv
  <2> QED BY <1>3, <1>4, <2>1 DEF WorkInv, Dials, ThreadOK
<1> QED BY <1>5, SupersededIs

\* A step that leaves the threads alone.
LEMMA SameWork ==
  ASSUME TRInv, UNCHANGED <<th, dial, cur, route, gen>>,
         router' = "closed" => \A t \in Prewarms : th[t].pc = "idle"
  PROVE  WorkInv'
  BY DEF TRInv, WorkInv, Dials, ThreadOK

\* A step of the router or of the manager.
LEMMA RouterStepInv ==
  ASSUME TRInv, \/ UpdatePeerRoute \/ RemovePeerRoute \/ SetQUICManager \/ CloseBegin \/ CloseEnd
                \/ CloseManager \/ ReloadTLS
  PROVE  TRInv'
<1>1. CASE UpdatePeerRoute
  <2>1. SessionInv' /\ ConnsKept
    <3>1. UNCHANGED <<session, conn, tls, qm>>
          /\ (UNCHANGED <<blocked, removed>> \/ (~ blocked' /\ ~ removed'))
      BY <1>1 DEF UpdatePeerRoute
    <3> QED BY <3>1 DEF TRInv, TRTyped, SessionInv, ConnsKept
  <2>2. gen \in Nat /\ gen' = gen + 1 /\ route' /\ router = "open" /\ UNCHANGED <<router, dial>>
    BY <1>1 DEF UpdatePeerRoute, TRInv, TRTyped
  <2>3. CASE cur' = NoThread /\ th' = Superseded
    <3>1. WorkInv' /\ th' \in [Threads -> ThreadStates]
      BY <2>2, <2>3, SupersededInv
    <3> QED BY <1>1, <2>1, <2>2, <2>3, <3>1 DEF UpdatePeerRoute, TRInv, TRTyped, ConnsKept
  <2>4. ASSUME NEW t \in Prewarms, th[t].pc = "idle", cur' = t,
               th' = [Superseded EXCEPT ![t] = [IdleThread EXCEPT !.pc = "start", !.gen = gen + 1]]
        PROVE  TRInv'
    <3> DEFINE r == [IdleThread EXCEPT !.pc = "start", !.gen = gen + 1]
    <3>1. r \in ThreadStates /\ r.pc = "start" /\ r.gen = gen + 1 /\ r.ph = "punch"
      <4> DEFINE g == gen + 1
      <4>1. g \in Nat
        BY <2>2
      <4> HIDE DEF g
      <4>2. \A n \in Nat : LET q == [IdleThread EXCEPT !.pc = "start", !.gen = n]
                         IN q \in ThreadStates /\ q.pc = "start" /\ q.gen = n /\ q.ph = "punch"
        BY DEF IdleThread, ThreadStates, Steps
      <4> QED BY <4>1, <4>2 DEF g
    <3>2. th' = [Superseded EXCEPT ![t] = r]
      BY <2>4
    <3> HIDE DEF r
    <3>3. t \in Threads /\ Superseded \in [Threads -> ThreadStates]
      BY SupersededIs DEF Threads
    <3>4. th' \in [Threads -> ThreadStates] /\ th'[t] = r /\ \A u \in Threads : u # t => th'[u] = Superseded[u]
      BY <3>1, <3>2, <3>3
    <3>5. \A u \in Threads : /\ Dials(th'[u]) <=> dial' = u
                             /\ th'[u].pc = "wait" => dial' # NoThread
                             /\ ThreadOK(th'[u])
      <4>1. dial # t
        BY <2>4, <3>3 DEF TRInv, WorkInv, Dials
      <4>2. ~ Dials(r) /\ ThreadOK(r) /\ r.pc # "wait"
        BY <3>1 DEF Dials, ThreadOK
      <4>3. \A u \in Threads : /\ Dials(Superseded[u]) <=> Dials(th[u])
                               /\ ThreadOK(th[u]) => ThreadOK(Superseded[u])
                               /\ Superseded[u].pc = th[u].pc
        BY SupersededIs DEF Dials, ThreadOK
      <4> QED BY <2>2, <3>4, <4>1, <4>2, <4>3 DEF TRInv, WorkInv
    <3>6. \A u \in Prewarms : th'[u].pc # "idle" /\ ~ th'[u].dead => cur' = u /\ route' /\ gen' = th'[u].gen
      BY <2>2, <2>4, <3>1, <3>4, SupersededIs DEF Threads
    <3>7. WorkInv'
      BY <2>2, <3>5, <3>6 DEF WorkInv, Dials, ThreadOK
    <3> QED BY <1>1, <2>1, <2>2, <2>4, <3>4, <3>7 DEF UpdatePeerRoute, TRInv, TRTyped, ConnsKept
  <2> QED BY <1>1, <2>3, <2>4 DEF UpdatePeerRoute
<1>2. CASE RemovePeerRoute
  <2>1. SessionInv' /\ ConnsKept
    <3>1. CASE qm = "none"
      BY <1>2, <3>1, SameSessions DEF RemovePeerRoute
    <3>2. CASE qm # "none"
      BY <1>2, <3>2, DropSessionInv DEF RemovePeerRoute, BlockPeerSessions
    <3> QED BY <3>1, <3>2
  <2>2. WorkInv' /\ th' \in [Threads -> ThreadStates]
    BY <1>2, SupersededInv DEF RemovePeerRoute
  <2> QED BY <1>2, <2>1, <2>2 DEF RemovePeerRoute, TRInv, TRTyped, ConnsKept
<1>3. CASE SetQUICManager
  <2>1. SessionInv'
    BY <1>3 DEF SetQUICManager, TRInv, SessionInv
  <2>2. WorkInv'
    BY <1>3, SameWork DEF SetQUICManager, TRInv, WorkInv
  <2> QED BY <1>3, <2>1, <2>2 DEF SetQUICManager, TRInv, TRTyped
<1>4. CASE CloseBegin
  <2>1. SessionInv' /\ ConnsKept
    BY <1>4, SameSessions DEF CloseBegin
  <2>2. WorkInv' /\ th' \in [Threads -> ThreadStates]
    BY <1>4, SupersededInv DEF CloseBegin
  <2> QED BY <1>4, <2>1, <2>2 DEF CloseBegin, TRInv, TRTyped, ConnsKept
<1>5. CASE CloseEnd
  <2>1. SessionInv' /\ ConnsKept
    BY <1>5, SameSessions DEF CloseEnd
  <2>2. WorkInv'
    BY <1>5, SameWork DEF CloseEnd
  <2> QED BY <1>5, <2>1, <2>2 DEF CloseEnd, TRInv, TRTyped
<1>6. CASE CloseManager
  <2>1. SessionInv' /\ ConnsKept
    BY <1>6, DropSessionInv DEF CloseManager, TRInv, SessionInv
  <2>2. WorkInv'
    BY <1>6, SameWork DEF CloseManager, TRInv, WorkInv
  <2>3. tls' \in Nat
    BY <1>6 DEF CloseManager, TRInv, TRTyped
  <2> QED BY <1>6, <2>1, <2>2, <2>3 DEF CloseManager, TRInv, TRTyped, ConnsKept
<1>7. CASE ReloadTLS
  <2>1. Closed \in ConnStates /\ Closed.st # "open"
    BY DEF Closed, ConnStates
  <2>2. conn' \in [Conns -> ConnStates]
    BY <1>7, <2>1 DEF ReloadTLS, TRInv, TRTyped
  <2>3. \A c \in Conns : conn'[c].st # "open"
    BY <1>7, <2>1 DEF ReloadTLS, TRInv, SessionInv
  <2>4. SessionInv'
    BY <1>7, <2>3 DEF ReloadTLS, TRInv, SessionInv
  <2>5. WorkInv'
    BY <1>7, SameWork DEF ReloadTLS, TRInv, WorkInv
  <2> QED BY <1>7, <2>2, <2>4, <2>5 DEF ReloadTLS, TRInv, TRTyped
<1> QED BY <1>1, <1>2, <1>3, <1>4, <1>5, <1>6, <1>7

\* An inbound handshake, or the loss of a connection.
LEMMA ConnStepInv ==
  ASSUME TRInv, Hello \/ \E c \in Conns : Verify(c) \/ Record(c) \/ Accept(c) \/ ConnLost(c)
  PROVE  TRInv'
<1>1. UNCHANGED <<rest, th, dial>>
  BY DEF Hello, Verify, Record, Accept, ConnLost
<1>2. WorkInv'
  BY <1>1, SameWork DEF rest, TRInv, WorkInv
<1>3. SessionInv' /\ ConnsKept
  <2>1. ASSUME NEW c \in Conns, NEW r \in ConnStates, r.st # "open", UNCHANGED session,
               conn' = [conn EXCEPT ![c] = r]
        PROVE  SessionInv' /\ ConnsKept
    BY <1>1, <2>1, OneConnInv DEF rest
  <2>2. conn \in [Conns -> ConnStates] /\ Closed \in ConnStates /\ Closed.st = "closed" /\ tls \in Nat
    BY DEF TRInv, TRTyped, Closed, ConnStates
  <2>3. CASE Hello
    <3>1. [st |-> "hello", gen |-> tls] \in ConnStates
      BY <2>2 DEF ConnStates
    <3> QED BY <2>1, <2>3, <3>1 DEF Hello, Unused
  <2>4. ASSUME NEW c \in Conns, Verify(c) PROVE SessionInv' /\ ConnsKept
    <3>1. [conn[c] EXCEPT !.st = "checked"] \in ConnStates /\ [conn[c] EXCEPT !.st = "checked"].st = "checked"
      BY <2>2 DEF ConnStates
    <3> QED BY <2>1, <2>2, <2>4, <3>1 DEF Verify
  <2>5. ASSUME NEW c \in Conns, Record(c) PROVE SessionInv' /\ ConnsKept
    <3>1. [conn[c] EXCEPT !.st = "recorded"] \in ConnStates /\ [conn[c] EXCEPT !.st = "recorded"].st = "recorded"
      BY <2>2 DEF ConnStates
    <3>2. conn' = [conn EXCEPT ![c] = [conn[c] EXCEPT !.st = "recorded"]]
      BY <2>5 DEF Record
    <3> QED BY <2>1, <2>5, <3>1, <3>2 DEF Record
  <2>6. ASSUME NEW c \in Conns, Accept(c) PROVE SessionInv' /\ ConnsKept
    BY <1>1, <2>6, SetSessionInv DEF Accept, rest
  <2>7. ASSUME NEW c \in Conns, ConnLost(c) PROVE SessionInv' /\ ConnsKept
    BY <2>1, <2>2, <2>7 DEF ConnLost
  <2> QED BY <2>3, <2>4, <2>5, <2>6, <2>7
<1> QED BY <1>1, <1>2, <1>3 DEF rest, TRInv, TRTyped, ConnsKept

\* No step of the transport breaks the invariant.
LEMMA TRNextInv == TRInv /\ [TRNext]_trVars => TRInv'
<1> SUFFICES ASSUME TRInv, [TRNext]_trVars PROVE TRInv'
  OBVIOUS
<1>1. CASE UNCHANGED trVars
  BY <1>1 DEF trVars, TRInv, TRTyped, SessionInv, WorkInv, Dials, ThreadOK
<1> QED BY <1>1, ThreadStepInv, DialReturnInv, CallerStepInv, RouterStepInv, ConnStepInv DEF TRNext

\* The invariant holds of an idle transport.
LEMMA TRInitInv == TRInit => TRInv
<1> SUFFICES ASSUME TRInit PROVE TRInv
  OBVIOUS
<1>1. IdleThread \in ThreadStates /\ Closed \in ConnStates
  BY DEF IdleThread, Closed, ThreadStates, ConnStates, Steps
<1>2. \A t \in Threads : th[t].pc = "idle"
  BY DEF TRInit, IdleThread
<1>3. \A c \in Conns : conn[c].st = "closed"
  BY DEF TRInit, Closed
<1>4. TRTyped
  BY <1>1 DEF TRInit, TRTyped
<1>5. WorkInv
  BY <1>2, TransportAssumption DEF TRInit, WorkInv, Dials, ThreadOK, Threads, TransportAssumption
<1> QED BY <1>3, <1>4, <1>5 DEF TRInit, TRInv, SessionInv

(***************************************************************************)
(* However rotations, removals, dials and handshakes interleave, the       *)
(* session of a peer is the one open connection and was authenticated with *)
(* the current TLS material, and a removed peer has none (setSession,      *)
(* ReloadTLS, BlockPeerSessions).                                          *)
(***************************************************************************)
THEOREM SessionsStayCurrent == TRSpec => []SessionsCurrent
  BY TRInitInv, TRNextInv, TRInvImplies, PTL DEF TRSpec

(***************************************************************************)
(* A prewarm that is not cancelled works for the route that exists, none   *)
(* outlives the router, one thread at a time owns the dial and nobody      *)
(* waits for a dial that nobody makes (prewarmConnection, removeDial).     *)
(***************************************************************************)
THEOREM WorkHasOwner == TRSpec => []WorkOwned
  BY TRInitInv, TRNextInv, TRInvImplies, PTL DEF TRSpec

(* -------------------------------- the relay ------------------------------- *)

Tasks == [f : Forwards, sp : Sponsors, st : {"run", "reply", "found"}]
FwdStates == [st : {"idle", "registered", "waiting", "served", "timeout", "refused"},
              sp : Sponsors \cup {NoSponsor}, full : BOOLEAN]

RLTyped ==
  /\ alive \subseteq Sponsors
  /\ slots \in Nat
  /\ queue \in [Sponsors -> Seq(Forwards)]
  /\ fwd \in [Forwards -> FwdStates]
  /\ work \in SUBSET Tasks /\ IsFiniteSet(work)
  /\ runs \in [Forwards -> Nat]

\* A forward that is not enqueued yet was neither served nor answered; a full
\* channel holds the answer of the one run.
ForwardOK(f) ==
  /\ fwd[f].st # "idle" => fwd[f].sp \in Sponsors
  /\ fwd[f].st \in {"idle", "registered"} => runs[f] = 0 /\ f \notin answered
  /\ runs[f] \in {0, 1}
  /\ f \in answered /\ fwd[f].st = "waiting" => fwd[f].full
  /\ fwd[f].full \/ fwd[f].st = "served" => runs[f] = 1

\* A queued request waits at the sponsor it was forwarded to, once, and nobody
\* works on it.
QueuesOK ==
  \A s \in Sponsors : \A i \in 1..Len(queue[s]) :
    LET f == queue[s][i]
    IN /\ fwd[f].sp = s /\ fwd[f].st \notin {"idle", "registered"}
       /\ runs[f] = 0 /\ f \notin answered
       /\ \A w \in work : w.f # f
       /\ \A j \in 1..Len(queue[s]) : queue[s][j] = f => j = i

\* A request the node works on was taken from its sponsor, once.
WorkOK ==
  \A w \in work : /\ fwd[w.f].sp = w.sp /\ fwd[w.f].st \notin {"idle", "registered"}
                  /\ runs[w.f] = IF w.st = "run" THEN 0 ELSE 1
                  /\ w.f \notin answered
                  /\ \A v \in work : v.f = w.f => v = w

RLInv == /\ RLTyped /\ RelayBounded /\ QueuesOK /\ WorkOK
         /\ \A f \in Forwards : ForwardOK(f)
\* Work that goes on is one item of work, as before.
LEMMA SwapCardinality ==
  ASSUME NEW W, IsFiniteSet(W), NEW w \in W, NEW v, v \notin W \ {w}
  PROVE  /\ IsFiniteSet((W \ {w}) \cup {v}) /\ Cardinality((W \ {w}) \cup {v}) = Cardinality(W)
         /\ IsFiniteSet(W \ {w}) /\ Cardinality(W \ {w}) = Cardinality(W) - 1
         /\ Cardinality(W) \in Nat
<1>1. IsFiniteSet(W \ {w}) /\ Cardinality(W \ {w}) = Cardinality(W) - 1
  BY FS_RemoveElement
<1>2. /\ IsFiniteSet((W \ {w}) \cup {v})
      /\ Cardinality((W \ {w}) \cup {v}) = Cardinality(W \ {w}) + 1
  BY <1>1, FS_AddElement
<1>3. Cardinality(W) \in Nat
  BY FS_CardinalityType
<1> QED BY <1>1, <1>2, <1>3

\* A step that changes the sponsor the node polls, or the state of the loop.
LEMMA RLChoiceInv ==
  ASSUME RLInv, TopologyUpdate \/ (\E s \in Sponsors : Observe(s)) \/ TakeSlot \/ Failover
  PROVE  RLInv'
<1>1. UNCHANGED <<alive, queue, fwd, work, runs, answered>>
  BY DEF TopologyUpdate, Observe, TakeSlot, Failover, choice
<1>2. RLTyped' /\ RelayBounded'
  BY <1>1, FS_CardinalityType, RelayAssumption DEF RLInv, RLTyped, RelayBounded, TopologyUpdate, Observe, TakeSlot,
     Failover, RelayAssumption
<1>3. QueuesOK' /\ WorkOK' /\ \A f \in Forwards : ForwardOK(f)'
  BY <1>1 DEF RLInv, QueuesOK, WorkOK, ForwardOK
<1> QED BY <1>2, <1>3 DEF RLInv

\* A step of a forward that leaves queues and work alone.
LEMMA RLForwardInv ==
  ASSUME RLInv, NEW f \in Forwards, (\E s \in Sponsors : Register(f, s)) \/ ForwardEnds(f)
  PROVE  RLInv'
<1>1. UNCHANGED <<alive, loop, slots, queue, work, runs, answered>>
  BY DEF Register, ForwardEnds
<1>2. PICK r \in FwdStates :
        /\ fwd' = [fwd EXCEPT ![f] = r]
        /\ r.st \in {"registered", "served", "timeout"} /\ r.sp \in Sponsors
        /\ r.st = "registered" => fwd[f].st = "idle" /\ ~ r.full
        /\ r.st # "registered" => r.sp = fwd[f].sp /\ r.full = fwd[f].full /\ fwd[f].st = "waiting"
        /\ r.st = "served" => r.full
  <2>1. ASSUME NEW s \in Sponsors, Register(f, s)
        PROVE  [st |-> "registered", sp |-> s, full |-> FALSE] \in FwdStates /\ fwd[f].st = "idle"
    BY <2>1 DEF Register, FwdStates, FwdIdle
  <2>2. CASE \E s \in Sponsors : Register(f, s)
    BY <2>1, <2>2 DEF Register
  <2>3. CASE ForwardEnds(f)
    <3>1. fwd[f] \in FwdStates /\ fwd[f].st = "waiting" /\ fwd[f].sp \in Sponsors
      BY <2>3 DEF ForwardEnds, RLInv, RLTyped, ForwardOK
    <3>2. ASSUME NEW q \in {"served", "timeout"}
          PROVE  LET r == [fwd[f] EXCEPT !.st = q]
                 IN r \in FwdStates /\ r.st = q /\ r.sp = fwd[f].sp /\ r.full = fwd[f].full
      BY <3>1 DEF FwdStates
    <3>3. CASE fwd[f].full /\ fwd' = [fwd EXCEPT ![f].st = "served"]
      BY <3>1, <3>2, <3>3
    <3>4. CASE fwd' = [fwd EXCEPT ![f].st = "timeout"]
      BY <3>1, <3>2, <3>4
    <3> QED BY <2>3, <3>3, <3>4 DEF ForwardEnds
  <2> QED BY <2>2, <2>3
<1>3. fwd'[f] = r /\ \A g \in Forwards : g # f => fwd'[g] = fwd[g]
  BY <1>2 DEF RLInv, RLTyped
<1>4. RLTyped' /\ RelayBounded'
  BY <1>1, <1>2 DEF RLInv, RLTyped, RelayBounded
<1>5. \A g \in Forwards : ForwardOK(g)'
  BY <1>1, <1>2, <1>3 DEF RLInv, ForwardOK
<1>6. QueuesOK'
  <2> SUFFICES ASSUME NEW s \in Sponsors, NEW i \in 1..Len(queue[s])
               PROVE  LET g == queue[s][i] IN fwd'[g].sp = s /\ fwd'[g].st \notin {"idle", "registered"}
    BY <1>1 DEF RLInv, QueuesOK
  <2>1. queue[s][i] \in Forwards /\ fwd[queue[s][i]].sp = s
        /\ fwd[queue[s][i]].st \notin {"idle", "registered"}
    BY DEF RLInv, RLTyped, QueuesOK
  <2> QED BY <1>2, <1>3, <2>1
<1>7. WorkOK'
  <2> SUFFICES ASSUME NEW w \in work
               PROVE  fwd'[w.f].sp = w.sp /\ fwd'[w.f].st \notin {"idle", "registered"}
    BY <1>1 DEF RLInv, WorkOK
  <2>1. w.f \in Forwards /\ fwd[w.f].sp = w.sp /\ fwd[w.f].st \notin {"idle", "registered"}
    BY DEF RLInv, RLTyped, WorkOK, Tasks
  <2> QED BY <1>2, <1>3, <2>1
<1> QED BY <1>4, <1>5, <1>6, <1>7 DEF RLInv
\* The request is queued, or refused because the queue is full.
LEMMA RLEnqueueInv ==
  ASSUME RLInv, NEW f \in Forwards, Enqueue(f)
  PROVE  RLInv'
<1> DEFINE s == fwd[f].sp
<1>1. /\ UNCHANGED <<alive, loop, slots, work, runs, answered>>
      /\ fwd[f] \in FwdStates /\ fwd[f].st = "registered" /\ s \in Sponsors
      /\ runs[f] = 0 /\ f \notin answered /\ ~ fwd[f].full
  BY DEF Enqueue, RLInv, RLTyped, ForwardOK
<1>2. \A t \in Sponsors : \A i \in 1..Len(queue[t]) : queue[t][i] \in Forwards /\ queue[t][i] # f
  BY <1>1 DEF RLInv, RLTyped, QueuesOK
<1>3. \A w \in work : w.f \in Forwards /\ w.f # f
  BY <1>1 DEF RLInv, RLTyped, WorkOK, Tasks
<1>4. PICK q \in {"waiting", "refused"} : fwd' = [fwd EXCEPT ![f].st = q]
  BY DEF Enqueue
<1>5. /\ fwd' \in [Forwards -> FwdStates] /\ \A g \in Forwards : g # f => fwd'[g] = fwd[g]
      /\ fwd'[f].st = q /\ fwd'[f].sp = s /\ fwd'[f].full = fwd[f].full
  BY <1>1, <1>4 DEF RLInv, RLTyped, FwdStates
<1>6. \A g \in Forwards : ForwardOK(g)'
  BY <1>1, <1>5 DEF RLInv, ForwardOK
<1>7. WorkOK'
  BY <1>1, <1>3, <1>5 DEF RLInv, WorkOK
<1>8. CASE UNCHANGED queue
  <2>1. QueuesOK'
    BY <1>1, <1>2, <1>5, <1>8 DEF RLInv, QueuesOK
  <2> QED BY <1>1, <1>5, <1>6, <1>7, <1>8, <2>1 DEF RLInv, RLTyped, RelayBounded
<1>9. CASE Len(queue[s]) < RelayCap /\ queue' = [queue EXCEPT ![s] = Append(@, f)]
  <2>1. queue[s] \in Seq(Forwards) /\ queue'[s] = Append(queue[s], f)
    BY <1>1, <1>9 DEF RLInv, RLTyped
  <2>2. /\ Len(queue'[s]) = Len(queue[s]) + 1 /\ Len(queue[s]) \in Nat
        /\ \A i \in 1..Len(queue[s]) : queue'[s][i] = queue[s][i]
        /\ queue'[s][Len(queue[s]) + 1] = f
    BY <2>1
  <2>3. queue' \in [Sponsors -> Seq(Forwards)] /\ \A t \in Sponsors : t # s => queue'[t] = queue[t]
    BY <1>1, <1>9, <2>1 DEF RLInv, RLTyped
  <2> HIDE DEF s
  <2>4. RelayBounded'
    <3>1. \A t \in Sponsors : Len(queue'[t]) <= RelayCap
      BY <1>9, <2>2, <2>3, RelayAssumption DEF RLInv, RelayBounded, RelayAssumption
    <3> QED BY <1>1, <3>1 DEF RLInv, RelayBounded
  <2>5. ASSUME NEW t \in Sponsors, NEW i \in 1..Len(queue'[t])
        PROVE  LET g == queue'[t][i]
               IN /\ fwd'[g].sp = t /\ fwd'[g].st \notin {"idle", "registered"}
                  /\ runs[g] = 0 /\ g \notin answered
                  /\ \A w \in work : w.f # g
                  /\ \A j \in 1..Len(queue'[t]) : queue'[t][j] = g => j = i
    <3>1. CASE t # s
      <4>1. queue'[t] = queue[t]
        BY <2>3, <3>1
      <4>2. queue[t][i] \in Forwards \ {f}
        BY <1>2, <4>1
      <4>3. fwd'[queue[t][i]] = fwd[queue[t][i]]
        BY <1>5, <4>2
      <4> QED BY <4>1, <4>3 DEF RLInv, QueuesOK
    <3>2. CASE t = s /\ i = Len(queue[s]) + 1
      <4>1. \A j \in 1..Len(queue'[s]) : queue'[s][j] = f => j = i
        BY <1>1, <1>2, <2>2, <3>2
      <4> QED BY <1>1, <1>3, <1>5, <2>2, <3>2, <4>1 DEF s
    <3>3. CASE t = s /\ i \in 1..Len(queue[s])
      <4>1. queue'[s][i] = queue[s][i] /\ queue[s][i] \in Forwards \ {f}
        BY <1>1, <1>2, <2>2, <3>3
      <4>2. fwd'[queue[s][i]] = fwd[queue[s][i]]
        BY <1>5, <4>1
      <4>3. \A j \in 1..Len(queue'[s]) : queue'[s][j] = queue[s][i] => j = i
        BY <1>1, <2>2, <3>3, <4>1 DEF RLInv, QueuesOK
      <4> QED BY <1>1, <3>3, <4>1, <4>2, <4>3 DEF RLInv, QueuesOK
    <3> QED BY <2>2, <3>1, <3>2, <3>3
  <2>6. QueuesOK'
    BY <1>1, <2>5 DEF QueuesOK
  <2> QED BY <1>1, <1>5, <1>6, <1>7, <2>3, <2>4, <2>6 DEF RLInv, RLTyped
<1> QED BY <1>8, <1>9 DEF Enqueue

\* A poll finds nothing or takes the first request.
LEMMA RLPollInv ==
  ASSUME RLInv, Poll
  PROVE  RLInv'
<1>1. UNCHANGED <<alive, fwd, runs, answered>> /\ loop = "slot" /\ IsFiniteSet(work) /\ Cardinality(work) \in Nat
      /\ slots = Cardinality(work) + 1
  BY FS_CardinalityType DEF Poll, RLInv, RLTyped, RelayBounded, choice
<1>2. \A g \in Forwards : ForwardOK(g)'
  BY <1>1 DEF RLInv, ForwardOK
<1>3. CASE loop' \in {"sleep", "failed"} /\ slots' = slots - 1 /\ UNCHANGED <<queue, work>>
  <2>1. QueuesOK' /\ WorkOK'
    BY <1>1, <1>3 DEF RLInv, QueuesOK, WorkOK
  <2>2. RelayBounded' /\ slots' \in Nat
    BY <1>1, <1>3, RelayAssumption DEF RLInv, RelayBounded, RelayAssumption
  <2> QED BY <1>1, <1>2, <1>3, <2>1, <2>2 DEF RLInv, RLTyped
<1>4. CASE polled \in alive /\ queue[polled] # << >> /\ queue' = [queue EXCEPT ![polled] = Tail(@)]
  <2> DEFINE h == Head(queue[polled])
             v == [f |-> h, sp |-> polled, st |-> "run"]
  <2>1. /\ polled \in Sponsors /\ queue[polled] \in Seq(Forwards) /\ queue'[polled] = Tail(queue[polled])
        /\ queue' \in [Sponsors -> Seq(Forwards)] /\ \A t \in Sponsors : t # polled => queue'[t] = queue[t]
    BY <1>4 DEF RLInv, RLTyped
  <2>2. /\ Len(queue[polled]) \in Nat \ {0} /\ h = queue[polled][1] /\ h \in Forwards
        /\ Len(queue'[polled]) = Len(queue[polled]) - 1
        /\ \A i \in 1..Len(queue'[polled]) : queue'[polled][i] = queue[polled][i + 1]
    BY <1>4, <2>1
  <2>3. /\ fwd[h].sp = polled /\ fwd[h].st \notin {"idle", "registered"}
        /\ runs[h] = 0 /\ h \notin answered
        /\ \A w \in work : w.f # h
        /\ \A j \in 1..Len(queue[polled]) : queue[polled][j] = h => j = 1
    BY <2>1, <2>2 DEF RLInv, QueuesOK
  <2>4. v \in Tasks /\ v.f = h /\ v.sp = polled /\ v.st = "run"
    BY <2>1, <2>2 DEF Tasks
  <2> HIDE DEF h, v
  <2>5. work' \in {work, work \cup {v}}
    BY <1>4 DEF Poll, h, v
  <2>6. v \notin work
    BY <2>3, <2>4
  <2>7. ASSUME NEW t \in Sponsors, NEW i \in 1..Len(queue'[t])
        PROVE  LET g == queue'[t][i]
               IN /\ fwd[g].sp = t /\ fwd[g].st \notin {"idle", "registered"}
                  /\ runs[g] = 0 /\ g \notin answered /\ g # h
                  /\ \A w \in work : w.f # g
                  /\ \A j \in 1..Len(queue'[t]) : queue'[t][j] = g => j = i
    <3>1. CASE t # polled
      <4>1. queue'[t] = queue[t]
        BY <2>1, <3>1
      <4> QED BY <2>3, <3>1, <4>1 DEF RLInv, QueuesOK
    <3>2. CASE t = polled
      <4>1. i + 1 \in 1..Len(queue[polled]) /\ queue'[t][i] = queue[polled][i + 1] /\ i + 1 # 1
        BY <2>2, <3>2
      <4>2. \A j \in 1..Len(queue'[t]) : j + 1 \in 1..Len(queue[polled]) /\ queue'[t][j] = queue[polled][j + 1]
        BY <2>2, <3>2
      <4>3. /\ fwd[queue[polled][i + 1]].sp = polled
            /\ fwd[queue[polled][i + 1]].st \notin {"idle", "registered"}
            /\ runs[queue[polled][i + 1]] = 0 /\ queue[polled][i + 1] \notin answered
            /\ \A w \in work : w.f # queue[polled][i + 1]
            /\ \A j \in 1..Len(queue[polled]) : queue[polled][j] = queue[polled][i + 1] => j = i + 1
        BY <2>1, <4>1 DEF RLInv, QueuesOK
      <4>4. queue[polled][i + 1] # h
        BY <2>3, <4>1
      <4>5. \A j \in 1..Len(queue'[t]) : queue'[t][j] = queue'[t][i] => j = i
        BY <4>1, <4>2, <4>3
      <4> QED BY <3>2, <4>1, <4>3, <4>4, <4>5
    <3> QED BY <3>1, <3>2
  <2>8. QueuesOK'
    BY <1>1, <2>4, <2>5, <2>7 DEF QueuesOK
  <2>9. WorkOK'
    BY <1>1, <2>3, <2>4, <2>5 DEF RLInv, WorkOK
  <2>10. \A t \in Sponsors : Len(queue'[t]) <= RelayCap
    BY <2>1, <2>2, RelayAssumption DEF RLInv, RelayBounded, RelayAssumption
  <2>11. work' \subseteq Tasks /\ IsFiniteSet(work') /\ slots' \in Nat /\ RelayBounded'
    <3>1. CASE loop' = "sleep" /\ UNCHANGED slots /\ work' = work \cup {v}
      <4>1. IsFiniteSet(work') /\ Cardinality(work') = Cardinality(work) + 1
        BY <1>1, <2>6, <3>1, FS_AddElement
      <4> QED BY <1>1, <2>4, <2>10, <3>1, <4>1 DEF RLInv, RLTyped, RelayBounded
    <3>2. CASE loop' = "failed" /\ slots' = slots - 1 /\ UNCHANGED work
      BY <1>1, <2>10, <3>2, RelayAssumption DEF RLInv, RLTyped, RelayBounded, RelayAssumption
    <3> QED BY <1>4, <3>1, <3>2 DEF Poll, h, v
  <2> QED BY <1>1, <1>2, <2>1, <2>8, <2>9, <2>11 DEF RLInv, RLTyped
<1> QED BY <1>3, <1>4 DEF Poll
\* Work leaves the table, or goes on under the same request: what the queues and
\* the other work say still holds.
LEMMA RLWorkMoves ==
  ASSUME RLInv, NEW w \in work, NEW v, v.f = w.f,
         work' \in {work \ {w}, (work \ {w}) \cup {v}},
         UNCHANGED queue,
         \A f \in Forwards : fwd'[f].sp = fwd[f].sp /\ fwd'[f].st = fwd[f].st,
         \A f \in Forwards \ {w.f} : runs'[f] = runs[f] /\ (f \in answered' <=> f \in answered)
  PROVE  /\ QueuesOK'
         /\ \A u \in work \ {w} : /\ fwd'[u.f].sp = u.sp /\ fwd'[u.f].st \notin {"idle", "registered"}
                                  /\ runs'[u.f] = IF u.st = "run" THEN 0 ELSE 1
                                  /\ u.f \notin answered' /\ u.f # w.f
                                  /\ \A x \in work \ {w} : x.f = u.f => x = u
<1>1. ASSUME NEW s \in Sponsors, NEW i \in 1..Len(queue[s])
      PROVE  LET f == queue[s][i]
             IN /\ fwd'[f].sp = s /\ fwd'[f].st \notin {"idle", "registered"}
                /\ runs'[f] = 0 /\ f \notin answered'
                /\ \A u \in work' : u.f # f
                /\ \A j \in 1..Len(queue[s]) : queue[s][j] = f => j = i
  <2>1. queue[s][i] \in Forwards \ {w.f}
    BY DEF RLInv, RLTyped, QueuesOK
  <2> QED BY <2>1 DEF RLInv, QueuesOK
<1>2. QueuesOK'
  BY <1>1 DEF QueuesOK
<1>3. ASSUME NEW u \in work \ {w}
      PROVE  /\ fwd'[u.f].sp = u.sp /\ fwd'[u.f].st \notin {"idle", "registered"}
             /\ runs'[u.f] = IF u.st = "run" THEN 0 ELSE 1
             /\ u.f \notin answered' /\ u.f # w.f
             /\ \A x \in work \ {w} : x.f = u.f => x = u
  <2>1. u.f \in Forwards /\ u.f # w.f
    BY DEF RLInv, RLTyped, WorkOK, Tasks
  <2> QED BY <2>1 DEF RLInv, WorkOK
<1> QED BY <1>2, <1>3

\* A request is served, answered, or given up.
LEMMA RLWorkInv ==
  ASSUME RLInv, NEW w \in work, WorkStep(w)
  PROVE  RLInv'
<1>0. w \in Tasks /\ w.f \in Forwards /\ w.sp \in Sponsors /\ IsFiniteSet(work)
  BY DEF RLInv, RLTyped, Tasks
<1>1. /\ fwd[w.f].sp = w.sp /\ fwd[w.f].st \notin {"idle", "registered"} /\ w.f \notin answered
      /\ runs[w.f] = IF w.st = "run" THEN 0 ELSE 1
  BY DEF RLInv, WorkOK
<1>2. UNCHANGED <<alive, loop, queue>>
  BY DEF WorkStep, Serve, Reply, Deliver
<1>3. fwd \in [Forwards -> FwdStates] /\ runs \in [Forwards -> Nat]
  BY DEF RLInv, RLTyped
<1>4. Cardinality(work) \in Nat /\ slots \in Nat /\ slots <= RelaySlots
      /\ slots = Cardinality(work) + (IF loop = "slot" THEN 1 ELSE 0)
  BY <1>0, FS_CardinalityType DEF RLInv, RLTyped, RelayBounded
\* the item goes on as v
<1>5. ASSUME NEW v \in Tasks, v.f = w.f, v.sp = w.sp, v.st \in {"reply", "found"},
             work' = (work \ {w}) \cup {v}, UNCHANGED <<slots, fwd, answered>>,
             runs' = [runs EXCEPT ![w.f] = 1]
      PROVE  RLInv'
  <2>1. v \notin work \ {w}
    BY <1>5 DEF RLInv, WorkOK
  <2>2. IsFiniteSet(work') /\ Cardinality(work') = Cardinality(work)
    BY <1>0, <1>5, <2>1, SwapCardinality
  <2>3. RLTyped' /\ RelayBounded'
    BY <1>0, <1>2, <1>3, <1>5, <2>2 DEF RLInv, RLTyped, RelayBounded
  <2>4. runs'[w.f] = 1 /\ \A f \in Forwards \ {w.f} : runs'[f] = runs[f]
    BY <1>0, <1>3, <1>5
  <2>5. \A f \in Forwards : ForwardOK(f)'
    BY <1>1, <1>5, <2>4 DEF RLInv, ForwardOK
  <2>6. /\ QueuesOK'
        /\ \A u \in work \ {w} : /\ fwd'[u.f].sp = u.sp /\ fwd'[u.f].st \notin {"idle", "registered"}
                                 /\ runs'[u.f] = IF u.st = "run" THEN 0 ELSE 1
                                 /\ u.f \notin answered' /\ u.f # w.f
                                 /\ \A x \in work \ {w} : x.f = u.f => x = u
    BY <1>2, <1>5, <2>4, RLWorkMoves
  <2>7. WorkOK'
    BY <1>1, <1>5, <2>4, <2>6 DEF WorkOK
  <2> QED BY <2>3, <2>5, <2>6, <2>7 DEF RLInv
\* the item is done
<1>6. ASSUME work' = work \ {w}, slots' = slots - 1, UNCHANGED runs,
             answered' \in {answered, answered \cup {w.f}},
             fwd' \in [Forwards -> FwdStates],
             \A f \in Forwards : fwd'[f].sp = fwd[f].sp /\ fwd'[f].st = fwd[f].st,
             \A f \in Forwards \ {w.f} : fwd'[f].full = fwd[f].full,
             fwd'[w.f].full # fwd[w.f].full => w.st # "run",
             w.f \in answered' /\ fwd[w.f].st = "waiting" => fwd'[w.f].full
      PROVE  RLInv'
  <2>1. IsFiniteSet(work') /\ Cardinality(work') = Cardinality(work) - 1
    BY <1>0, <1>6, SwapCardinality
  <2>2. RLTyped'
    BY <1>2, <1>4, <1>6, <2>1, FS_CardinalityType DEF RLInv, RLTyped
  <2>3. RelayBounded'
    BY <1>2, <1>4, <1>6, <2>1, RelayAssumption DEF RLInv, RelayBounded, RelayAssumption
  <2>4. \A f \in Forwards : ForwardOK(f)'
    BY <1>1, <1>6 DEF RLInv, ForwardOK
  <2>5. \A f \in Forwards \ {w.f} : f \in answered' <=> f \in answered
    BY <1>6
  <2>6. /\ QueuesOK'
        /\ \A u \in work \ {w} : /\ fwd'[u.f].sp = u.sp /\ fwd'[u.f].st \notin {"idle", "registered"}
                                 /\ runs'[u.f] = IF u.st = "run" THEN 0 ELSE 1
                                 /\ u.f \notin answered' /\ u.f # w.f
                                 /\ \A x \in work \ {w} : x.f = u.f => x = u
    BY <1>2, <1>6, <2>5, RLWorkMoves
  <2>7. WorkOK'
    BY <1>6, <2>6 DEF WorkOK
  <2> QED BY <2>2, <2>3, <2>4, <2>6, <2>7 DEF RLInv
<1>7. \A q \in {"reply", "found"} : LET v == [w EXCEPT !.st = q]
                                    IN v \in Tasks /\ v.f = w.f /\ v.sp = w.sp /\ v.st = q
  BY <1>0 DEF Tasks
<1>8. CASE Serve(w)
  <2>1. runs' = [runs EXCEPT ![w.f] = 1]
    BY <1>1, <1>8 DEF Serve
  <2> QED BY <1>5, <1>7, <1>8, <2>1 DEF Serve
<1>9. CASE Reply(w)
  <2>1. UNCHANGED <<fwd, runs>> /\ w.st = "reply"
    BY <1>9 DEF Reply
  <2>2. CASE work' = (work \ {w}) \cup {[w EXCEPT !.st = "found"]} /\ UNCHANGED <<slots, answered>>
    <3>1. runs' = [runs EXCEPT ![w.f] = 1]
      BY <1>0, <1>1, <1>3, <2>1
    <3> QED BY <1>5, <1>7, <2>1, <2>2, <3>1
  <2>3. CASE /\ ~Waiting(w.f, ReplySponsor(w))
             /\ work' = work \ {w} /\ slots' = slots - 1 /\ answered' = answered \cup {w.f}
    <3>1. fwd[w.f].st # "waiting"
      BY <1>1, <2>3 DEF Waiting, ReplySponsor
    <3> QED BY <1>3, <1>6, <2>1, <2>3, <3>1
  <2>4. CASE work' = work \ {w} /\ slots' = slots - 1 /\ UNCHANGED answered
    BY <1>1, <1>3, <1>6, <2>1, <2>4
  <2> QED BY <1>9, <2>2, <2>3, <2>4 DEF Reply
<1>10. CASE Deliver(w)
  <2>1. /\ work' = work \ {w} /\ slots' = slots - 1 /\ answered' = answered \cup {w.f}
        /\ UNCHANGED runs /\ w.st = "found" /\ fwd' = [fwd EXCEPT ![w.f].full = TRUE]
    BY <1>10 DEF Deliver
  <2>2. /\ fwd' \in [Forwards -> FwdStates] /\ fwd'[w.f].full
        /\ fwd'[w.f].sp = fwd[w.f].sp /\ fwd'[w.f].st = fwd[w.f].st
        /\ \A f \in Forwards \ {w.f} : fwd'[f] = fwd[f]
    BY <1>0, <1>3, <2>1 DEF FwdStates
  <2> QED BY <1>6, <2>1, <2>2
<1> QED BY <1>8, <1>9, <1>10 DEF WorkStep

\* The invariant of the relay is inductive.
LEMMA RLInductive == (RLInit => RLInv) /\ (RLInv /\ [RLNext]_rlVars => RLInv')
<1>1. ASSUME RLInit PROVE RLInv
  <2>1. FwdIdle \in FwdStates /\ FwdIdle.st = "idle" /\ ~ FwdIdle.full
    BY DEF FwdIdle, FwdStates
  <2>2. IsFiniteSet({}) /\ Cardinality({}) = 0
    BY FS_EmptySet
  <2>3. RLTyped
    BY <1>1, <2>1, <2>2 DEF RLInit, RLTyped
  <2>4. RelayBounded
    BY <1>1, <2>2, RelayAssumption DEF RLInit, RelayBounded, RelayAssumption
  <2>5. QueuesOK /\ WorkOK
    BY <1>1 DEF RLInit, QueuesOK, WorkOK
  <2>6. \A f \in Forwards : ForwardOK(f)
    BY <1>1, <2>1 DEF RLInit, ForwardOK
  <2> QED BY <2>3, <2>4, <2>5, <2>6 DEF RLInv
<1>2. ASSUME RLInv, UNCHANGED rlVars PROVE RLInv'
  BY <1>2 DEF rlVars, RLInv, RLTyped, RelayBounded, QueuesOK, WorkOK, ForwardOK
<1>3. ASSUME RLInv, RLNext PROVE RLInv'
  BY <1>3, RLChoiceInv, RLForwardInv, RLEnqueueInv, RLPollInv, RLWorkInv DEF RLNext, PollStep
<1> QED BY <1>1, <1>2, <1>3

(***************************************************************************)
(* No slot of the node is lost or freed twice and no queue outgrows its    *)
(* capacity, whatever polls, replies and failovers do (workSlots,          *)
(* HandleRelayForward).                                                    *)
(***************************************************************************)
THEOREM RelayStaysBounded == RLSpec => []RelayBounded
<1>1. RLInv => RelayBounded
  BY DEF RLInv
<1> QED BY <1>1, RLInductive, PTL DEF RLSpec

(***************************************************************************)
(* A forwarded request is served at most once and its reply reaches the    *)
(* forward that waits for it, whichever sponsor the node polls by then     *)
(* (requestSponsor, HandleRelayReply).                                     *)
(***************************************************************************)
THEOREM RepliesArrive == RLSpec => []RepliesDelivered
<1>1. RLInv => RepliesDelivered
  BY DEF RLInv, ForwardOK, RepliesDelivered
<1> QED BY <1>1, RLInductive, PTL DEF RLSpec

=============================================================================
