-------------------------------- MODULE Outbox --------------------------------
(***************************************************************************)
(* The write-ahead gossip outbox of one node (internal/server/outbox.go    *)
(* over the outbox buckets of internal/storage), for one entity of one     *)
(* kind: a VFS name, a pipeline or a service.                              *)
(*                                                                         *)
(* A mutation stages its payload durably for every peer before it commits, *)
(* holding the delivery lock of each (peer, entity) key from the staging   *)
(* to the end.  Deliveries, eager ones and those of the 200 ms flush, take *)
(* the same lock, send only the row they were made for, and remove only    *)
(* that row.  The flush first replaces rows that do not carry the current  *)
(* state.  Payloads are revision numbers, one for each attempted mutation. *)
(*                                                                         *)
(* Rows of different entities share nothing but the flush, and the global  *)
(* generation counter, which only has to grow.                             *)
(***************************************************************************)
EXTENDS Naturals, FiniteSets

CONSTANTS
  NPeers,        \* peers are numbered in the order sort.Strings gives them
  Mutators,      \* callers of SaveLocalFile, DeleteLocalFile, LocalPipelineAdd...
  Kinds,         \* the kinds of entity that are checked, see below
  Ordered,       \* TRUE: receivers keep the highest revision (VFS, pipelines)
  MaxRev         \* bound: attempted mutations, local and remote

(***************************************************************************)
(* A kind of entity.  mutationMu: its mutations hold the storage's         *)
(* mutationMu (the VFS).  callers: the mutators that run concurrently.     *)
(* rollbackFails: the database may fail again while a mutation is rolled   *)
(* back.  maxCrashes: the bound on crashes.                                *)
(***************************************************************************)
KindRecords ==
  [mutationMu : BOOLEAN, callers : SUBSET Mutators, rollbackFails : BOOLEAN, maxCrashes : Nat]

ASSUME OutboxAssumption ==
  /\ NPeers \in Nat \ {0}
  /\ Kinds \subseteq KindRecords
  /\ Ordered \in BOOLEAN
  /\ MaxRev \in Nat
  /\ Mutators \cap {"free", "flush", "deliver"} = {}

Peers == 1..NPeers
Revs  == 0..MaxRev

VARIABLES
  cur,         \* the committed revision of the entity; 0: it does not exist
  revs,        \* revisions handed out so far
  gen,         \* bucket notify_outbox_generations: the global counter
  box,         \* bucket notify_outbox: the row of each peer
  resv,        \* bucket notify_outbox_reservations; 0: none
  mu,          \* holder of mutationMu
  lock,        \* holder of each delivery lock
  mut,         \* the local mutations in progress
  waiting,     \* deliveries that wait for their lock
  sending,     \* the delivery that holds the lock, per peer
  flush,       \* flushOutbox, single-flight
  got,         \* the revision each peer has applied
  late,        \* requests a sender gave up on that may still arrive
  crashes,
  kind,        \* the kind of the entity
  wanted,      \* history: the last revision committed by a local mutation
  sendable     \* history: the revisions that were committed, or whose rollback failed

dbVars   == <<cur, gen, box, resv, wanted, sendable>>
peerVars == <<got, late>>
envVars  == <<crashes, kind>>
vars     == <<cur, revs, gen, box, resv, mu, lock, mut, waiting, sending, flush, got, late,
              crashes, kind, wanted, sendable>>

\* A row, and the attempt that was made for it, are known by their generation.
NoRow    == [gen |-> 0, rev |-> 0]
Rows     == [gen : Nat, rev : Revs]
Attempt(p, row, src) == [peer |-> p, row |-> row, src |-> src]
Attempts == [peer : Peers, row : Rows, src : {"eager", "flush", "join"}]
NoSend   == [phase |-> "none", row |-> NoRow, src |-> "eager"]

\* A mutation: the peer it has reached, its reserved generation, the rows it
\* staged, the rows still to roll back and the rows to deliver at the end.
IdleMut == [pc |-> "idle", rev |-> 0, at |-> 0, gen |-> 0, todo |-> {}, rows |-> {}]

IdleFlush == [pc |-> "idle", todo |-> {}, at |-> 0, row |-> NoRow]

TypeOK ==
  /\ cur \in Revs
  /\ revs \in Revs
  /\ gen \in Nat
  /\ box \in [Peers -> Rows]
  /\ resv \in [Peers -> 0..gen]
  /\ mu \in Mutators \cup {"free"}
  /\ lock \in [Peers -> Mutators \cup {"free", "flush", "deliver"}]
  /\ mut \in [Mutators -> [pc : {"idle", "lock", "put", "apply", "rollback", "reput", "finish"},
                           rev : Revs, at : Peers \cup {0}, gen : 0..gen,
                           todo : SUBSET Attempts, rows : SUBSET Attempts]]
  /\ waiting \subseteq Attempts
  /\ sending \in [Peers -> [phase : {"none", "send", "ack"}, row : Rows,
                            src : {"eager", "flush", "join"}]]
  /\ flush \in [pc : {"idle", "reconcile", "put", "wait"}, todo : SUBSET (Peers \X Rows),
                at : Peers \cup {0}, row : Rows]
  /\ got \in [Peers -> Revs]
  /\ late \in [Peers -> SUBSET Revs]
  /\ kind \in Kinds
  /\ crashes \in 0..kind.maxCrashes
  /\ wanted \in Revs
  /\ sendable \subseteq Revs
  /\ \A p \in Peers : box[p].gen <= gen

Init ==
  /\ cur = 0
  /\ revs = 0
  /\ gen = 0
  /\ box = [p \in Peers |-> NoRow]
  /\ resv = [p \in Peers |-> 0]
  /\ mu = "free"
  /\ lock = [p \in Peers |-> "free"]
  /\ mut = [m \in Mutators |-> IdleMut]
  /\ waiting = {}
  /\ sending = [p \in Peers |-> NoSend]
  /\ flush = IdleFlush
  /\ got = [p \in Peers |-> 0]
  /\ late = [p \in Peers |-> {}]
  /\ crashes = 0
  /\ kind \in Kinds
  /\ wanted = 0
  /\ sendable = {0}

-----------------------------------------------------------------------------
\* stageOutbox: two transactions.

\* Mutant of Reserve: the counter itself is not stored.
ReserveWithoutCounter(p) ==
  /\ gen' = gen
  /\ resv' = [resv EXCEPT ![p] = gen + 1]

\* ReserveOutboxGeneration: a new generation, reserved for the key of p.
Reserve(p) ==
  /\ gen' = gen + 1
  /\ resv' = [resv EXCEPT ![p] = gen + 1]

\* PutOutboxRawIfCurrentGeneration, and ReleaseOutboxGeneration.
PutApplies(p, g) == resv[p] = g

Put(p, row) ==
  IF PutApplies(p, row.gen)
  THEN /\ box' = [box EXCEPT ![p] = row]
       /\ resv' = [resv EXCEPT ![p] = 0]
  ELSE UNCHANGED <<box, resv>>

Release(p, g) == resv' = IF PutApplies(p, g) THEN [resv EXCEPT ![p] = 0] ELSE resv

\* DeleteOutboxEntryIfUnchanged.
DeleteIfUnchanged(p, row) ==
  box' = [box EXCEPT ![p] = IF @ = row THEN NoRow ELSE @]

\* currentNotificationPayload: whether a current revision r is worth a message.
\* An absent service is announced as removed; an absent name is not announced.
Keep(r) == Ordered => r # 0

-----------------------------------------------------------------------------
\* Local mutations: prepareOutboxMutation, apply, finish.

\* Mutant of Targets: the peers in the order of a Go map, another for each caller.
TargetsUnsorted(m) ==
  IF m = CHOOSE x \in Mutators : TRUE
  THEN [i \in Peers |-> i]
  ELSE [i \in Peers |-> NPeers + 1 - i]

\* The peers a mutation stages for, in the order of their IDs.
Targets(m) == [i \in Peers |-> i]

MutBegin(m) ==
  /\ mut[m].pc = "idle"
  /\ m \in kind.callers
  /\ revs < MaxRev
  /\ kind.mutationMu => mu = "free"
  /\ mu' = IF kind.mutationMu THEN m ELSE mu
  /\ revs' = revs + 1
  /\ mut' = [mut EXCEPT ![m] = [IdleMut EXCEPT !.pc = "lock", !.rev = revs + 1,
                                          !.at = Targets(m)[1]]]
  /\ UNCHANGED <<dbVars, lock, waiting, sending, flush, peerVars, envVars>>

\* The delivery lock of the next peer, then the first half of stageOutbox.
MutLock(m) ==
  LET p == mut[m].at
  IN  /\ mut[m].pc = "lock"
      /\ lock[p] = "free"
      /\ lock' = [lock EXCEPT ![p] = m]
      /\ Reserve(p)
      /\ mut' = [mut EXCEPT ![m].pc = "put", ![m].gen = gen + 1]
      /\ UNCHANGED <<cur, revs, box, mu, waiting, sending, flush, peerVars, envVars, wanted,
                     sendable>>

MutPut(m) ==
  LET p   == mut[m].at
      i   == CHOOSE j \in Peers : Targets(m)[j] = p
      row == [gen |-> mut[m].gen, rev |-> mut[m].rev]
  IN  /\ mut[m].pc = "put"
      /\ Put(p, row)
      /\ mut' = [mut EXCEPT
           ![m].pc   = IF i = NPeers THEN "apply" ELSE "lock",
           ![m].at   = IF i = NPeers THEN p ELSE Targets(m)[i + 1],
           ![m].rows = @ \cup (IF PutApplies(p, row.gen) THEN {Attempt(p, row, "eager")} ELSE {})]
      /\ UNCHANGED <<cur, revs, gen, mu, lock, waiting, sending, flush, peerVars, envVars, wanted,
                     sendable>>

\* reconcileCurrent begins: the rows staged so far go back to the current state.
Rollback(m) ==
  mut' = [mut EXCEPT ![m].pc = "rollback", ![m].rev = cur, ![m].todo = mut[m].rows, ![m].rows = {}]

\* The reservation failed: nothing is applied.
MutStageFails(m) ==
  /\ mut[m].pc = "lock"
  /\ lock[mut[m].at] = "free"
  /\ lock' = [lock EXCEPT ![mut[m].at] = m]
  /\ Rollback(m)
  /\ UNCHANGED <<dbVars, revs, mu, waiting, sending, flush, peerVars, envVars>>

\* The put failed, and the reservation is released.
MutPutFails(m) ==
  /\ mut[m].pc = "put"
  /\ Release(mut[m].at, mut[m].gen)
  /\ Rollback(m)
  /\ UNCHANGED <<cur, revs, gen, box, mu, lock, waiting, sending, flush, peerVars, envVars, wanted,
                 sendable>>

\* The metadata transaction, or the save of the catalogue.
MutCommit(m) ==
  /\ mut[m].pc = "apply"
  /\ Ordered => mut[m].rev > cur
  /\ cur' = mut[m].rev
  /\ wanted' = mut[m].rev
  /\ sendable' = sendable \cup {mut[m].rev}
  /\ mut' = [mut EXCEPT ![m].pc = "finish"]
  /\ UNCHANGED <<revs, gen, box, resv, mu, lock, waiting, sending, flush, peerVars, envVars>>

\* It failed, or the revision is no longer newer than the stored one.
MutAbort(m) ==
  /\ mut[m].pc = "apply"
  /\ Rollback(m)
  /\ UNCHANGED <<dbVars, revs, mu, lock, waiting, sending, flush, peerVars, envVars>>

\* Mutant of MutRestage: the rollback drops the row whatever the current state is.
MutRestageDrops(m) ==
  \E a \in mut[m].todo :
    /\ mut[m].pc = "rollback"
    /\ DeleteIfUnchanged(a.peer, a.row)
    /\ mut' = [mut EXCEPT ![m].todo = @ \ {a}]
    /\ UNCHANGED <<cur, revs, gen, resv, mu, lock, waiting, sending, flush, peerVars, envVars,
                   wanted, sendable>>

\* reconcileCurrent, peer by peer: a message of the current state, or none.
MutRestage(m) ==
  \E a \in mut[m].todo :
    /\ mut[m].pc = "rollback"
    /\ \A b \in mut[m].todo : a.peer <= b.peer
    /\ IF Keep(mut[m].rev)
       THEN /\ Reserve(a.peer)
            /\ mut' = [mut EXCEPT ![m].pc = "reput", ![m].at = a.peer, ![m].gen = gen + 1,
                                  ![m].todo = @ \ {a}]
            /\ UNCHANGED box
       ELSE /\ DeleteIfUnchanged(a.peer, a.row)
            /\ mut' = [mut EXCEPT ![m].todo = @ \ {a}]
            /\ UNCHANGED <<gen, resv>>
    /\ UNCHANGED <<cur, revs, mu, lock, waiting, sending, flush, peerVars, envVars, wanted, sendable>>

MutReput(m) ==
  LET p   == mut[m].at
      row == [gen |-> mut[m].gen, rev |-> mut[m].rev]
  IN  /\ mut[m].pc = "reput"
      /\ Put(p, row)
      /\ mut' = [mut EXCEPT
           ![m].pc   = "rollback",
           ![m].rows = @ \cup (IF PutApplies(p, row.gen) THEN {Attempt(p, row, "eager")} ELSE {})]
      /\ UNCHANGED <<cur, revs, gen, mu, lock, waiting, sending, flush, peerVars, envVars, wanted,
                     sendable>>

\* finish: every lock is released, then the given rows are sent.
Finish(m, rows) ==
  /\ lock' = [p \in Peers |-> IF lock[p] = m THEN "free" ELSE lock[p]]
  /\ waiting' = waiting \cup rows
  /\ mut' = [mut EXCEPT ![m] = IdleMut]
  /\ mu' = IF mu = m THEN "free" ELSE mu

MutFinish(m) ==
  /\ \/ mut[m].pc = "finish"
     \/ mut[m].pc = "rollback" /\ mut[m].todo = {}
  /\ Finish(m, mut[m].rows)
  /\ UNCHANGED <<dbVars, revs, sending, flush, peerVars, envVars>>

\* reconcileCurrent fails: the rows stay as they are and nothing is sent now.
MutRollbackFails(m) ==
  /\ kind.rollbackFails
  /\ \/ mut[m].pc = "rollback" /\ mut[m].todo # {} /\ UNCHANGED resv
     \/ mut[m].pc = "reput" /\ Release(mut[m].at, mut[m].gen)
  /\ sendable' = sendable \cup {box[p].rev : p \in {q \in Peers : lock[q] = m}}
  /\ Finish(m, {})
  /\ UNCHANGED <<cur, revs, gen, box, sending, flush, peerVars, envVars, wanted>>

\* A newer revision of another node is applied here.
RemoteApply ==
  /\ Ordered
  /\ revs < MaxRev
  /\ kind.mutationMu => mu = "free"
  /\ revs' = revs + 1
  /\ cur' = revs + 1
  /\ sendable' = sendable \cup {revs + 1}
  /\ UNCHANGED <<gen, box, resv, mu, lock, mut, waiting, sending, flush, peerVars, envVars, wanted>>

-----------------------------------------------------------------------------
\* deliverOutboxAttempt.

Receive(p, r) == [got EXCEPT ![p] = IF Ordered /\ r < @ THEN @ ELSE r]

\* Mutant of DeliverBegin: the attempt is sent without another look at the row.
DeliverBeginUnchecked(a) ==
  /\ a \in waiting
  /\ lock[a.peer] = "free"
  /\ waiting' = waiting \ {a}
  /\ lock' = [lock EXCEPT ![a.peer] = "deliver"]
  /\ sending' = [sending EXCEPT ![a.peer] = [phase |-> "send", row |-> a.row, src |-> a.src]]
  /\ UNCHANGED <<dbVars, revs, mu, mut, flush, peerVars, envVars>>

\* The lock is free; a row that was replaced meanwhile is not sent.
DeliverBegin(a) ==
  LET p == a.peer
  IN  /\ a \in waiting
      /\ lock[p] = "free"
      /\ waiting' = waiting \ {a}
      /\ IF box[p] = a.row
         THEN /\ lock' = [lock EXCEPT ![p] = "deliver"]
              /\ sending' = [sending EXCEPT ![p] =
                   [phase |-> "send", row |-> a.row, src |-> a.src]]
         ELSE UNCHANGED <<lock, sending>>
      /\ UNCHANGED <<dbVars, revs, mu, mut, flush, peerVars, envVars>>

DeliverOK(p) ==
  /\ sending[p].phase = "send"
  /\ got' = Receive(p, sending[p].row.rev)
  /\ sending' = [sending EXCEPT ![p].phase = "ack"]
  /\ UNCHANGED <<dbVars, revs, mu, lock, mut, waiting, flush, late, envVars>>

DeliverEnd(p) ==
  /\ lock' = [lock EXCEPT ![p] = "free"]
  /\ sending' = [sending EXCEPT ![p] = NoSend]

\* Mutant of DeliverFails: the row is removed although the call failed.
DeliverFailsDrops(p) ==
  /\ sending[p].phase = "send"
  /\ DeleteIfUnchanged(p, sending[p].row)
  /\ DeliverEnd(p)
  /\ UNCHANGED <<cur, revs, gen, resv, mu, mut, waiting, flush, peerVars, envVars, wanted, sendable>>

\* Mutant of DeliverFails: the early return forgets to unlock.
DeliverFailsLocked(p) ==
  /\ sending[p].phase = "send"
  /\ sending' = [sending EXCEPT ![p] = NoSend]
  /\ UNCHANGED <<dbVars, revs, mu, lock, mut, waiting, flush, peerVars, envVars>>

\* The peer cannot be reached, or the call times out and may still be applied.
DeliverFails(p) ==
  /\ sending[p].phase = "send"
  /\ late' \in {late, [late EXCEPT ![p] = @ \cup {sending[p].row.rev}]}
  /\ DeliverEnd(p)
  /\ UNCHANGED <<dbVars, revs, mu, mut, waiting, flush, got, envVars>>

DeliverAck(p) ==
  /\ sending[p].phase = "ack"
  /\ DeleteIfUnchanged(p, sending[p].row)
  /\ DeliverEnd(p)
  /\ UNCHANGED <<cur, revs, gen, resv, mu, mut, waiting, flush, peerVars, envVars, wanted, sendable>>

\* The acknowledged row could not be deleted: it will be sent again.
DeliverAckFails(p) ==
  /\ sending[p].phase = "ack"
  /\ DeliverEnd(p)
  /\ UNCHANGED <<dbVars, revs, mu, mut, waiting, flush, peerVars, envVars>>

LateArrival(p, r) ==
  /\ r \in late[p]
  /\ got' = Receive(p, r)
  /\ late' = [late EXCEPT ![p] = @ \ {r}]
  /\ UNCHANGED <<dbVars, revs, mu, lock, mut, waiting, sending, flush, envVars>>

-----------------------------------------------------------------------------
\* flushOutbox, every 200 ms.

FlushStart ==
  /\ flush.pc = "idle"
  /\ \E p \in Peers : box[p] # NoRow
  /\ flush' = [IdleFlush EXCEPT
       !.pc = "reconcile", !.todo = {<<p, box[p]>> : p \in {q \in Peers : box[q] # NoRow}}]
  /\ UNCHANGED <<dbVars, revs, mu, lock, mut, waiting, sending, peerVars, envVars>>

\* Mutant of FlushReconcile: rows are kept as they are.
FlushKeepsRows(p) ==
  \E row \in {e[2] : e \in flush.todo} :
    /\ flush.pc = "reconcile"
    /\ <<p, row>> \in flush.todo
    /\ lock[p] = "free"
    /\ flush' = [flush EXCEPT !.todo = @ \ {<<p, row>>}]
    /\ UNCHANGED <<dbVars, revs, mu, lock, mut, waiting, sending, peerVars, envVars>>

\* reconcileActiveOutbox, for one listed row, under its lock.
FlushReconcile(p) ==
  \E row \in {e[2] : e \in flush.todo} :
    /\ flush.pc = "reconcile"
    /\ <<p, row>> \in flush.todo
    /\ lock[p] = "free"
    /\ IF ~Keep(cur)
       THEN /\ DeleteIfUnchanged(p, row)
            /\ flush' = [flush EXCEPT !.todo = @ \ {<<p, row>>}]
            /\ UNCHANGED <<gen, resv, lock>>
       ELSE IF row.rev = cur
       THEN /\ flush' = [flush EXCEPT !.todo = @ \ {<<p, row>>}]
            /\ UNCHANGED <<gen, resv, lock, box>>
       ELSE /\ Reserve(p)
            /\ lock' = [lock EXCEPT ![p] = "flush"]
            /\ flush' = [flush EXCEPT !.pc = "put", !.todo = @ \ {<<p, row>>}, !.at = p,
                                      !.row = [gen |-> gen + 1, rev |-> cur]]
            /\ UNCHANGED box
    /\ UNCHANGED <<cur, revs, mu, mut, waiting, sending, peerVars, envVars, wanted, sendable>>

FlushPut ==
  /\ flush.pc = "put"
  /\ Put(flush.at, flush.row)
  /\ lock' = [lock EXCEPT ![flush.at] = "free"]
  /\ flush' = [flush EXCEPT !.pc = "reconcile", !.at = 0, !.row = NoRow]
  /\ UNCHANGED <<cur, revs, gen, mu, mut, waiting, sending, peerVars, envVars, wanted, sendable>>

\* Mutant of FlushFails: the single-flight flag stays set.
FlushFailsBusy ==
  /\ flush.pc = "reconcile"
  /\ flush' = [IdleFlush EXCEPT !.pc = "busy"]
  /\ UNCHANGED <<dbVars, revs, mu, lock, mut, waiting, sending, peerVars, envVars>>

\* A read or a transaction of the reconciliation failed, before anything changed.
FlushFails ==
  /\ flush.pc = "reconcile"
  /\ flush' = IdleFlush
  /\ UNCHANGED <<dbVars, revs, mu, lock, mut, waiting, sending, peerVars, envVars>>

\* The rows are listed again, and each of them is delivered.
FlushDeliver ==
  /\ flush.pc = "reconcile"
  /\ flush.todo = {}
  /\ waiting' = waiting \cup {Attempt(p, box[p], "flush") : p \in {q \in Peers : box[q] # NoRow}}
  /\ flush' = [flush EXCEPT !.pc = "wait"]
  /\ UNCHANGED <<dbVars, revs, mu, lock, mut, sending, peerVars, envVars>>

FlushDone ==
  /\ flush.pc = "wait"
  /\ \A a \in waiting : a.src # "flush"
  /\ \A p \in Peers : sending[p].phase # "none" => sending[p].src # "flush"
  /\ flush' = IdleFlush
  /\ UNCHANGED <<dbVars, revs, mu, lock, mut, waiting, sending, peerVars, envVars>>

-----------------------------------------------------------------------------
\* The process dies and restarts: clearTransientOutboxReservations.
Crash ==
  /\ crashes < kind.maxCrashes
  /\ crashes' = crashes + 1
  /\ resv' = [p \in Peers |-> 0]
  /\ mu' = "free"
  /\ lock' = [p \in Peers |-> "free"]
  /\ mut' = [m \in Mutators |-> IdleMut]
  /\ waiting' = {}
  /\ sending' = [p \in Peers |-> NoSend]
  /\ flush' = IdleFlush
  /\ late' = [p \in Peers |-> late[p] \cup
       (IF sending[p].phase = "send" THEN {sending[p].row.rev} ELSE {})]
  /\ UNCHANGED <<cur, revs, gen, box, got, kind, wanted, sendable>>

MutStep(m) ==
  \/ MutPut(m) \/ MutPutFails(m) \/ MutCommit(m) \/ MutAbort(m)
  \/ MutRestage(m) \/ MutReput(m) \/ MutRollbackFails(m) \/ MutFinish(m)

Next ==
  \/ \E m \in Mutators :
       MutBegin(m) \/ MutLock(m) \/ MutStageFails(m) \/ MutStep(m)
  \/ RemoteApply
  \/ \E a \in waiting : DeliverBegin(a)
  \/ \E p \in Peers :
       \/ DeliverOK(p) \/ DeliverFails(p) \/ DeliverAck(p) \/ DeliverAckFails(p)
       \/ FlushReconcile(p)
       \/ \E r \in late[p] : LateArrival(p, r)
  \/ FlushStart
  \/ FlushPut
  \/ FlushFails
  \/ FlushDeliver
  \/ FlushDone
  \/ Crash

Spec == Init /\ [][Next]_vars

(***************************************************************************)
(* Goroutines that can run do run (WF); one that waits for a mutex gets it *)
(* (SF: sync.Mutex hands a starving waiter the lock); the 200 ms ticker    *)
(* keeps starting flushes, which now and then read and write the database  *)
(* without an error; and a peer that is tried again and again is reached.  *)
(***************************************************************************)
Fairness ==
  /\ \A m \in Mutators : /\ WF_vars(MutStep(m))
                         /\ SF_vars(MutLock(m))
  /\ \A p \in Peers :
       /\ SF_vars(\E a \in waiting : a.peer = p /\ DeliverBegin(a))
       /\ SF_vars(DeliverOK(p))
       /\ WF_vars(DeliverFails(p))
       /\ SF_vars(DeliverAck(p))
       /\ SF_vars(FlushReconcile(p))
  /\ WF_vars(FlushStart)
  /\ WF_vars(FlushPut)
  /\ SF_vars(FlushDeliver)
  /\ WF_vars(FlushDone)

-----------------------------------------------------------------------------
\* What peer p has is not what the last local mutation committed.
Behind(p) == IF Ordered THEN got[p] < wanted ELSE got[p] # wanted

(***************************************************************************)
(* No committed mutation is lost: as long as a peer lacks it, a durable    *)
(* row for that peer exists, whatever crashes, failed calls, rollbacks of  *)
(* other mutations and concurrent deliveries do to the outbox.             *)
(* (prepareOutboxMutation stages before the commit; reconcileCurrent and   *)
(* DeleteOutboxEntryIfUnchanged keep what is still owed.)                  *)
(***************************************************************************)
NoLostUpdate == \A p \in Peers : Behind(p) => box[p] # NoRow

(***************************************************************************)
(* A peer never applies a revision that was staged and did not commit: not *)
(* after a failed mutation, and not after a crash between the staging and  *)
(* the commit, when the first flush replaces the row before it is sent.    *)
(* Only a rollback that fails itself leaves a row that a flush, already    *)
(* past its reconciliation, may send.                                      *)
(***************************************************************************)
NoUncommittedDelivery ==
  \A p \in Peers : {got[p]} \cup late[p] \subseteq sendable

(***************************************************************************)
(* Every committed local mutation reaches every peer, or is overtaken by a *)
(* newer revision there.                                                   *)
(***************************************************************************)
EventuallyDelivered ==
  \A p \in Peers, r \in Revs : (wanted = r) ~> (got[p] >= r)

(***************************************************************************)
(* Two mutations of the same entity, each of which collects the delivery   *)
(* locks of all peers, never hold what the other waits for: the locks are  *)
(* taken in the order of the peer IDs.                                     *)
(***************************************************************************)
NoCircularWait ==
  \A m, n \in Mutators :
    ~ /\ m # n
      /\ mut[m].pc = "lock" /\ lock[mut[m].at] = n
      /\ mut[n].pc = "lock" /\ lock[mut[n].at] = m

(***************************************************************************)
(* A mutation ends, committed or rolled back: it does not wait for ever    *)
(* for a delivery lock, which deliveries hold during their call and which  *)
(* the flush and other mutations take too.                                 *)
(***************************************************************************)
MutationsEnd == \A m \in Mutators : (mut[m].pc # "idle") ~> (mut[m].pc = "idle")

=============================================================================
