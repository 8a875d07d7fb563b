----------------------------- MODULE OutboxProofs -----------------------------
(***************************************************************************)
(* What module Outbox guarantees, for any number of peers, mutators, kinds *)
(* and revisions: the invariant of module OutboxMutationProofs is kept by  *)
(* writes from other nodes, deliveries, the flush and crashes too, and     *)
(* implies the properties.                                                 *)
(***************************************************************************)
EXTENDS OutboxMutationProofs

\* The time a leaf may take, by default.
USE ZenonT(5), SMTT(60)

-----------------------------------------------------------------------------
\* A mutation at rest.
LEMMA AtRest ==
  ASSUME NEW g \in Nat PROVE IdleMut \in MutStates(g) /\ IdleMut.pc = "idle" /\ IdleMut.rev = 0
BY OutboxAssumption DEF IdleMut, MutStates, Revs

\* A mutation that puts a row holds the lock of its peer.
LEMMA LocksHeld ==
  ASSUME LockInv
  PROVE  \A m \in Mutators :
           mut[m].pc \in {"put", "reput"} => mut[m].at \in Peers /\ lock[mut[m].at] = m
<1> SUFFICES ASSUME NEW m \in Mutators, mut[m].pc \in {"put", "reput"}
             PROVE  mut[m].at \in Peers /\ lock[mut[m].at] = m
  OBVIOUS
<1>1. MutLocks(m)
  BY DEF LockInv
<1> QED BY <1>1 DEF MutLocks, Peers

\* Steps that take and give up locks for deliveries and the flush only leave the
\* mutations theirs.
LEMMA LocksKept ==
  ASSUME LockInv, mut' = mut,
         \A m \in Mutators, q \in Peers : lock'[q] = m <=> lock[q] = m,
         \A q \in Peers : lock'[q] = "deliver" <=> sending'[q].phase # "none",
         \A q \in Peers : lock'[q] = "flush" <=> (flush'.pc = "put" /\ flush'.at = q),
         flush'.pc = "put" => flush'.at \in Peers
  PROVE  LockInv'
<1>1. ASSUME NEW m \in Mutators PROVE MutLocks(m)'
  <2>1. MutLocks(m)
    BY DEF LockInv
  <2>2. mut[m].pc = "reput" => lock'[mut[m].at] = m
    BY <2>1 DEF MutLocks
  <2> QED BY <2>1, <2>2 DEF MutLocks
<1> QED BY <1>1 DEF LockInv

-----------------------------------------------------------------------------
\* A write received from another node only adds a committed revision.
LEMMA RemoteApplyInv == ASSUME IInv, RemoteApply PROVE IInv'
<1>0. /\ TypeOK /\ LockInv /\ RowsInv /\ ResvInv /\ SafeInv /\ OwedInv
      /\ (kind.mutationMu => mu = "free") /\ revs < MaxRev /\ revs' = revs + 1 /\ cur' = revs + 1
      /\ sendable' = sendable \cup {revs + 1}
      /\ UNCHANGED <<gen, box, resv, mu, lock, mut, waiting, sending, flush, got, late, crashes,
                     kind, wanted>>
  BY DEF IInv, RemoteApply, peerVars, envVars
<1>1. revs + 1 \in Revs
  BY <1>0, OutboxAssumption DEF TypeOK, Revs
<1>2. TypeOK'
  BY <1>0, <1>1 DEF TypeOK
<1>3. LockInv' /\ RowsInv' /\ ResvInv'
  <2>1. LockInv'
    BY <1>0, LocksKept DEF LockInv
  <2>2. RowsInv'
    BY <1>0 DEF RowsInv, RowsOK, InPlace
  <2>3. ResvInv'
    BY <1>0 DEF ResvInv
  <2> QED BY <2>1, <2>2, <2>3
<1>4. SafeInv'
  BY <1>0 DEF SafeInv, Staged, Unsent
<1>5. OwedInv'
  <2>1. ASSUME Owing, NEW n \in Mutators PROVE MutOwed(n)'
    BY <1>0, <2>1, MutatorsDistinct DEF OwedInv, MutOwed, TypeOK, Revs, Staging
  <2> QED BY <1>0, <2>1 DEF OwedInv, Owing, Owed, Staged, Unsent, TypeOK, Revs
<1> QED BY <1>2, <1>3, <1>4, <1>5 DEF IInv

-----------------------------------------------------------------------------
\* Deliveries.  While one holds the lock of p, no mutation has a row of p staged.

\* Steps of deliveries and of the flush leave alone what the mutations have locked.
LEMMA RowsKept ==
  ASSUME TypeOK, LockInv, RowsInv, mut' = mut, sendable' = sendable,
         \A m \in Mutators, q \in Peers : /\ lock'[q] = m <=> lock[q] = m
                                          /\ lock[q] = m => box'[q] = box[q]
  PROVE  RowsInv'
<1> SUFFICES ASSUME NEW m \in Mutators PROVE RowsOK(m)'
  BY DEF RowsInv
<1>1. RowsOK(m) /\ mut[m].rows \subseteq Attempts /\ mut[m].todo \subseteq Attempts
  BY DEF RowsInv, TypeOK
<1>2. \A b \in Attempts : /\ lock'[b.peer] = m <=> lock[b.peer] = m
                          /\ lock[b.peer] = m => box'[b.peer] = box[b.peer]
  BY DEF Attempts
<1>3. /\ InPlace(m, mut[m].rows) => InPlace(m, mut[m].rows)'
      /\ InPlace(m, mut[m].todo) => InPlace(m, mut[m].todo)'
  BY <1>1, <1>2 DEF InPlace
<1>4. mut[m].pc = "reput" => box'[mut[m].at] = box[mut[m].at]
  BY LocksHeld
<1> QED BY <1>1, <1>2, <1>3, <1>4 DEF RowsOK

\* A delivery starts when the peer's lock is free: its row is the stored one, or it is dropped.
LEMMA DeliverBeginInv == ASSUME IInv, NEW a \in waiting, DeliverBegin(a) PROVE IInv'
<1> DEFINE p == a.peer
<1>0. /\ TypeOK /\ LockInv /\ RowsInv /\ ResvInv /\ SafeInv /\ OwedInv
      /\ lock[p] = "free"
      /\ waiting' = waiting \ {a}
      /\ IF box[p] = a.row
         THEN /\ lock' = [lock EXCEPT ![p] = "deliver"]
              /\ sending' = [sending EXCEPT ![p] =
                   [phase |-> "send", row |-> a.row, src |-> a.src]]
         ELSE lock' = lock /\ sending' = sending
      /\ UNCHANGED <<cur, revs, gen, box, resv, mu, mut, flush, got, late, crashes, kind, wanted,
                     sendable>>
  BY DEF IInv, DeliverBegin, dbVars, peerVars, envVars
<1>a. /\ p \in Peers /\ a.row \in Rows /\ a.src \in {"eager", "flush", "join"}
  BY <1>0 DEF TypeOK, Attempts
<1>1. TypeOK'
  <2>1. /\ lock' \in [Peers -> Mutators \cup {"free", "flush", "deliver"}]
        /\ sending' \in [Peers -> [phase : {"none", "send", "ack"}, row : Rows,
                                   src : {"eager", "flush", "join"}]]
    <3> DEFINE rec == [phase |-> "send", row |-> a.row, src |-> a.src]
    <3>1. rec \in [phase : {"none", "send", "ack"}, row : Rows, src : {"eager", "flush", "join"}]
      BY <1>a
    <3> HIDE DEF rec
    <3>2. CASE box[p] # a.row
      BY <1>0, <3>2 DEF TypeOK
    <3>3. CASE box[p] = a.row
      <4>1. lock' = [lock EXCEPT ![p] = "deliver"] /\ sending' = [sending EXCEPT ![p] = rec]
        BY <1>0, <3>3 DEF rec
      <4> QED BY <1>0, <3>1, <4>1, Zenon DEF TypeOK
    <3> QED BY <3>2, <3>3
  <2> QED BY <1>0, <2>1 DEF TypeOK
<1>2. CASE box[p] # a.row
  <2>1. LockInv' /\ RowsInv' /\ ResvInv'
    <3>1. LockInv'
      BY <1>0, <1>2, LocksKept DEF LockInv
    <3>2. RowsInv'
      BY <1>0, <1>2 DEF RowsInv, RowsOK, InPlace
    <3>3. ResvInv'
      BY <1>0, <1>2 DEF ResvInv
    <3> QED BY <3>1, <3>2, <3>3
  <2>2. SafeInv'
    BY <1>0, <1>2 DEF SafeInv, Staged, Unsent
  <2>3. OwedInv'
    BY <1>0, <1>2 DEF OwedInv, Owing, MutOwed, Owed, Staged, Unsent
  <2> QED BY <1>1, <2>1, <2>2, <2>3 DEF IInv
<1>3. CASE box[p] = a.row
  <2>1. /\ lock' = [lock EXCEPT ![p] = "deliver"]
        /\ sending'[p].phase = "send" /\ sending'[p].row = box[p]
        /\ \A q \in Peers : q # p => sending'[q] = sending[q] /\ lock'[q] = lock[q]
        /\ \A m \in Mutators, q \in Peers : lock'[q] = m <=> lock[q] = m
    BY <1>0, <1>a, <1>3, MutatorsDistinct DEF TypeOK
  <2>2. LockInv'
    <3>1. \A q \in Peers : /\ lock'[q] = "deliver" <=> sending'[q].phase # "none"
                           /\ lock'[q] = "flush" <=> (flush.pc = "put" /\ flush.at = q)
      BY <1>0, <1>a, <2>1 DEF LockInv, TypeOK
    <3>2. flush'.pc = "put" => flush'.at \in Peers
      BY <1>0 DEF LockInv
    <3> QED BY <1>0, <2>1, <3>1, <3>2, LocksKept
  <2>3. RowsInv'
    BY <1>0, <2>1, RowsKept
  <2>4. ResvInv'
    BY <1>0 DEF ResvInv
  <2>5. SafeInv' /\ OwedInv'
    <3>1. ~Staged(p) /\ ~Unsent(p)
      BY <1>0, <1>3, MutatorsDistinct DEF Staged, Unsent
    <3>2. ASSUME NEW q \in Peers, q # p PROVE (Staged(q) => Staged(q)') /\ (Unsent(q) => Unsent(q)')
      BY <1>0, <2>1, <3>2 DEF Staged, Unsent
    <3>3. SafeInv'
      BY <1>0, <1>a, <2>1, <3>1, <3>2 DEF SafeInv
    <3>4. OwedInv'
      BY <1>0, <1>a, <2>1, <3>1, <3>2 DEF OwedInv, Owing, MutOwed, Owed
    <3> QED BY <3>3, <3>4
  <2> QED BY <1>1, <2>2, <2>3, <2>4, <2>5 DEF IInv
<1> QED BY <1>2, <1>3

\* What a peer applies is what it was sent or what it had.
LEMMA ReceiveTyped ==
  ASSUME TypeOK, NEW p \in Peers, NEW r \in Revs
  PROVE  /\ Receive(p, r) \in [Peers -> Revs]
         /\ \A q \in Peers : Receive(p, r)[q] \in {got[q], r}
         /\ Ordered => \A q \in Peers : Receive(p, r)[q] >= got[q] /\ Receive(p, r)[p] >= r
BY DEF TypeOK, Receive, Revs

\* The peer receives a row: it was committed, and the peer's revision never goes back.
LEMMA DeliverOKInv == ASSUME IInv, NEW p \in Peers, DeliverOK(p) PROVE IInv'
<1> DEFINE r == sending[p].row.rev
<1>0. /\ TypeOK /\ LockInv /\ RowsInv /\ ResvInv /\ SafeInv /\ OwedInv
      /\ sending[p].phase = "send"
      /\ got' = Receive(p, r)
      /\ sending' = [sending EXCEPT ![p].phase = "ack"]
      /\ UNCHANGED <<cur, revs, gen, box, resv, mu, lock, mut, waiting, flush, late, crashes, kind,
                     wanted, sendable>>
  BY DEF IInv, DeliverOK, dbVars, envVars
<1>1. /\ sending' \in [Peers -> [phase : {"none", "send", "ack"}, row : Rows,
                                 src : {"eager", "flush", "join"}]]
      /\ \A q \in Peers : sending'[q].row = sending[q].row
      /\ \A q \in Peers : sending'[q].phase = "none" <=> sending[q].phase = "none"
  BY <1>0, Zenon DEF TypeOK
<1>2. r \in Revs /\ r \in sendable
  BY <1>0 DEF TypeOK, Rows, SafeInv
<1>3. /\ got' \in [Peers -> Revs]
      /\ \A q \in Peers : got'[q] \in {got[q], r}
      /\ Ordered => \A q \in Peers : got'[q] >= got[q] /\ got'[p] >= r
  BY <1>0, <1>2, ReceiveTyped
<1>4. TypeOK'
  BY <1>0, <1>1, <1>3 DEF TypeOK
<1>5. LockInv' /\ RowsInv' /\ ResvInv'
  <2>1. LockInv'
    BY <1>0, <1>1, LocksKept DEF LockInv
  <2>2. RowsInv'
    BY <1>0, <1>1 DEF RowsInv, RowsOK, InPlace
  <2>3. ResvInv'
    BY <1>0, <1>1 DEF ResvInv
  <2> QED BY <2>1, <2>2, <2>3
<1>6. SafeInv' /\ OwedInv'
  <2>1. ASSUME NEW q \in Peers PROVE (Staged(q) => Staged(q)') /\ (Unsent(q) => Unsent(q)')
    BY <1>0, <1>1 DEF Staged, Unsent
  <2>2. \A q \in Peers : got'[q] \in sendable
    BY <1>0, <1>2, <1>3 DEF SafeInv
  <2>3. SafeInv'
    BY <1>0, <1>1, <2>1, <2>2 DEF SafeInv
  <2>4. ASSUME Owing, NEW q \in Peers
        PROVE  Owed(q)' /\ (sending'[q].phase = "ack" => got'[q] >= sending'[q].row.rev)
    <3>1. got'[q] >= got[q] /\ got[q] \in Revs /\ got'[q] \in Revs /\ wanted \in Revs
          /\ sending[q].row.rev \in Revs
      BY <1>0, <1>3, <2>4 DEF Owing, TypeOK, Rows
    <3>2. q # p => sending'[q] = sending[q]
      BY <1>0 DEF TypeOK
    <3> QED BY <1>0, <1>1, <1>3, <2>1, <2>4, <3>1, <3>2 DEF OwedInv, Owed, Owing, Revs
  <2>5. OwedInv'
    BY <1>0, <2>4 DEF OwedInv, Owing, MutOwed
  <2> QED BY <2>3, <2>5
<1> QED BY <1>4, <1>5, <1>6 DEF IInv

\* A row whose sender gave up still arrives: it was committed when it was sent.
LEMMA LateArrivalInv == ASSUME IInv, NEW p \in Peers, NEW r \in late[p], LateArrival(p, r) PROVE IInv'
<1>0. /\ TypeOK /\ LockInv /\ RowsInv /\ ResvInv /\ SafeInv /\ OwedInv
      /\ got' = Receive(p, r)
      /\ late' = [late EXCEPT ![p] = @ \ {r}]
      /\ UNCHANGED <<cur, revs, gen, box, resv, mu, lock, mut, waiting, sending, flush, crashes,
                     kind, wanted, sendable>>
  BY DEF IInv, LateArrival, dbVars, envVars
<1>1. r \in Revs /\ r \in sendable
  BY <1>0 DEF TypeOK, SafeInv
<1>2. /\ got' \in [Peers -> Revs]
      /\ \A q \in Peers : got'[q] \in {got[q], r}
      /\ Ordered => \A q \in Peers : got'[q] >= got[q]
  BY <1>0, <1>1, ReceiveTyped
<1>3. late' \in [Peers -> SUBSET Revs] /\ \A q \in Peers : late'[q] \subseteq late[q]
  BY <1>0 DEF TypeOK
<1>4. TypeOK'
  BY <1>0, <1>2, <1>3 DEF TypeOK
<1>5. LockInv' /\ RowsInv' /\ ResvInv'
  <2>1. LockInv'
    BY <1>0, LocksKept DEF LockInv
  <2>2. RowsInv'
    BY <1>0 DEF RowsInv, RowsOK, InPlace
  <2>3. ResvInv'
    BY <1>0 DEF ResvInv
  <2> QED BY <2>1, <2>2, <2>3
<1>6. SafeInv' /\ OwedInv'
  <2>1. ASSUME NEW q \in Peers PROVE (Staged(q) => Staged(q)') /\ (Unsent(q) => Unsent(q)')
    BY <1>0 DEF Staged, Unsent
  <2>2. \A q \in Peers : got'[q] \in sendable
    BY <1>0, <1>1, <1>2 DEF SafeInv
  <2>3. SafeInv'
    BY <1>0, <1>3, <2>1, <2>2 DEF SafeInv
  <2>4. ASSUME Owing, NEW q \in Peers
        PROVE  Owed(q)' /\ (sending[q].phase = "ack" => got'[q] >= sending[q].row.rev)
    <3>1. got'[q] >= got[q] /\ got[q] \in Revs /\ got'[q] \in Revs /\ wanted \in Revs
          /\ sending[q].row.rev \in Revs
      BY <1>0, <1>2, <2>4 DEF Owing, TypeOK, Rows
    <3> QED BY <1>0, <2>1, <2>4, <3>1 DEF OwedInv, Owed, Revs
  <2>5. OwedInv'
    BY <1>0, <2>4 DEF OwedInv, Owing, MutOwed
  <2> QED BY <2>3, <2>5
<1> QED BY <1>4, <1>5, <1>6 DEF IInv

\* The end of a delivery: its lock is free again, and its row may be gone.
DeliveryEnds(p) ==
  /\ sending[p].phase # "none"
  /\ DeliverEnd(p)
  /\ \/ box' = box
     \/ /\ sending[p].phase = "ack" /\ sending[p].row = box[p]
        /\ box' = [box EXCEPT ![p] = NoRow]
  /\ late' \in {late, [late EXCEPT ![p] = @ \cup {sending[p].row.rev}]}
  /\ UNCHANGED <<cur, revs, gen, resv, mu, mut, waiting, flush, got, crashes, kind, wanted,
                 sendable>>

\* What is staged or unsent for a peer that a step leaves alone stays so.
LEMMA Untouched ==
  ASSUME NEW q \in Peers, mut' = mut, waiting' = waiting, flush' = flush,
         lock'[q] = lock[q], box'[q] = box[q], sending'[q] = sending[q]
  PROVE  (Staged(q) => Staged(q)') /\ (Unsent(q) => Unsent(q)')
BY DEF Staged, Unsent

\* A delivery that ends removes at most the row the peer acknowledged.
LEMMA DeliverEndInv ==
  ASSUME IInv, NEW p \in Peers, DeliveryEnds(p) PROVE IInv'
<1>0. /\ TypeOK /\ LockInv /\ RowsInv /\ ResvInv /\ SafeInv /\ OwedInv
      /\ sending[p].phase # "none" /\ lock[p] = "deliver" /\ DeliverEnd(p)
      /\ UNCHANGED <<cur, revs, gen, resv, mu, mut, waiting, flush, got, crashes, kind, wanted,
                     sendable>>
  BY DEF IInv, LockInv, DeliveryEnds
<1>a. \/ box' = box
      \/ /\ sending[p].phase = "ack" /\ sending[p].row = box[p]
         /\ box' = [box EXCEPT ![p] = NoRow]
  BY DEF DeliveryEnds
<1>b. late' \in {late, [late EXCEPT ![p] = @ \cup {sending[p].row.rev}]}
  BY DEF DeliveryEnds
<1>1. /\ lock' \in [Peers -> Mutators \cup {"free", "flush", "deliver"}]
      /\ sending' \in [Peers -> [phase : {"none", "send", "ack"}, row : Rows,
                                 src : {"eager", "flush", "join"}]]
      /\ lock'[p] = "free" /\ sending'[p].phase = "none"
      /\ \A q \in Peers : q # p => sending'[q] = sending[q] /\ lock'[q] = lock[q]
      /\ \A m \in Mutators, q \in Peers : lock'[q] = m <=> lock[q] = m
  <2>1. NoSend \in [phase : {"none", "send", "ack"}, row : Rows, src : {"eager", "flush", "join"}]
    BY OutboxAssumption DEF NoSend, NoRow, Rows, Revs
  <2>2. NoSend.phase = "none"
    BY DEF NoSend
  <2> QED BY <1>0, <2>1, <2>2, MutatorsDistinct DEF DeliverEnd, TypeOK
<1>2. /\ box' \in [Peers -> Rows]
      /\ box'[p] \in {box[p], NoRow}
      /\ \A q \in Peers : q # p => box'[q] = box[q]
      /\ \A q \in Peers : box'[q].gen <= gen
      /\ NoRow.rev = 0
  <2>1. NoRow \in Rows /\ NoRow.gen = 0 /\ NoRow.rev = 0
    BY OutboxAssumption DEF NoRow, Rows, Revs
  <2>2. CASE box' = box
    BY <1>0, <2>1, <2>2 DEF TypeOK
  <2>3. CASE box' = [box EXCEPT ![p] = NoRow]
    BY <1>0, <2>1, <2>3 DEF TypeOK
  <2> QED BY <1>a, <2>2, <2>3
<1>3. late' \in [Peers -> SUBSET Revs] /\ \A q \in Peers : late'[q] \subseteq sendable
  <2>1. sending[p].row.rev \in Revs /\ sending[p].row.rev \in sendable
    BY <1>0 DEF TypeOK, Rows, SafeInv
  <2>2. CASE late' = late
    BY <1>0, <2>2 DEF TypeOK, SafeInv
  <2>3. CASE late' = [late EXCEPT ![p] = @ \cup {sending[p].row.rev}]
    BY <1>0, <2>1, <2>3 DEF TypeOK, SafeInv
  <2> QED BY <1>b, <2>2, <2>3
<1>4. TypeOK'
  BY <1>0, <1>1, <1>2, <1>3 DEF TypeOK
<1>5. LockInv'
  <2>1. \A q \in Peers : /\ lock'[q] = "deliver" <=> sending'[q].phase # "none"
                         /\ lock'[q] = "flush" <=> (flush.pc = "put" /\ flush.at = q)
    BY <1>0, <1>1 DEF LockInv
  <2>2. flush'.pc = "put" => flush'.at \in Peers
    BY <1>0 DEF LockInv
  <2> QED BY <1>0, <1>1, <2>1, <2>2, LocksKept
<1>6. RowsInv'
  <2>1. \A m \in Mutators, q \in Peers : lock[q] = m => box'[q] = box[q]
    BY <1>0, <1>2, MutatorsDistinct
  <2> QED BY <1>0, <1>1, <2>1, RowsKept
<1>7. ResvInv'
  BY <1>0 DEF ResvInv
<1>8. SafeInv' /\ OwedInv'
  <2>1. ~Staged(p) /\ ~Unsent(p)
    BY <1>0, MutatorsDistinct DEF Staged, Unsent
  <2>2. ASSUME NEW q \in Peers, q # p PROVE (Staged(q) => Staged(q)') /\ (Unsent(q) => Unsent(q)')
    <3>1. /\ mut' = mut /\ waiting' = waiting /\ flush' = flush
          /\ lock'[q] = lock[q] /\ box'[q] = box[q] /\ sending'[q] = sending[q]
      BY <1>0, <1>1, <1>2, <2>2
    <3> QED BY <3>1, Untouched
  <2>3. SafeInv'
    BY <1>0, <1>1, <1>2, <1>3, <2>1, <2>2, Zenon DEF SafeInv
  <2>4. ASSUME Owing PROVE got[p] >= wanted \/ box'[p].rev >= wanted
    <3>1. /\ got[p] >= wanted \/ box[p].rev >= wanted
          /\ sending[p].phase = "ack" => got[p] >= sending[p].row.rev
      BY <1>0, <2>1, <2>4, Zenon DEF OwedInv, Owed
    <3>2. got[p] \in Revs /\ wanted \in Revs /\ box[p].rev \in Revs
      BY <1>0 DEF TypeOK, Rows
    <3>3. box' = box \/ (sending[p].phase = "ack" /\ sending[p].row = box[p])
      BY <1>a
    <3> QED BY <3>1, <3>2, <3>3 DEF Revs
  <2>5. \A m \in Mutators : mut[m].pc = "reput" => box'[mut[m].at] = box[mut[m].at]
    BY <1>0, <1>2, MutatorsDistinct, LocksHeld
  <2>6. OwedInv'
    BY <1>0, <1>1, <1>2, <2>2, <2>4, <2>5, Zenon DEF OwedInv, Owing, MutOwed, Owed
  <2> QED BY <2>3, <2>6
<1> QED BY <1>4, <1>5, <1>6, <1>7, <1>8 DEF IInv

\* The three ways in which a delivery ends.
LEMMA DeliverEndsInv ==
  ASSUME IInv, NEW p \in Peers, DeliverFails(p) \/ DeliverAck(p) \/ DeliverAckFails(p)
  PROVE  IInv'
<1>1. /\ sending[p].phase # "none" /\ DeliverEnd(p)
      /\ late' \in {late, [late EXCEPT ![p] = @ \cup {sending[p].row.rev}]}
      /\ UNCHANGED <<cur, revs, gen, resv, mu, mut, waiting, flush, got, crashes, kind, wanted,
                     sendable>>
  BY Zenon DEF DeliverFails, DeliverAck, DeliverAckFails, dbVars, peerVars, envVars
<1>2. \/ box' = box
      \/ /\ sending[p].phase = "ack" /\ sending[p].row = box[p]
         /\ box' = [box EXCEPT ![p] = NoRow]
  <2>1. box \in [Peers -> Rows]
    BY DEF IInv, TypeOK
  <2> QED BY <2>1 DEF DeliverFails, DeliverAck, DeliverAckFails, DeleteIfUnchanged, dbVars
<1>3. DeliveryEnds(p)
  BY <1>1, <1>2 DEF DeliveryEnds
<1> QED BY <1>3, DeliverEndInv

-----------------------------------------------------------------------------
\* The flush.

\* Steps of the flush that change nothing but the flush itself and what waits to be sent.
LEMMA FlushMovesInv ==
  ASSUME IInv, FlushStart \/ FlushFails \/ FlushDeliver \/ FlushDone
  PROVE  IInv'
<1>0. /\ TypeOK /\ LockInv /\ RowsInv /\ ResvInv /\ SafeInv /\ OwedInv
      /\ flush.pc # "put"
      /\ UNCHANGED <<cur, revs, gen, box, resv, mu, lock, mut, sending, got, late, crashes, kind,
                     wanted, sendable>>
  BY DEF IInv, FlushStart, FlushFails, FlushDeliver, FlushDone, dbVars, peerVars, envVars
<1>1. /\ flush' \in [pc : {"idle", "reconcile", "put", "wait"}, todo : SUBSET (Peers \X Rows),
                     at : Peers \cup {0}, row : Rows]
      /\ flush'.pc # "put"
      /\ flush'.pc \in {"idle", "wait"} => flush'.todo = {}
  <2>1. IdleFlush \in [pc : {"idle", "reconcile", "put", "wait"}, todo : SUBSET (Peers \X Rows),
                       at : Peers \cup {0}, row : Rows]
        /\ IdleFlush.pc = "idle" /\ IdleFlush.todo = {}
    BY OutboxAssumption DEF IdleFlush, NoRow, Rows, Revs
  <2>2. CASE FlushStart
    <3>1. {<<p, box[p]>> : p \in {q \in Peers : box[q] # NoRow}} \in SUBSET (Peers \X Rows)
      BY <1>0 DEF TypeOK
    <3> QED BY <2>1, <2>2, <3>1 DEF FlushStart
  <2>3. CASE FlushFails \/ FlushDone
    BY <2>1, <2>3 DEF FlushFails, FlushDone
  <2>4. CASE FlushDeliver
    BY <1>0, <2>4, Zenon DEF FlushDeliver, TypeOK
  <2> QED BY <2>2, <2>3, <2>4
<1>2. waiting' \subseteq Attempts
  <2>1. CASE FlushDeliver
    <3>1. \A p \in Peers : Attempt(p, box[p], "flush") \in Attempts
      BY <1>0 DEF TypeOK, Attempt, Attempts
    <3> QED BY <1>0, <2>1, <3>1 DEF FlushDeliver, TypeOK
  <2>2. CASE ~FlushDeliver
    BY <1>0, <2>2 DEF FlushStart, FlushFails, FlushDone, TypeOK
  <2> QED BY <2>1, <2>2
<1>3. TypeOK'
  BY <1>0, <1>1, <1>2 DEF TypeOK
<1>4. LockInv' /\ RowsInv' /\ ResvInv'
  <2>1. LockInv'
    BY <1>0, <1>1, LocksKept DEF LockInv
  <2>2. RowsInv'
    BY <1>0, <1>1 DEF RowsInv, RowsOK, InPlace
  <2>3. ResvInv'
    BY <1>0, <1>1 DEF ResvInv
  <2> QED BY <2>1, <2>2, <2>3
<1>5. ASSUME NEW q \in Peers, Unsent(q) PROVE Unsent(q)'
  <2>1. ~FlushDeliver
    BY <1>5 DEF Unsent, FlushDeliver
  <2>2. waiting' = waiting
    BY <2>1 DEF FlushStart, FlushFails, FlushDone
  <2>3. flush'.pc = "idle" \/ <<q, box[q]>> \in flush'.todo
    <3>1. CASE FlushStart
      BY <1>5, <3>1 DEF FlushStart, Unsent, IdleFlush
    <3>2. CASE FlushFails \/ FlushDone
      BY <3>2 DEF FlushFails, FlushDone, IdleFlush
    <3> QED BY <2>1, <3>1, <3>2
  <2> QED BY <1>0, <1>5, <2>2, <2>3 DEF Unsent
<1>6. SafeInv'
  <2>1. ASSUME NEW q \in Peers, Staged(q) PROVE Staged(q)'
    BY <1>0, <2>1 DEF Staged
  <2> QED BY <1>0, <1>1, <1>5, <2>1 DEF SafeInv
<1>7. OwedInv'
  <2>1. ASSUME NEW q \in Peers, Staged(q) PROVE Staged(q)'
    BY <1>0, <2>1 DEF Staged
  <2> QED BY <1>0, <1>1, <1>5, <2>1, Zenon DEF OwedInv, Owing, MutOwed, Owed
<1> QED BY <1>3, <1>4, <1>6, <1>7 DEF IInv

\* A flush that finds a stale row replaces its revision by the current one, or drops it.
LEMMA FlushReconcileInv == ASSUME IInv, NEW p \in Peers, FlushReconcile(p) PROVE IInv'
<1>0. /\ TypeOK /\ LockInv /\ RowsInv /\ ResvInv /\ SafeInv /\ OwedInv
      /\ flush.pc = "reconcile" /\ lock[p] = "free"
      /\ UNCHANGED <<cur, revs, mu, mut, waiting, sending, got, late, crashes, kind, wanted,
                     sendable>>
  BY DEF IInv, FlushReconcile, peerVars, envVars
<1>a. PICK row \in {e[2] : e \in flush.todo} :
        /\ <<p, row>> \in flush.todo
        /\ IF ~Keep(cur)
           THEN /\ DeleteIfUnchanged(p, row)
                /\ flush' = [flush EXCEPT !.todo = @ \ {<<p, row>>}]
                /\ UNCHANGED <<gen, resv, lock>>
           ELSE IF row.rev = cur
           THEN /\ flush' = [flush EXCEPT !.todo = @ \ {<<p, row>>}]
                /\ UNCHANGED <<gen, resv, lock, box>>
           ELSE /\ Reserve(p)
                /\ lock' = [lock EXCEPT ![p] = "flush"]
                /\ flush' = [flush EXCEPT !.pc = "put", !.todo = @ \ {<<p, row>>}, !.at = p,
                                          !.row = [gen |-> gen + 1, rev |-> cur]]
                /\ UNCHANGED box
  BY Zenon DEF FlushReconcile
<1>b. ~Staged(p)
  BY <1>0, MutatorsDistinct DEF Staged
\* The row is as it should be, or it is not announced: it stays, or goes.
<1>1. CASE ~Keep(cur) \/ row.rev = cur
  <2>1. /\ flush' = [flush EXCEPT !.todo = @ \ {<<p, row>>}]
        /\ UNCHANGED <<gen, resv, lock>>
    BY <1>1, <1>a
  <2>2. /\ flush' \in [pc : {"idle", "reconcile", "put", "wait"}, todo : SUBSET (Peers \X Rows),
                       at : Peers \cup {0}, row : Rows]
        /\ flush'.pc = "reconcile" /\ flush'.todo = flush.todo \ {<<p, row>>}
    BY <1>0, <2>1, Zenon DEF TypeOK
  <2>3. /\ box' \in [Peers -> Rows]
        /\ \A q \in Peers : q # p => box'[q] = box[q]
        /\ box'[p] \in {box[p], NoRow}
        /\ box[p] = row => box'[p].rev = cur
        /\ \A q \in Peers : box'[q].gen <= gen
    <3>1. NoRow \in Rows /\ NoRow.gen = 0 /\ NoRow.rev = 0
      BY OutboxAssumption DEF NoRow, Rows, Revs
    <3>2. CASE ~Keep(cur)
      <4>1. box' = [box EXCEPT ![p] = IF @ = row THEN NoRow ELSE @]
        BY <1>a, <3>2 DEF DeleteIfUnchanged
      <4>2. cur = 0
        BY <3>2 DEF Keep
      <4> QED BY <1>0, <3>1, <4>1, <4>2 DEF TypeOK
    <3>3. CASE Keep(cur)
      BY <1>0, <1>1, <1>a, <3>3 DEF TypeOK
    <3> QED BY <3>2, <3>3
  <2>4. TypeOK'
    BY <1>0, <2>1, <2>2, <2>3 DEF TypeOK
  <2>5. LockInv' /\ ResvInv'
    <3>1. LockInv'
      BY <1>0, <2>1, <2>2, LocksKept DEF LockInv
    <3> QED BY <1>0, <2>1, <2>2, <3>1 DEF ResvInv
  <2>6. RowsInv'
    <3>1. \A m \in Mutators, q \in Peers : lock[q] = m => box'[q] = box[q]
      BY <1>0, <2>3, MutatorsDistinct, Zenon
    <3> QED BY <1>0, <2>1, <3>1, RowsKept
  <2>7. SafeInv' /\ OwedInv'
    <3>1. \/ Unsent(p)'
          \/ /\ box'[p].rev \in sendable
             /\ Owing => got[p] >= wanted \/ box'[p].rev >= wanted
      <4>1. CASE box[p] = row
        BY <1>0, <2>3, <4>1 DEF SafeInv, OwedInv
      <4>2. CASE box[p] # row
        <5>1. box'[p] = box[p]
          <6>1. box' = [box EXCEPT ![p] = IF @ = row THEN NoRow ELSE @] \/ box' = box
            BY <1>1, <1>a DEF DeleteIfUnchanged
          <6> QED BY <1>0, <4>2, <6>1 DEF TypeOK
        <5>2. Unsent(p) => Unsent(p)'
          BY <1>0, <2>2, <4>2, <5>1 DEF Unsent
        <5> QED BY <1>0, <1>b, <5>1, <5>2 DEF SafeInv, OwedInv, Owed
      <4> QED BY <4>1, <4>2
    <3>2. ASSUME NEW q \in Peers, q # p PROVE (Staged(q) => Staged(q)') /\ (Unsent(q) => Unsent(q)')
      <4>1. box'[q] = box[q] /\ <<q, box[q]>> # <<p, row>>
        BY <2>3, <3>2
      <4> QED BY <1>0, <2>1, <2>2, <4>1 DEF Staged, Unsent
    <3>3. SafeInv'
      BY <1>0, <2>2, <2>3, <3>1, <3>2 DEF SafeInv
    <3>4. \A m \in Mutators : mut[m].pc = "reput" => box'[mut[m].at] = box[mut[m].at]
      BY <1>0, <2>3, MutatorsDistinct, LocksHeld
    <3>5. OwedInv'
      BY <1>0, <2>1, <2>2, <2>3, <3>1, <3>2, <3>4 DEF OwedInv, Owing, MutOwed, Owed
    <3> QED BY <3>3, <3>5
  <2> QED BY <2>4, <2>5, <2>6, <2>7 DEF IInv
\* The row is replaced by one of the current state, under the lock.
<1>2. CASE Keep(cur) /\ row.rev # cur
  <2>1. /\ gen' = gen + 1 /\ resv' = [resv EXCEPT ![p] = gen + 1]
        /\ lock' = [lock EXCEPT ![p] = "flush"]
        /\ flush' = [flush EXCEPT !.pc = "put", !.todo = @ \ {<<p, row>>}, !.at = p,
                                  !.row = [gen |-> gen + 1, rev |-> cur]]
        /\ box' = box
    BY <1>2, <1>a DEF Reserve
  <2>2. /\ flush' \in [pc : {"idle", "reconcile", "put", "wait"}, todo : SUBSET (Peers \X Rows),
                       at : Peers \cup {0}, row : Rows]
        /\ flush'.pc = "put" /\ flush'.todo = flush.todo \ {<<p, row>>} /\ flush'.at = p
        /\ flush'.row.gen = gen + 1 /\ flush'.row.rev = cur
    <3>1. [gen |-> gen + 1, rev |-> cur] \in Rows
      BY <1>0 DEF TypeOK, Rows
    <3> QED BY <1>0, <2>1, <3>1, Zenon DEF TypeOK
  <2>3. /\ lock'[p] = "flush" /\ \A q \in Peers : q # p => lock'[q] = lock[q]
        /\ \A m \in Mutators, q \in Peers : lock'[q] = m <=> lock[q] = m
    BY <1>0, <2>1, MutatorsDistinct DEF TypeOK
  <2>4. TypeOK'
    <3>1. mut \in [Mutators -> MutStates(gen')]
      BY <1>0, <2>1, MutTyped DEF TypeOK
    <3>2. lock' \in [Peers -> Mutators \cup {"free", "flush", "deliver"}]
      BY <1>0, <2>1 DEF TypeOK
    <3>3. resv' \in [Peers -> 0..gen'] /\ gen' \in Nat /\ \A q \in Peers : box'[q].gen <= gen'
      BY <1>0, <2>1 DEF TypeOK, Rows
    <3> QED BY <1>0, <2>1, <2>2, <3>1, <3>2, <3>3 DEF TypeOK, MutStates
  <2>5. LockInv'
    <3>1. \A q \in Peers : /\ lock'[q] = "deliver" <=> sending[q].phase # "none"
                           /\ lock'[q] = "flush" <=> flush'.at = q
      BY <1>0, <2>2, <2>3 DEF LockInv
    <3> QED BY <1>0, <2>2, <2>3, <3>1, LocksKept
  <2>6. RowsInv'
    BY <1>0, <2>1, <2>3, RowsKept
  <2>7. ResvInv'
    <3>1. ASSUME NEW n \in Mutators, mut[n].pc \in {"put", "reput"} PROVE mut[n].at \in Peers \ {p}
      BY <1>0, <3>1, MutatorsDistinct, LocksHeld
    <3>2. flush'.row.gen > 0 /\ resv'[flush'.at] = flush'.row.gen
      BY <1>0, <2>1, <2>2 DEF TypeOK
    <3> QED BY <1>0, <2>1, <2>2, <3>1, <3>2 DEF ResvInv, TypeOK, SafeInv
  <2>8. SafeInv' /\ OwedInv'
    <3>1. Unsent(p) => Unsent(p)'
      BY <1>0, <2>1, <2>2 DEF Unsent
    <3>2. ASSUME NEW q \in Peers, q # p PROVE (Staged(q) => Staged(q)') /\ (Unsent(q) => Unsent(q)')
      <4>1. <<q, box[q]>> # <<p, row>>
        BY <3>2
      <4> QED BY <1>0, <2>1, <2>2, <2>3, <4>1 DEF Staged, Unsent
    <3>3. SafeInv'
      BY <1>0, <1>b, <2>1, <2>2, <3>1, <3>2 DEF SafeInv
    <3>4. OwedInv'
      BY <1>0, <1>b, <2>1, <2>2, <3>1, <3>2 DEF OwedInv, Owing, MutOwed, Owed
    <3> QED BY <3>3, <3>4
  <2> QED BY <2>4, <2>5, <2>6, <2>7, <2>8 DEF IInv
<1> QED BY <1>1, <1>2

\* A flush stores the row it prepared, under the lock it still holds.
LEMMA FlushPutInv == ASSUME IInv, FlushPut PROVE IInv'
<1> DEFINE p == flush.at
<1>0. /\ TypeOK /\ LockInv /\ RowsInv /\ ResvInv /\ SafeInv /\ OwedInv
      /\ flush.pc = "put" /\ Put(p, flush.row)
      /\ lock' = [lock EXCEPT ![p] = "free"]
      /\ flush' = [flush EXCEPT !.pc = "reconcile", !.at = 0, !.row = NoRow]
      /\ UNCHANGED <<cur, revs, gen, mu, mut, waiting, sending, got, late, crashes, kind, wanted,
                     sendable>>
  BY DEF IInv, FlushPut, peerVars, envVars
<1>a. /\ p \in Peers /\ lock[p] = "flush" /\ resv[p] = flush.row.gen
      /\ flush.row \in Rows /\ flush.row.rev \in sendable /\ flush.row.gen <= gen
  BY <1>0 DEF LockInv, ResvInv, TypeOK
<1>b. box' = [box EXCEPT ![p] = flush.row] /\ resv' = [resv EXCEPT ![p] = 0]
  BY <1>0, <1>a DEF Put, PutApplies
<1>1. /\ flush' \in [pc : {"idle", "reconcile", "put", "wait"}, todo : SUBSET (Peers \X Rows),
                     at : Peers \cup {0}, row : Rows]
      /\ flush'.pc = "reconcile" /\ flush'.todo = flush.todo
  <2>1. NoRow \in Rows
    BY OutboxAssumption DEF NoRow, Rows, Revs
  <2> QED BY <1>0, <2>1, Zenon DEF TypeOK
<1>2. /\ lock'[p] = "free" /\ \A q \in Peers : q # p => lock'[q] = lock[q]
      /\ \A m \in Mutators, q \in Peers : lock'[q] = m <=> lock[q] = m
      /\ \A q \in Peers : q # p => box'[q] = box[q] /\ resv'[q] = resv[q]
      /\ box'[p] = flush.row
  BY <1>0, <1>a, <1>b, MutatorsDistinct DEF TypeOK
<1>3. TypeOK'
  <2>1. lock' \in [Peers -> Mutators \cup {"free", "flush", "deliver"}]
    BY <1>0, <1>a DEF TypeOK
  <2>2. /\ box' \in [Peers -> Rows] /\ resv' \in [Peers -> 0..gen]
        /\ \A q \in Peers : box'[q].gen <= gen
    BY <1>0, <1>a, <1>b DEF TypeOK
  <2> QED BY <1>0, <1>1, <2>1, <2>2 DEF TypeOK
<1>4. LockInv'
  <2>1. \A q \in Peers : /\ lock'[q] = "deliver" <=> sending[q].phase # "none"
                         /\ lock'[q] # "flush"
    BY <1>0, <1>a, <1>2 DEF LockInv
  <2> QED BY <1>0, <1>1, <1>2, <2>1, LocksKept
<1>5. RowsInv'
  <2>1. \A m \in Mutators, q \in Peers : lock[q] = m => box'[q] = box[q]
    BY <1>a, <1>2, MutatorsDistinct
  <2> QED BY <1>0, <1>2, <2>1, RowsKept
<1>6. ResvInv'
  <2>1. ASSUME NEW n \in Mutators, mut[n].pc \in {"put", "reput"} PROVE mut[n].at \in Peers \ {p}
    BY <1>0, <1>a, <2>1, MutatorsDistinct, LocksHeld
  <2> QED BY <1>0, <1>1, <1>2, <2>1 DEF ResvInv
<1>7. SafeInv' /\ OwedInv'
  <2>1. ASSUME NEW q \in Peers, q # p PROVE (Staged(q) => Staged(q)') /\ (Unsent(q) => Unsent(q)')
    BY <1>0, <1>1, <1>2, <2>1 DEF Staged, Unsent
  <2>2. SafeInv'
    BY <1>0, <1>a, <1>1, <1>2, <2>1 DEF SafeInv
  <2>3. \A m \in Mutators : mut[m].pc = "reput" => box'[mut[m].at] = box[mut[m].at]
    BY <1>0, <1>a, <1>2, MutatorsDistinct, LocksHeld
  <2>4. OwedInv'
    BY <1>0, <1>a, <1>1, <1>2, <2>1, <2>3 DEF OwedInv, Owing, MutOwed, Owed
  <2> QED BY <2>2, <2>4
<1> QED BY <1>3, <1>4, <1>5, <1>6, <1>7 DEF IInv

\* A staged row is there.
LEMMA StagedStored ==
  ASSUME LockInv, RowsInv, NEW p \in Peers, Staged(p) PROVE box[p] # NoRow
<1>1. PICK m \in Mutators :
        \/ mut[m].pc \in Staging /\ \E a \in mut[m].rows : a.peer = p
        \/ mut[m].pc \in Undoing /\ \E a \in mut[m].todo : a.peer = p
        \/ mut[m].pc = "reput" /\ mut[m].at = p
  BY Zenon DEF Staged
<1>2. RowsOK(m)
  BY DEF RowsInv
<1> QED BY <1>1, <1>2 DEF RowsOK, InPlace, Attempt, NoRow

\* After a crash no row is staged: each is waiting for a flush to look at it.
LEMMA CrashInv == ASSUME IInv, Crash PROVE IInv'
<1>0. /\ TypeOK /\ LockInv /\ RowsInv /\ ResvInv /\ SafeInv /\ OwedInv
      /\ crashes < kind.maxCrashes
      /\ crashes' = crashes + 1
      /\ resv' = [p \in Peers |-> 0]
      /\ mu' = "free"
      /\ lock' = [p \in Peers |-> "free"]
      /\ mut' = [m \in Mutators |-> IdleMut]
      /\ waiting' = {}
      /\ sending' = [p \in Peers |-> NoSend]
      /\ flush' = IdleFlush
      /\ late' = [p \in Peers |-> late[p] \cup
                   (IF sending[p].phase = "send" THEN {sending[p].row.rev} ELSE {})]
      /\ UNCHANGED <<cur, revs, gen, box, got, kind, wanted, sendable>>
  BY DEF IInv, Crash
<1> USE OutboxAssumption
<1>1. /\ NoRow \in Rows /\ NoRow.rev = 0
      /\ NoSend \in [phase : {"none", "send", "ack"}, row : Rows, src : {"eager", "flush", "join"}]
      /\ NoSend.phase = "none"
      /\ IdleFlush \in [pc : {"idle", "reconcile", "put", "wait"}, todo : SUBSET (Peers \X Rows),
                        at : Peers \cup {0}, row : Rows]
      /\ IdleFlush.pc = "idle" /\ IdleFlush.todo = {}
  <2>1. NoRow \in Rows /\ NoRow.rev = 0
    BY DEF NoRow, Rows, Revs
  <2>2. /\ NoSend \in [phase : {"none", "send", "ack"}, row : Rows, src : {"eager", "flush", "join"}]
        /\ NoSend.phase = "none"
    BY <2>1 DEF NoSend
  <2> QED BY <2>1, <2>2 DEF IdleFlush
<1>2. IdleMut \in MutStates(gen) /\ IdleMut.pc = "idle" /\ IdleMut.rev = 0
  <2>1. gen \in Nat
    BY <1>0 DEF TypeOK
  <2> QED BY <2>1, AtRest
<1>3. late' \in [Peers -> SUBSET Revs] /\ \A p \in Peers : late'[p] \subseteq sendable
  <2>1. ASSUME NEW p \in Peers
        PROVE  /\ sending[p].row.rev \in Revs
               /\ sending[p].phase = "send" => sending[p].row.rev \in sendable
    BY <1>0 DEF TypeOK, Rows, SafeInv
  <2> QED BY <1>0, <2>1, Zenon DEF TypeOK, SafeInv
<1>4. TypeOK'
  <2>1. crashes' \in 0..kind.maxCrashes /\ resv' \in [Peers -> 0..gen]
    BY <1>0 DEF TypeOK, KindRecords
  <2> QED BY <1>0, <1>1, <1>2, <1>3, <2>1 DEF TypeOK, MutStates
<1>5. LockInv' /\ RowsInv' /\ ResvInv'
  BY <1>0, <1>1, <1>2, MutatorsDistinct, Zenon DEF LockInv, MutLocks, RowsInv, RowsOK, ResvInv, Staging, Undoing
<1>6. SafeInv'
  <2>1. ASSUME NEW p \in Peers, box[p] # NoRow PROVE Unsent(p)'
    BY <1>0, <1>1, <2>1 DEF Unsent
  <2> QED BY <1>0, <1>1, <1>3, <2>1, Zenon DEF SafeInv
<1>7. OwedInv'
  <2>1. ASSUME NEW p \in Peers, box[p] # NoRow PROVE Unsent(p)'
    BY <1>0, <1>1, <2>1 DEF Unsent
  <2>2. ASSUME NEW p \in Peers, Staged(p) PROVE box[p] # NoRow
    BY <1>0, <2>2, StagedStored
  <2>3. ASSUME NEW m \in Mutators PROVE MutOwed(m)'
    <3>1. mut'[m] = IdleMut /\ revs' = revs
      BY <1>0
    <3>2. revs \in Nat
      BY <1>0 DEF TypeOK, Revs
    <3> QED BY <1>2, <3>1, <3>2 DEF MutOwed, Staging, Undoing
  <2>4. ASSUME Owing, NEW p \in Peers PROVE Owed(p)'
    BY <1>0, <1>1, <2>1, <2>2, <2>4, Zenon DEF OwedInv, Owed, Unsent
  <2> QED BY <1>0, <1>1, <2>3, <2>4 DEF OwedInv, Owing
<1> QED BY <1>4, <1>5, <1>6, <1>7 DEF IInv

-----------------------------------------------------------------------------
\* Every step keeps the invariant.
LEMMA NextInv == IInv /\ [Next]_vars => IInv'
<1> SUFFICES ASSUME IInv, [Next]_vars PROVE IInv'
  OBVIOUS
<1>1. CASE UNCHANGED vars
  <2>1. TypeOK'
    BY <1>1, Zenon DEF vars, IInv, TypeOK
  <2>2. LockInv' /\ ResvInv'
    <3>1. LockInv'
      BY <1>1, LocksKept DEF vars, IInv, LockInv
    <3> QED BY <1>1, <3>1 DEF vars, IInv, ResvInv
  <2>3. RowsInv'
    BY <1>1 DEF vars, IInv, RowsInv, RowsOK, InPlace
  <2>4. \A p \in Peers : (Staged(p) => Staged(p)') /\ (Unsent(p) => Unsent(p)')
    BY <1>1 DEF vars, Staged, Unsent
  <2>5. SafeInv'
    BY <1>1, <2>4, Zenon DEF vars, IInv, SafeInv
  <2>6. OwedInv'
    BY <1>1, <2>4, Zenon DEF vars, IInv, OwedInv, Owing, MutOwed, Owed
  <2> QED BY <2>1, <2>2, <2>3, <2>5, <2>6 DEF IInv
<1>2. ASSUME NEW m \in Mutators, MutBegin(m) \/ MutLock(m) \/ MutStageFails(m) \/ MutStep(m)
      PROVE  IInv'
  BY <1>2, MutBeginInv, MutLockInv, MutStageFailsInv, MutPutInv, MutPutFailsInv, MutCommitInv,
     MutAbortInv, MutRestageInv, MutReputInv, MutRollbackFailsInv, MutFinishInv DEF MutStep
<1>3. CASE RemoteApply
  BY <1>3, RemoteApplyInv
<1>4. ASSUME NEW a \in waiting, DeliverBegin(a) PROVE IInv'
  BY <1>4, DeliverBeginInv
<1>5. ASSUME NEW p \in Peers,
             \/ DeliverOK(p) \/ DeliverFails(p) \/ DeliverAck(p) \/ DeliverAckFails(p)
             \/ FlushReconcile(p)
             \/ \E r \in late[p] : LateArrival(p, r)
      PROVE  IInv'
  BY <1>5, DeliverOKInv, DeliverEndsInv, FlushReconcileInv, LateArrivalInv
<1>6. CASE FlushStart \/ FlushFails \/ FlushDeliver \/ FlushDone
  BY <1>6, FlushMovesInv
<1>7. CASE FlushPut
  BY <1>7, FlushPutInv
<1>8. CASE Crash
  BY <1>8, CrashInv
<1> QED BY <1>1, <1>2, <1>3, <1>4, <1>5, <1>6, <1>7, <1>8, Zenon DEF Next

\* The invariant holds in every reachable state.
LEMMA Inv == Spec => []IInv
BY InitInv, NextInv, PTL DEF Spec

(***************************************************************************)
(* The durable state, the locks, the mutations in progress and the flush   *)
(* are always well formed; no stored row has a generation that the counter *)
(* has not handed out.                                                     *)
(***************************************************************************)
THEOREM OutboxTypeCorrect == Spec => []TypeOK
<1>1. IInv => TypeOK
  BY DEF IInv
<1> QED BY Inv, <1>1, PTL

(***************************************************************************)
(* No peer ever applies, and no request on its way carries, a revision     *)
(* that was staged and neither committed nor left by a failed rollback:    *)
(* for any number of peers and concurrent mutations, with crashes, late    *)
(* requests and failed transactions at any point.                          *)
(***************************************************************************)
THEOREM DeliveredWasCommitted == Spec => []NoUncommittedDelivery
<1>1. IInv => NoUncommittedDelivery
  BY DEF IInv, SafeInv, NoUncommittedDelivery
<1> QED BY Inv, <1>1, PTL

(***************************************************************************)
(* No two mutations wait for each other's delivery lock, for any number of *)
(* peers: each holds exactly the locks of the peers below the one it waits *)
(* for.                                                                    *)
(***************************************************************************)
THEOREM LocksInOrder == Spec => []NoCircularWait
<1>1. IInv => NoCircularWait
  BY DEF IInv, LockInv, MutLocks, NoCircularWait, Peers
<1> QED BY Inv, <1>1, PTL
(***************************************************************************)
(* A committed mutation of an ordered entity is never lost: while a peer   *)
(* lacks it, a row for that peer is stored, for any number of peers and of *)
(* concurrent mutations, with failed calls, failed transactions, failed    *)
(* flushes and crashes at any point.  Where the rollback itself may fail,  *)
(* mutations have to run one at a time, as mutationMu makes them.          *)
(***************************************************************************)
THEOREM NothingLost ==
  Spec => [](Ordered /\ (kind.rollbackFails => kind.mutationMu) => NoLostUpdate)
<1>1. IInv => (Ordered /\ (kind.rollbackFails => kind.mutationMu) => NoLostUpdate)
  <2> SUFFICES ASSUME IInv, Owing, NEW p \in Peers, got[p] < wanted PROVE box[p] # NoRow
    BY DEF Owing, NoLostUpdate, Behind
  <2>1. got[p] \in Revs /\ wanted \in Revs
    BY DEF IInv, TypeOK
  <2>2. box[p].rev >= wanted \/ Staged(p) \/ Unsent(p)
    BY <2>1 DEF IInv, OwedInv, Owed, Revs
  <2>3. Staged(p) => box[p] # NoRow
    BY StagedStored DEF IInv
  <2> QED BY <2>1, <2>2, <2>3 DEF Unsent, NoRow, Revs
<1> QED BY Inv, <1>1, PTL

=============================================================================
