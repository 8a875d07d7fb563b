------------------------- MODULE OutboxMutationProofs -------------------------
(***************************************************************************)
(* The inductive invariant of module Outbox, for any number of peers,      *)
(* mutators, kinds and revisions, and its preservation by the steps of     *)
(* local mutations.  Module OutboxProofs has the other steps and the       *)
(* theorems.                                                               *)
(***************************************************************************)
EXTENDS Outbox, TLAPS

\* The time a leaf may take, by default.
USE ZenonT(5), SMTT(60)

-----------------------------------------------------------------------------
\* The inductive invariant.

Staging == {"lock", "put", "apply"}
Undoing == {"rollback", "reput"}

(***************************************************************************)
(* Who holds a delivery lock.  A mutation that is still collecting locks   *)
(* holds those of the peers below the one it has reached.                  *)
(***************************************************************************)
MutLocks(m) ==
  /\ mut[m].pc \in {"lock", "put", "reput"} => mut[m].at \in Peers
  /\ mut[m].pc = "idle" => \A p \in Peers : lock[p] # m
  /\ mut[m].pc = "lock" => \A p \in Peers : lock[p] = m <=> p < mut[m].at
  /\ mut[m].pc = "put" => \A p \in Peers : lock[p] = m <=> p <= mut[m].at
  /\ mut[m].pc \in {"apply", "finish"} => \A p \in Peers : lock[p] = m
  /\ mut[m].pc \in Undoing => \E p \in Peers : lock[p] = m
  /\ mut[m].pc = "reput" => lock[mut[m].at] = m

LockInv ==
  /\ \A p \in Peers :
       /\ lock[p] = "deliver" <=> sending[p].phase # "none"
       /\ lock[p] = "flush" <=> flush.pc = "put" /\ flush.at = p
  /\ flush.pc = "put" => flush.at \in Peers
  /\ \A m \in Mutators : MutLocks(m)

\* Attempts whose row is in place, under the lock of m.
InPlace(m, attempts) ==
  \A a \in attempts :
    /\ lock[a.peer] = m
    /\ a = Attempt(a.peer, box[a.peer], "eager")
    /\ a.row.gen > 0

(***************************************************************************)
(* The rows a mutation has staged are in place until it ends: those below  *)
(* the peer it has reached, all of them when it commits, and, while it     *)
(* rolls back, those still to undo.                                        *)
(***************************************************************************)
RowsOK(m) ==
  /\ mut[m].pc \in Staging \cup {"finish"} =>
       /\ InPlace(m, mut[m].rows)
       /\ \A a \in mut[m].rows : a.row.rev = mut[m].rev
  /\ mut[m].pc \in {"lock", "put"} =>
       \A p \in Peers : p < mut[m].at <=> \E a \in mut[m].rows : a.peer = p
  /\ mut[m].pc \in {"apply", "finish"} =>
       \A p \in Peers : \E a \in mut[m].rows : a.peer = p
  /\ mut[m].pc = "finish" => mut[m].rev \in sendable
  /\ mut[m].pc \in Undoing =>
       /\ InPlace(m, mut[m].todo)
       /\ mut[m].rev \in sendable
       /\ \A a \in mut[m].rows : lock[a.peer] = m /\ a.row.rev \in sendable
  /\ mut[m].pc = "reput" =>
       /\ box[mut[m].at] # NoRow
       /\ \A a \in mut[m].todo : a.peer # mut[m].at

RowsInv == \A m \in Mutators : RowsOK(m)

\* A reservation that is about to be used is still the current one.
ResvInv ==
  /\ \A m \in Mutators : mut[m].pc \in {"put", "reput"} =>
       mut[m].gen > 0 /\ resv[mut[m].at] = mut[m].gen
  /\ flush.pc = "put" =>
       /\ flush.row.gen > 0 /\ resv[flush.at] = flush.row.gen
       /\ flush.row.rev \in sendable

\* The row of p was written by a mutation that has neither committed nor undone it.
Staged(p) ==
  \E m \in Mutators :
    /\ lock[p] = m
    /\ \/ mut[m].pc \in Staging /\ \E a \in mut[m].rows : a.peer = p
       \/ mut[m].pc \in Undoing /\ \E a \in mut[m].todo : a.peer = p
       \/ mut[m].pc = "reput" /\ mut[m].at = p

\* The row of p is one a crash left: nobody sends it before a flush has looked at it.
Unsent(p) ==
  /\ box[p] # NoRow
  /\ sending[p].phase = "none"
  /\ \A a \in waiting : a.peer = p => a.row # box[p]
  /\ \/ flush.pc = "idle"
     \/ <<p, box[p]>> \in flush.todo
     \/ flush.pc = "put" /\ flush.at = p

\* What may be sent, and what was: only what is sendable.
SafeInv ==
  /\ {0, cur} \subseteq sendable
  /\ flush.pc \in {"idle", "wait"} => flush.todo = {}
  /\ \A p \in Peers :
       /\ got[p] \in sendable /\ late[p] \subseteq sendable
       /\ sending[p].phase # "none" => sending[p].row.rev \in sendable
       /\ box[p].rev \in sendable \/ Staged(p) \/ Unsent(p)

(***************************************************************************)
(* That nothing is lost is shown for ordered entities, whose receivers     *)
(* keep the highest revision, when mutations that may fail to roll back    *)
(* run one at a time.                                                      *)
(***************************************************************************)
Owing == Ordered /\ (kind.rollbackFails => kind.mutationMu)

(***************************************************************************)
(* What a mutation restages is at least what was committed.  Under         *)
(* mutationMu there is one mutation at a time, and it is the newest.       *)
(***************************************************************************)
MutOwed(m) ==
  /\ mut[m].rev <= revs
  /\ mut[m].pc \in Undoing \cup {"finish"} =>
       /\ mut[m].rev >= wanted
       /\ \A a \in mut[m].rows : a.row.rev >= wanted
  /\ kind.mutationMu =>
       /\ mut[m].pc # "idle" => mu = m
       /\ mut[m].pc \in Staging => mut[m].rev > cur
       /\ mut[m].pc \in Undoing => \A a \in mut[m].todo : a.row.rev >= wanted
       /\ mut[m].pc = "reput" => box[mut[m].at].rev >= wanted

\* Peer p has what was committed last, or its row brings it, or will be replaced before it is sent.
Owed(p) == got[p] >= wanted \/ box[p].rev >= wanted \/ Staged(p) \/ Unsent(p)

OwedInv ==
  Owing =>
    /\ wanted <= cur /\ cur <= revs
    /\ flush.pc = "put" => flush.row.rev >= wanted
    /\ \A m \in Mutators : MutOwed(m)
    /\ \A p \in Peers : /\ sending[p].phase = "ack" => got[p] >= sending[p].row.rev
                       /\ Owed(p)

IInv == TypeOK /\ LockInv /\ RowsInv /\ ResvInv /\ SafeInv /\ OwedInv

-----------------------------------------------------------------------------
\* Peers are numbered from 1, and a mutation visits them in this order.
LEMMA TargetsInOrder ==
  ASSUME NEW m \in Mutators
  PROVE  /\ 1 \in Peers /\ NPeers \in Peers
         /\ \A i \in Peers : Targets(m)[i] = i
         /\ \A p \in Peers : (CHOOSE j \in Peers : Targets(m)[j] = p) = p
         /\ \A p \in Peers : p # NPeers => p + 1 \in Peers
BY OutboxAssumption DEF Peers, Targets

\* The invariant holds initially.
LEMMA InitInv == Init => IInv
<1> SUFFICES ASSUME Init PROVE IInv
  OBVIOUS
<1> USE OutboxAssumption DEF Init, IdleMut, IdleFlush, NoRow, NoSend
<1>1. TypeOK
  BY DEF TypeOK, Rows, Revs, Peers, Attempts, KindRecords
<1>2. LockInv
  BY DEF LockInv, MutLocks, Undoing
<1>3. RowsInv /\ ResvInv
  BY DEF RowsInv, RowsOK, ResvInv, Staging, Undoing
<1>4. SafeInv
  BY DEF SafeInv
<1>5. OwedInv
  BY DEF OwedInv, Owing, MutOwed, Owed, Undoing, Staging, Peers
<1> QED BY <1>1, <1>2, <1>3, <1>4, <1>5 DEF IInv

\* The state of a mutation, when the generations go up to g.
MutStates(g) ==
  [pc : {"idle", "lock", "put", "apply", "rollback", "reput", "finish"}, rev : Revs,
   at : Peers \cup {0}, gen : 0..g, todo : SUBSET Attempts, rows : SUBSET Attempts]

\* Mutation m goes to the state s, and the others stay where they are.
MutGoes(m, s) ==
  /\ mut' \in [Mutators -> MutStates(gen')]
  /\ mut'[m] = s
  /\ \A n \in Mutators : n # m => mut'[n] = mut[n]

\* A step of one mutation: what is left to show is the type of its new state.
LEMMA MutTyped ==
  ASSUME TypeOK, gen' \in Nat, gen <= gen'
  PROVE  mut \in [Mutators -> MutStates(gen')]
BY DEF TypeOK, MutStates

\* A step that sets the state of one mutation to a well formed s.
LEMMA OneMutation ==
  ASSUME TypeOK, NEW m \in Mutators, NEW s, mut' = [mut EXCEPT ![m] = s],
         gen' \in Nat, gen <= gen', s \in MutStates(gen')
  PROVE  MutGoes(m, s)
BY MutTyped DEF MutGoes

\* A mutator is none of the other holders of a lock.
LEMMA MutatorsDistinct == \A m \in Mutators : m # "free" /\ m # "flush" /\ m # "deliver"
BY OutboxAssumption

\* A mutation starts: it owns nothing yet.
LEMMA MutBeginInv == ASSUME IInv, NEW m \in Mutators, MutBegin(m) PROVE IInv'
<1> DEFINE s == [IdleMut EXCEPT !.pc = "lock", !.rev = revs + 1, !.at = Targets(m)[1]]
<1>0. /\ TypeOK /\ LockInv /\ RowsInv /\ ResvInv /\ SafeInv /\ OwedInv
      /\ mut[m].pc = "idle" /\ revs < MaxRev /\ revs' = revs + 1
      /\ kind.mutationMu => mu = "free"
      /\ mu' = IF kind.mutationMu THEN m ELSE mu
      /\ mut' = [mut EXCEPT ![m] = s]
      /\ UNCHANGED <<cur, gen, box, resv, lock, waiting, sending, flush, got, late, crashes, kind,
                     wanted, sendable>>
  BY Zenon DEF IInv, MutBegin, dbVars, peerVars, envVars
<1>1. /\ s \in MutStates(gen')
      /\ s.pc = "lock" /\ s.at = 1 /\ 1 \in Peers /\ s.rows = {} /\ s.todo = {} /\ s.rev = revs + 1
  <2>1. Targets(m)[1] = 1 /\ 1 \in Peers /\ revs + 1 \in Revs /\ gen' \in Nat
    BY <1>0, TargetsInOrder, OutboxAssumption DEF TypeOK, Revs
  <2>2. IdleMut \in MutStates(gen') /\ IdleMut.rows = {} /\ IdleMut.todo = {}
    BY <2>1, OutboxAssumption DEF IdleMut, MutStates, Revs
  <2> HIDE DEF IdleMut
  <2> QED BY <2>1, <2>2, Zenon DEF MutStates
<1> HIDE DEF s
<1>2. MutGoes(m, s)
  <2>1. gen' \in Nat /\ gen <= gen'
    BY <1>0 DEF TypeOK
  <2> QED BY <1>0, <1>1, <2>1, OneMutation, Zenon
<1> USE DEF MutGoes
<1>3. TypeOK'
  BY <1>0, <1>2, OutboxAssumption DEF TypeOK, MutStates, Revs
<1>4. LockInv'
  BY <1>0, <1>1, <1>2 DEF LockInv, MutLocks, TypeOK, Undoing, Peers
<1>5. RowsInv'
  BY <1>0, <1>1, <1>2 DEF RowsInv, RowsOK, InPlace, TypeOK, Staging, Undoing, Peers
<1>6. ResvInv'
  BY <1>0, <1>1, <1>2 DEF ResvInv, TypeOK
<1>7. ASSUME NEW q \in Peers PROVE (Staged(q) => Staged(q)') /\ (Unsent(q) => Unsent(q)')
  BY <1>0, <1>1, <1>2 DEF Staged, Unsent, TypeOK, Staging, Undoing
<1>8. SafeInv'
  BY <1>0, <1>7 DEF SafeInv
<1>9. OwedInv'
  <2>1. ASSUME Owing, NEW n \in Mutators PROVE MutOwed(n)'
    BY <1>0, <1>1, <1>2, <2>1, MutatorsDistinct
    DEF OwedInv, MutOwed, TypeOK, Revs, MutStates, Staging, Undoing
  <2> QED BY <1>0, <1>7, <2>1 DEF OwedInv, Owing, Owed, TypeOK, Revs
<1> QED BY <1>3, <1>4, <1>5, <1>6, <1>8, <1>9 DEF IInv

\* A mutation takes the next peer's lock, in the order of Targets.
LEMMA MutLockInv == ASSUME IInv, NEW m \in Mutators, MutLock(m) PROVE IInv'
<1> DEFINE p == mut[m].at
           s == [mut[m] EXCEPT !.pc = "put", !.gen = gen + 1]
<1>0. /\ TypeOK /\ LockInv /\ RowsInv /\ ResvInv /\ SafeInv /\ OwedInv
      /\ mut[m].pc = "lock" /\ lock[p] = "free"
      /\ lock' = [lock EXCEPT ![p] = m]
      /\ gen' = gen + 1
      /\ resv' = [resv EXCEPT ![p] = gen + 1]
      /\ mut' = [mut EXCEPT ![m] = s]
      /\ UNCHANGED <<cur, revs, box, mu, waiting, sending, flush, got, late, crashes, kind, wanted,
                     sendable>>
  BY Zenon DEF IInv, MutLock, Reserve, peerVars, envVars
<1>1. /\ s \in MutStates(gen')
      /\ s.pc = "put" /\ s.at = p /\ p \in Peers /\ s.gen = gen + 1
      /\ s.rev = mut[m].rev /\ s.rows = mut[m].rows
  <2>1. mut[m] \in MutStates(gen') /\ gen + 1 \in 0..gen' /\ p \in Peers
    BY <1>0, MutTyped DEF TypeOK, LockInv, MutLocks
  <2> QED BY <2>1, Zenon DEF MutStates
<1> HIDE DEF s
<1>2. MutGoes(m, s)
  <2>1. gen' \in Nat /\ gen <= gen'
    BY <1>0 DEF TypeOK
  <2> QED BY <1>0, <1>1, <2>1, OneMutation, Zenon
<1> USE DEF MutGoes
<1>3. TypeOK'
  <2>1. resv' \in [Peers -> 0..gen'] /\ lock' \in [Peers -> Mutators \cup {"free", "flush", "deliver"}]
    BY <1>0, <1>1 DEF TypeOK
  <2>2. gen' \in Nat /\ \A q \in Peers : box'[q].gen <= gen'
    BY <1>0 DEF TypeOK, Rows
  <2> QED BY <1>0, <1>1, <1>2, <2>1, <2>2 DEF TypeOK, MutStates
<1>4. LockInv'
  BY <1>0, <1>1, <1>2, MutatorsDistinct DEF LockInv, MutLocks, TypeOK, Undoing, Peers
<1>5. RowsInv'
  BY <1>0, <1>1, <1>2, MutatorsDistinct DEF RowsInv, RowsOK, InPlace, TypeOK, Staging, Undoing
<1>6. ResvInv'
  BY <1>0, <1>1, <1>2, MutatorsDistinct DEF ResvInv, LockInv, MutLocks, TypeOK, Peers
<1>7. ASSUME NEW q \in Peers PROVE (Staged(q) => Staged(q)') /\ (Unsent(q) => Unsent(q)')
  BY <1>0, <1>1, <1>2, MutatorsDistinct DEF Staged, Unsent, TypeOK, Staging, Undoing
<1>8. SafeInv'
  BY <1>0, <1>7 DEF SafeInv
<1>9. OwedInv'
  <2>1. ASSUME Owing, NEW n \in Mutators PROVE MutOwed(n)'
    BY <1>0, <1>1, <1>2, <2>1 DEF OwedInv, MutOwed, Staging, Undoing
  <2> QED BY <1>0, <1>7, <2>1 DEF OwedInv, Owing, Owed
<1> QED BY <1>3, <1>4, <1>5, <1>6, <1>8, <1>9 DEF IInv

\* A mutation stores its row for the peer whose lock it holds: the row it displaces is
\* remembered, and the last one makes the mutation ready to commit.
LEMMA MutPutInv == ASSUME IInv, NEW m \in Mutators, MutPut(m) PROVE IInv'
<1> DEFINE p == mut[m].at
           row == [gen |-> mut[m].gen, rev |-> mut[m].rev]
           a == Attempt(p, row, "eager")
           s == [mut[m] EXCEPT !.pc = IF p = NPeers THEN "apply" ELSE "lock",
                               !.at = IF p = NPeers THEN p ELSE p + 1,
                               !.rows = mut[m].rows \cup {a}]
<1>a. /\ TypeOK /\ LockInv /\ RowsInv /\ ResvInv /\ SafeInv /\ OwedInv
      /\ mut[m].pc = "put"
  BY Zenon DEF IInv, MutPut
<1>b. /\ p \in Peers /\ PutApplies(p, row.gen)
      /\ row \in Rows /\ row.gen > 0 /\ row.rev = mut[m].rev /\ row.gen <= gen
      /\ a \in Attempts /\ a.row = row /\ a.peer = p /\ a = Attempt(p, row, "eager")
      /\ lock[p] = m
  BY <1>a DEF LockInv, MutLocks, ResvInv, PutApplies, TypeOK, Rows, Attempts, Attempt, Peers
<1>0. /\ box' = [box EXCEPT ![p] = row]
      /\ resv' = [resv EXCEPT ![p] = 0]
      /\ mut' = [mut EXCEPT ![m] = s]
      /\ UNCHANGED <<cur, revs, gen, mu, lock, waiting, sending, flush, got, late, crashes, kind,
                     wanted, sendable>>
  <2>1. (CHOOSE j \in Peers : Targets(m)[j] = p) = p /\ (p # NPeers => Targets(m)[p + 1] = p + 1)
    BY <1>b, TargetsInOrder
  <2> HIDE DEF p, row, a
  <2>2. mut' = [mut EXCEPT
           ![m].pc   = IF p = NPeers THEN "apply" ELSE "lock",
           ![m].at   = IF p = NPeers THEN p ELSE p + 1,
           ![m].rows = @ \cup {a}]
    BY <2>1, <1>b, Zenon DEF MutPut, p, row, a
  <2>3. mut' = [mut EXCEPT ![m] = s]
    BY <2>2, Zenon
  <2> QED BY <2>3, <1>b, Zenon DEF MutPut, Put, peerVars, envVars, p, row
<1>1. /\ s \in MutStates(gen')
      /\ s.pc = (IF p = NPeers THEN "apply" ELSE "lock")
      /\ s.at = (IF p = NPeers THEN p ELSE p + 1) /\ s.at \in Peers
      /\ s.rev = mut[m].rev /\ s.rows = mut[m].rows \cup {a}
  <2>1. p # NPeers => p + 1 \in Peers
    BY <1>b, TargetsInOrder
  <2>2. mut[m] \in MutStates(gen')
    BY <1>a, <1>0, MutTyped DEF TypeOK
  <2> HIDE DEF a, row, p
  <2> QED BY <1>b, <2>1, <2>2, Zenon DEF MutStates
<1> HIDE DEF s
<1>2. MutGoes(m, s)
  <2>1. gen' \in Nat /\ gen <= gen'
    BY <1>a, <1>0 DEF TypeOK
  <2> QED BY <1>a, <1>0, <1>1, <2>1, OneMutation, Zenon
<1> HIDE DEF row, a
<1> USE DEF MutGoes
<1>3. TypeOK'
  BY <1>a, <1>b, <1>0, <1>1, <1>2 DEF TypeOK, MutStates
<1>4. LockInv'
  BY <1>a, <1>b, <1>0, <1>1, <1>2, MutatorsDistinct, OutboxAssumption
  DEF LockInv, MutLocks, TypeOK, Undoing, Peers
<1>5. RowsInv'
  <2>1. ASSUME NEW n \in Mutators, n # m PROVE RowsOK(n)'
    BY <1>a, <1>b, <1>0, <1>2, <2>1 DEF RowsInv, RowsOK, InPlace, LockInv, MutLocks, TypeOK, Attempts
  <2>2. /\ p # NPeers => \A q \in Peers : q < s.at <=> q < p \/ q = p
        /\ p = NPeers => \A q \in Peers : q < p \/ q = p
    BY <1>b, <1>1, OutboxAssumption DEF Peers
  <2>3. InPlace(m, mut[m].rows)' /\ \A x \in s.rows : x.row.rev = mut[m].rev
    <3>1. ASSUME NEW x \in mut[m].rows
          PROVE  /\ x.peer \in Peers /\ x.peer # p /\ lock[x.peer] = m /\ x.row.gen > 0
                 /\ x = Attempt(x.peer, box[x.peer], "eager") /\ x.row.rev = mut[m].rev
      <4>1. x.peer \in Peers
        BY <1>a, <3>1 DEF TypeOK, Attempts
      <4>2. x.peer < p /\ InPlace(m, mut[m].rows) /\ x.row.rev = mut[m].rev
        BY <1>a, <3>1, <4>1 DEF RowsInv, RowsOK, Staging
      <4> QED BY <1>b, <3>1, <4>1, <4>2 DEF InPlace, Peers
    <3> QED BY <1>a, <1>b, <1>0, <1>1, <1>2, <3>1 DEF InPlace, TypeOK
  <2>4. RowsOK(m)'
    <3>1. \A q \in Peers : q < p <=> \E x \in mut[m].rows : x.peer = q
      BY <1>a DEF RowsInv, RowsOK
    <3>2. \A q \in Peers : q < p \/ q = p <=> \E x \in s.rows : x.peer = q
      BY <1>b, <1>1, <3>1
    <3> QED BY <1>1, <1>2, <2>2, <2>3, <3>2 DEF RowsOK, Staging, Undoing
  <2> QED BY <2>1, <2>4 DEF RowsInv
<1>6. ResvInv'
  BY <1>a, <1>b, <1>0, <1>1, <1>2, MutatorsDistinct DEF ResvInv, LockInv, MutLocks, TypeOK, Peers
<1>7. SafeInv' /\ OwedInv'
  <2>1. ASSUME NEW q \in Peers, q = p PROVE Staged(q)'
    BY <1>b, <1>0, <1>1, <1>2, <2>1 DEF Staged, Staging
  <2>2. ASSUME NEW q \in Peers, q # p PROVE (Staged(q) => Staged(q)') /\ (Unsent(q) => Unsent(q)')
    BY <1>a, <1>b, <1>0, <1>1, <1>2, <2>2 DEF Staged, Unsent, TypeOK, Staging, Undoing
  <2>3. SafeInv'
    BY <1>a, <1>b, <1>0, <2>1, <2>2 DEF SafeInv, TypeOK
  <2>4. ASSUME Owing, NEW n \in Mutators PROVE MutOwed(n)'
    <3>1. mut[n].pc = "reput" => mut[n].at \in Peers \ {p}
      BY <1>a, <1>b DEF LockInv, MutLocks
    <3> QED BY <1>a, <1>b, <1>0, <1>1, <1>2, <2>4, <3>1 DEF OwedInv, MutOwed, TypeOK, Staging, Undoing
  <2>5. OwedInv'
    BY <1>a, <1>b, <1>0, <2>1, <2>2, <2>4 DEF OwedInv, Owing, Owed, TypeOK
  <2> QED BY <2>3, <2>5
<1> QED BY <1>3, <1>4, <1>5, <1>6, <1>7 DEF IInv

(***************************************************************************)
(* A rollback begins, whatever failed.  The mutation may have got one more *)
(* lock, and only the reservations under its locks change.                 *)
(***************************************************************************)
RollsBack(m) ==
  /\ mut[m].pc \in Staging
  /\ Rollback(m)
  /\ lock' \in [Peers -> Mutators \cup {"free", "flush", "deliver"}]
  /\ \A p \in Peers : lock'[p] = lock[p] \/ (lock[p] = "free" /\ lock'[p] = m)
  /\ \E p \in Peers : lock'[p] = m
  /\ resv' \in [Peers -> 0..gen]
  /\ \A p \in Peers : lock[p] # m => resv'[p] = resv[p]
  /\ UNCHANGED <<cur, revs, gen, box, mu, waiting, sending, flush, got, late, crashes, kind,
                 wanted, sendable>>

\* A mutation that goes back puts its stored rows on the list of the rows to restore.
LEMMA RollbackInv ==
  ASSUME IInv, NEW m \in Mutators, RollsBack(m) PROVE IInv'
<1> DEFINE s == [mut[m] EXCEPT !.pc = "rollback", !.rev = cur, !.todo = mut[m].rows, !.rows = {}]
<1>0. /\ TypeOK /\ LockInv /\ RowsInv /\ ResvInv /\ SafeInv /\ OwedInv
      /\ mut[m].pc \in Staging
      /\ mut' = [mut EXCEPT ![m] = s]
      /\ lock' \in [Peers -> Mutators \cup {"free", "flush", "deliver"}]
      /\ \A p \in Peers : lock'[p] = lock[p] \/ (lock[p] = "free" /\ lock'[p] = m)
      /\ \E p \in Peers : lock'[p] = m
      /\ resv' \in [Peers -> 0..gen]
      /\ \A p \in Peers : lock[p] # m => resv'[p] = resv[p]
      /\ UNCHANGED <<cur, revs, gen, box, mu, waiting, sending, flush, got, late, crashes, kind,
                     wanted, sendable>>
  BY Zenon DEF IInv, RollsBack, Rollback
<1>1. /\ s \in MutStates(gen')
      /\ s.pc = "rollback" /\ s.rev = cur /\ s.todo = mut[m].rows /\ s.rows = {}
  <2>1. mut[m] \in MutStates(gen') /\ cur \in Revs
    BY <1>0, MutTyped DEF TypeOK
  <2> QED BY <2>1, Zenon DEF MutStates
<1> HIDE DEF s
<1>2. MutGoes(m, s)
  <2>1. gen' \in Nat /\ gen <= gen'
    BY <1>0 DEF TypeOK
  <2> QED BY <1>0, <1>1, <2>1, OneMutation, Zenon
<1> USE DEF MutGoes
<1>3. TypeOK'
  BY <1>0, <1>2 DEF TypeOK, MutStates
<1>4. LockInv'
  BY <1>0, <1>1, <1>2, MutatorsDistinct DEF LockInv, MutLocks, TypeOK, Undoing, Peers
<1>5. RowsInv'
  <2>1. ASSUME NEW n \in Mutators, n # m PROVE RowsOK(n)'
    BY <1>0, <1>2, <2>1, MutatorsDistinct DEF RowsInv, RowsOK, InPlace, LockInv, MutLocks, TypeOK, Attempts
  <2>2. InPlace(m, mut[m].todo)' /\ mut'[m].rev \in sendable'
    BY <1>0, <1>1, <1>2, MutatorsDistinct DEF RowsInv, RowsOK, InPlace, SafeInv, TypeOK, Attempts
  <2>3. RowsOK(m)'
    BY <1>1, <1>2, <2>2 DEF RowsOK, Staging, Undoing
  <2> QED BY <2>1, <2>3 DEF RowsInv
<1>6. ResvInv'
  BY <1>0, <1>1, <1>2, MutatorsDistinct DEF ResvInv, LockInv, MutLocks, TypeOK, Peers
<1>7. SafeInv' /\ OwedInv'
  <2>1. ASSUME NEW q \in Peers PROVE (Staged(q) => Staged(q)') /\ (Unsent(q) => Unsent(q)')
    BY <1>0, <1>1, <1>2, MutatorsDistinct DEF Staged, Unsent, TypeOK, Staging, Undoing
  <2>2. SafeInv'
    BY <1>0, <2>1 DEF SafeInv, TypeOK
  <2>3. ASSUME Owing, NEW n \in Mutators PROVE MutOwed(n)'
    <3>1. \A a \in mut[m].rows : a.row.rev = mut[m].rev
      BY <1>0, Zenon DEF RowsInv, RowsOK
    <3> QED BY <1>0, <1>1, <1>2, <2>3, <3>1 DEF OwedInv, MutOwed, TypeOK, Revs, Staging, Undoing
  <2>4. OwedInv'
    BY <1>0, <2>1, <2>3 DEF OwedInv, Owing, Owed
  <2> QED BY <2>2, <2>4
<1> QED BY <1>3, <1>4, <1>5, <1>6, <1>7 DEF IInv

\* A mutation that fails to reserve a generation goes back.
LEMMA MutStageFailsInv == ASSUME IInv, NEW m \in Mutators, MutStageFails(m) PROVE IInv'
<1>1. mut[m].pc \in Staging /\ mut[m].at \in Peers
  BY DEF MutStageFails, Staging, IInv, LockInv, MutLocks
<1>2. lock \in [Peers -> Mutators \cup {"free", "flush", "deliver"}] /\ resv \in [Peers -> 0..gen]
  BY DEF IInv, TypeOK
<1>3. /\ Rollback(m)
      /\ lock' \in [Peers -> Mutators \cup {"free", "flush", "deliver"}]
      /\ \A p \in Peers : lock'[p] = lock[p] \/ (lock[p] = "free" /\ lock'[p] = m)
      /\ \E p \in Peers : lock'[p] = m
      /\ resv' \in [Peers -> 0..gen]
      /\ \A p \in Peers : lock[p] # m => resv'[p] = resv[p]
      /\ UNCHANGED <<cur, revs, gen, box, mu, waiting, sending, flush, got, late, crashes, kind,
                     wanted, sendable>>
  BY <1>1, <1>2 DEF MutStageFails, dbVars, peerVars, envVars
<1>5. RollsBack(m)
  BY <1>1, <1>3 DEF RollsBack
<1> QED BY <1>5, RollbackInv

\* A mutation whose row cannot be stored goes back, with the generation returned.
LEMMA MutPutFailsInv == ASSUME IInv, NEW m \in Mutators, MutPutFails(m) PROVE IInv'
<1>1. mut[m].pc \in Staging /\ mut[m].at \in Peers /\ lock[mut[m].at] = m
  BY DEF MutPutFails, Staging, IInv, LockInv, MutLocks, TypeOK, Peers
<1>2. lock \in [Peers -> Mutators \cup {"free", "flush", "deliver"}] /\ resv \in [Peers -> 0..gen]
      /\ gen \in Nat
  BY DEF IInv, TypeOK
<1>3. resv' \in [Peers -> 0..gen] /\ \A p \in Peers : lock[p] # m => resv'[p] = resv[p]
  BY <1>1, <1>2 DEF MutPutFails, Release
<1>4. /\ Rollback(m)
      /\ lock' \in [Peers -> Mutators \cup {"free", "flush", "deliver"}]
      /\ \A p \in Peers : lock'[p] = lock[p] \/ (lock[p] = "free" /\ lock'[p] = m)
      /\ \E p \in Peers : lock'[p] = m
      /\ resv' \in [Peers -> 0..gen]
      /\ \A p \in Peers : lock[p] # m => resv'[p] = resv[p]
      /\ UNCHANGED <<cur, revs, gen, box, mu, waiting, sending, flush, got, late, crashes, kind,
                     wanted, sendable>>
  BY <1>1, <1>2, <1>3 DEF MutPutFails, peerVars, envVars
<1>5. RollsBack(m)
  BY <1>1, <1>4 DEF RollsBack
<1> QED BY <1>5, RollbackInv

\* A mutation whose local apply fails goes back.
LEMMA MutAbortInv == ASSUME IInv, NEW m \in Mutators, MutAbort(m) PROVE IInv'
<1>1. mut[m].pc \in Staging /\ 1 \in Peers /\ lock[1] = m
  BY TargetsInOrder DEF MutAbort, Staging, IInv, LockInv, MutLocks
<1>2. lock \in [Peers -> Mutators \cup {"free", "flush", "deliver"}] /\ resv \in [Peers -> 0..gen]
  BY DEF IInv, TypeOK
<1>3. /\ Rollback(m)
      /\ lock' \in [Peers -> Mutators \cup {"free", "flush", "deliver"}]
      /\ \A p \in Peers : lock'[p] = lock[p] \/ (lock[p] = "free" /\ lock'[p] = m)
      /\ \E p \in Peers : lock'[p] = m
      /\ resv' \in [Peers -> 0..gen]
      /\ \A p \in Peers : lock[p] # m => resv'[p] = resv[p]
      /\ UNCHANGED <<cur, revs, gen, box, mu, waiting, sending, flush, got, late, crashes, kind,
                     wanted, sendable>>
  BY <1>1, <1>2 DEF MutAbort, dbVars, peerVars, envVars
<1>5. RollsBack(m)
  BY <1>1, <1>3 DEF RollsBack
<1> QED BY <1>5, RollbackInv

\* A mutation that commits has a row for every peer, and holds every lock: no row of an
\* older revision is left that could still owe the new one.
LEMMA MutCommitInv == ASSUME IInv, NEW m \in Mutators, MutCommit(m) PROVE IInv'
<1> DEFINE s == [mut[m] EXCEPT !.pc = "finish"]
<1>0. /\ TypeOK /\ LockInv /\ RowsInv /\ ResvInv /\ SafeInv /\ OwedInv
      /\ mut[m].pc = "apply" /\ (Ordered => mut[m].rev > cur)
      /\ cur' = mut[m].rev /\ wanted' = mut[m].rev
      /\ sendable' = sendable \cup {mut[m].rev}
      /\ mut' = [mut EXCEPT ![m] = s]
      /\ UNCHANGED <<revs, gen, box, resv, mu, lock, waiting, sending, flush, got, late, crashes,
                     kind>>
  BY Zenon DEF IInv, MutCommit, peerVars, envVars
<1>1. /\ s \in MutStates(gen')
      /\ s.pc = "finish" /\ s.rev = mut[m].rev /\ s.rows = mut[m].rows
      /\ mut[m].rev \in Revs
  <2>1. mut[m] \in MutStates(gen')
    BY <1>0, MutTyped DEF TypeOK
  <2> QED BY <2>1 DEF MutStates
<1> HIDE DEF s
<1>2. MutGoes(m, s)
  <2>1. gen' \in Nat /\ gen <= gen'
    BY <1>0 DEF TypeOK
  <2> QED BY <1>0, <1>1, <2>1, OneMutation, Zenon
<1> USE DEF MutGoes
<1>3. TypeOK'
  BY <1>0, <1>1, <1>2 DEF TypeOK, MutStates
<1>4. LockInv'
  BY <1>0, <1>1, <1>2 DEF LockInv, MutLocks, TypeOK, Undoing
<1>5. RowsInv'
  BY <1>0, <1>1, <1>2 DEF RowsInv, RowsOK, InPlace, TypeOK, Staging, Undoing
<1>6. ResvInv'
  BY <1>0, <1>1, <1>2 DEF ResvInv
<1>7. SafeInv' /\ OwedInv'
  <2>1. ASSUME NEW p \in Peers PROVE box[p].rev = mut[m].rev
    BY <1>0 DEF RowsInv, RowsOK, InPlace, Attempt, Staging
  <2>2. SafeInv'
    BY <1>0, <2>1 DEF SafeInv
  \* Its rows are everywhere, and nobody else holds a lock.
  <2>3. ASSUME NEW n \in Mutators, n # m PROVE mut[n].pc \notin Undoing \cup {"finish"}
    BY <1>0, <2>3, TargetsInOrder DEF LockInv, MutLocks
  <2>4. flush.pc # "put"
    BY <1>0, MutatorsDistinct DEF LockInv, MutLocks
  <2>5. ASSUME Owing, NEW n \in Mutators PROVE MutOwed(n)'
    <3>1. CASE n = m
      <4>1. \A a \in mut[m].rows : a.row.rev = mut[m].rev
        BY <1>0, Zenon DEF RowsInv, RowsOK, Staging
      <4>2. MutOwed(m)
        BY <1>0, <2>5 DEF OwedInv
      <4>3. mut'[m].pc = "finish" /\ mut'[m].rev = mut[m].rev /\ mut'[m].rows = mut[m].rows
        BY <1>1, <1>2
      <4> QED BY <1>0, <1>1, <3>1, <4>1, <4>2, <4>3 DEF MutOwed, Revs, Staging, Undoing
    <3>2. CASE n # m
      BY <1>0, <1>1, <1>2, <2>3, <2>5, <3>2 DEF OwedInv, MutOwed, Staging, Undoing
    <3> QED BY <3>1, <3>2
  <2>6. OwedInv'
    <3>1. ASSUME Owing PROVE wanted' <= cur' /\ cur' <= revs'
      BY <1>0, <1>1, <3>1 DEF OwedInv, MutOwed, Revs
    <3>2. \A p \in Peers : Owed(p)'
      BY <1>0, <1>1, <2>1 DEF Owed, Revs
    <3> QED BY <1>0, <2>4, <2>5, <3>1, <3>2 DEF OwedInv, Owing
  <2> QED BY <2>2, <2>6
<1> QED BY <1>3, <1>4, <1>5, <1>6, <1>7 DEF IInv

\* The rollback takes the next row to restore, and reserves a generation for it.
LEMMA MutRestageInv == ASSUME IInv, NEW m \in Mutators, MutRestage(m) PROVE IInv'
<1>0. /\ TypeOK /\ LockInv /\ RowsInv /\ ResvInv /\ SafeInv /\ OwedInv
      /\ mut[m].pc = "rollback"
  BY DEF IInv, MutRestage
<1>a. PICK a \in mut[m].todo :
        /\ IF Keep(mut[m].rev)
           THEN /\ Reserve(a.peer)
                /\ mut' = [mut EXCEPT ![m].pc = "reput", ![m].at = a.peer, ![m].gen = gen + 1,
                                      ![m].todo = @ \ {a}]
                /\ UNCHANGED box
           ELSE /\ DeleteIfUnchanged(a.peer, a.row)
                /\ mut' = [mut EXCEPT ![m].todo = @ \ {a}]
                /\ UNCHANGED <<gen, resv>>
        /\ UNCHANGED <<cur, revs, mu, lock, waiting, sending, flush, got, late, crashes, kind,
                       wanted, sendable>>
  BY Zenon DEF MutRestage, peerVars, envVars
<1>b. /\ a.peer \in Peers /\ lock[a.peer] = m /\ box[a.peer] = a.row
      /\ a.row.gen > 0 /\ a.row # NoRow
      /\ \A b \in mut[m].todo : b # a => b.peer # a.peer
  BY <1>0, <1>a DEF TypeOK, Attempts, RowsInv, RowsOK, InPlace, Attempt, Undoing, NoRow
<1> DEFINE p == a.peer
<1>1. CASE Keep(mut[m].rev)
  <2> DEFINE s == [mut[m] EXCEPT !.pc = "reput", !.at = p, !.gen = gen + 1, !.todo = mut[m].todo \ {a}]
  <2>0. /\ gen' = gen + 1
        /\ resv' = [resv EXCEPT ![p] = gen + 1]
        /\ mut' = [mut EXCEPT ![m] = s]
        /\ box' = box
    BY <1>1, <1>a, Zenon DEF Reserve
  <2>1. /\ s \in MutStates(gen')
        /\ s.pc = "reput" /\ s.at = p /\ s.gen = gen + 1 /\ s.rev = mut[m].rev
        /\ s.rows = mut[m].rows /\ s.todo = mut[m].todo \ {a}
    <3>1. mut[m] \in MutStates(gen') /\ gen + 1 \in 0..gen'
      BY <1>0, <2>0, MutTyped DEF TypeOK
    <3> QED BY <1>b, <3>1, Zenon DEF MutStates
  <2> HIDE DEF s
  <2>2. MutGoes(m, s)
    <3>1. gen' \in Nat /\ gen <= gen'
      BY <1>0, <2>0 DEF TypeOK
    <3> QED BY <1>0, <2>0, <2>1, <3>1, OneMutation, Zenon
  <2> USE DEF MutGoes
  <2>3. TypeOK'
    <3>1. resv' \in [Peers -> 0..gen'] /\ gen' \in Nat /\ \A q \in Peers : box'[q].gen <= gen'
      BY <1>0, <1>b, <2>0 DEF TypeOK, Rows
    <3> QED BY <1>0, <1>a, <2>0, <2>2, <3>1 DEF TypeOK, MutStates
  <2>4. LockInv'
    BY <1>0, <1>a, <1>b, <2>1, <2>2 DEF LockInv, MutLocks, TypeOK, Undoing
  <2>5. RowsInv'
    BY <1>0, <1>a, <1>b, <2>0, <2>1, <2>2 DEF RowsInv, RowsOK, InPlace, TypeOK, Staging, Undoing
  <2>6. ResvInv'
    BY <1>0, <1>a, <1>b, <2>0, <2>1, <2>2, MutatorsDistinct DEF ResvInv, LockInv, MutLocks, TypeOK, Peers
  <2>7. SafeInv' /\ OwedInv'
    <3>1. ASSUME NEW q \in Peers PROVE (Staged(q) => Staged(q)') /\ (Unsent(q) => Unsent(q)')
      BY <1>0, <1>a, <1>b, <2>0, <2>1, <2>2 DEF Staged, Unsent, TypeOK, Staging, Undoing
    <3>2. SafeInv'
      BY <1>0, <1>a, <2>0, <3>1 DEF SafeInv
    <3>3. ASSUME Owing, NEW n \in Mutators PROVE MutOwed(n)'
      BY <1>0, <1>a, <1>b, <2>0, <2>1, <2>2, <3>3 DEF OwedInv, MutOwed, Staging, Undoing
    <3>4. OwedInv'
      BY <1>0, <1>a, <2>0, <3>1, <3>3 DEF OwedInv, Owing, Owed
    <3> QED BY <3>2, <3>4
  <2> QED BY <2>3, <2>4, <2>5, <2>6, <2>7 DEF IInv
<1>2. CASE ~Keep(mut[m].rev)
  <2> DEFINE s == [mut[m] EXCEPT !.todo = mut[m].todo \ {a}]
  <2>0. /\ gen' = gen /\ resv' = resv
        /\ mut' = [mut EXCEPT ![m] = s]
        /\ box' = [box EXCEPT ![p] = NoRow]
    BY <1>2, <1>a, <1>b DEF DeleteIfUnchanged
  <2>1. /\ s \in MutStates(gen')
        /\ s.pc = "rollback" /\ s.rev = mut[m].rev
        /\ s.rows = mut[m].rows /\ s.todo = mut[m].todo \ {a}
    <3>1. mut[m] \in MutStates(gen')
      BY <1>0, <2>0, MutTyped DEF TypeOK
    <3> QED BY <1>0, <3>1 DEF MutStates
  <2> HIDE DEF s
  <2>2. MutGoes(m, s)
    <3>1. gen' \in Nat /\ gen <= gen'
      BY <1>0, <2>0 DEF TypeOK
    <3> QED BY <1>0, <2>0, <2>1, <3>1, OneMutation, Zenon
  <2> USE DEF MutGoes
  <2>3. TypeOK'
    <3>1. NoRow \in Rows /\ NoRow.gen = 0
      BY OutboxAssumption DEF NoRow, Rows, Revs
    <3> QED BY <1>0, <1>a, <1>b, <2>0, <2>2, <3>1 DEF TypeOK, MutStates
  <2>4. LockInv'
    BY <1>0, <1>a, <2>1, <2>2 DEF LockInv, MutLocks, TypeOK, Undoing
  <2>5. RowsInv'
    <3>1. ASSUME NEW n \in Mutators, n # m PROVE RowsOK(n)'
      BY <1>0, <1>a, <1>b, <2>0, <2>2, <3>1 DEF RowsInv, RowsOK, InPlace, LockInv, MutLocks, TypeOK, Attempts
    <3>2. RowsOK(m)'
      BY <1>0, <1>a, <1>b, <2>0, <2>1, <2>2 DEF RowsInv, RowsOK, InPlace, TypeOK, Attempts, Staging, Undoing
    <3> QED BY <3>1, <3>2 DEF RowsInv
  <2>6. ResvInv'
    BY <1>0, <1>a, <2>0, <2>1, <2>2 DEF ResvInv, TypeOK
  <2>7. SafeInv' /\ OwedInv'
    <3>1. ASSUME NEW q \in Peers, q # p PROVE (Staged(q) => Staged(q)') /\ (Unsent(q) => Unsent(q)')
      BY <1>0, <1>a, <1>b, <2>0, <2>1, <2>2, <3>1 DEF Staged, Unsent, TypeOK, Staging, Undoing
    <3>2. box'[p].rev \in sendable
      BY <1>0, <1>b, <2>0 DEF SafeInv, NoRow, TypeOK
    <3>3. SafeInv'
      BY <1>0, <1>a, <1>b, <2>0, <3>1, <3>2 DEF SafeInv, TypeOK
    <3>4. ASSUME Owing PROVE wanted = 0
      BY <1>0, <1>2, <3>4 DEF Keep, OwedInv, MutOwed, Undoing, TypeOK, Revs
    <3>5. ASSUME Owing, NEW n \in Mutators PROVE MutOwed(n)'
      <4>1. mut[n].pc = "reput" => mut[n].at \in Peers \ {p}
        BY <1>0, <1>b DEF LockInv, MutLocks
      <4> QED BY <1>0, <1>a, <1>b, <2>0, <2>1, <2>2, <3>5, <4>1 DEF OwedInv, MutOwed, TypeOK, Staging, Undoing
    <3>6. OwedInv'
      BY <1>0, <1>a, <2>0, <3>4, <3>5 DEF OwedInv, Owing, Owed, TypeOK, Revs
    <3> QED BY <3>3, <3>6
  <2> QED BY <2>3, <2>4, <2>5, <2>6, <2>7 DEF IInv
<1> QED BY <1>1, <1>2

\* The rollback stores the displaced row again: what it owed is owed again.
LEMMA MutReputInv == ASSUME IInv, NEW m \in Mutators, MutReput(m) PROVE IInv'
<1> DEFINE p   == mut[m].at
           row == [gen |-> mut[m].gen, rev |-> mut[m].rev]
           s   == [mut[m] EXCEPT !.pc = "rollback", !.rows = mut[m].rows \cup {Attempt(p, row, "eager")}]
<1>0. /\ TypeOK /\ LockInv /\ RowsInv /\ ResvInv /\ SafeInv /\ OwedInv
      /\ mut[m].pc = "reput"
      /\ Put(p, row)
      /\ mut' = [mut EXCEPT ![m].pc = "rollback",
                            ![m].rows = @ \cup (IF PutApplies(p, row.gen)
                                                THEN {Attempt(p, row, "eager")} ELSE {})]
      /\ UNCHANGED <<cur, revs, gen, mu, lock, waiting, sending, flush, got, late, crashes, kind,
                     wanted, sendable>>
  BY Zenon DEF IInv, MutReput, peerVars, envVars
<1>a. /\ p \in Peers /\ lock[p] = m /\ resv[p] = row.gen /\ row.gen > 0
      /\ row \in Rows /\ row.rev = mut[m].rev /\ row.gen = mut[m].gen /\ row.gen <= gen
      /\ row.rev \in sendable
      /\ \A a \in mut[m].todo : a.peer # p
  BY <1>0 DEF LockInv, MutLocks, ResvInv, TypeOK, Rows, RowsInv, RowsOK, Undoing
<1>b. /\ PutApplies(p, row.gen)
      /\ box' = [box EXCEPT ![p] = row] /\ resv' = [resv EXCEPT ![p] = 0]
  BY <1>0, <1>a DEF Put, PutApplies
<1>c. mut' = [mut EXCEPT ![m] = s]
  <2> HIDE DEF row, p
  <2> QED BY <1>0, <1>b, Zenon
<1>1. /\ s \in MutStates(gen')
      /\ s.pc = "rollback" /\ s.rev = mut[m].rev /\ s.todo = mut[m].todo
      /\ s.rows = mut[m].rows \cup {Attempt(p, row, "eager")}
  <2>1. mut[m] \in MutStates(gen') /\ Attempt(p, row, "eager") \in Attempts
    BY <1>0, <1>a, MutTyped DEF TypeOK, Attempt, Attempts
  <2> QED BY <2>1, Zenon DEF MutStates
<1>d. Attempt(p, row, "eager").row = row
  BY DEF Attempt
<1> HIDE DEF s, row
<1>2. MutGoes(m, s)
  <2>1. gen' \in Nat /\ gen <= gen'
    BY <1>0 DEF TypeOK
  <2> QED BY <1>0, <1>1, <1>c, <2>1, OneMutation, Zenon
<1> USE DEF MutGoes
<1>3. TypeOK'
  BY <1>0, <1>a, <1>b, <1>2 DEF TypeOK, MutStates
<1>4. LockInv'
  BY <1>0, <1>a, <1>1, <1>2 DEF LockInv, MutLocks, TypeOK, Undoing
<1>5. RowsInv'
  <2>1. ASSUME NEW n \in Mutators, n # m PROVE RowsOK(n)'
    BY <1>0, <1>a, <1>b, <1>2, <2>1 DEF RowsInv, RowsOK, InPlace, LockInv, MutLocks, TypeOK, Attempts
  <2>2. RowsOK(m)'
    BY <1>0, <1>a, <1>b, <1>d, <1>1, <1>2 DEF RowsInv, RowsOK, InPlace, TypeOK, Attempts, Staging, Undoing
  <2> QED BY <2>1, <2>2 DEF RowsInv
<1>6. ResvInv'
  <2>1. ASSUME NEW n \in Mutators, n # m, mut[n].pc \in {"put", "reput"}
        PROVE  mut[n].at \in Peers \ {p}
    BY <1>0, <1>a, <2>1 DEF LockInv, MutLocks, Peers
  <2>2. flush.pc = "put" => flush.at \in Peers \ {p}
    BY <1>0, <1>a, MutatorsDistinct DEF LockInv, MutLocks
  <2> QED BY <1>0, <1>a, <1>b, <1>1, <1>2, <2>1, <2>2 DEF ResvInv, TypeOK
<1>7. SafeInv' /\ OwedInv'
  <2>1. ASSUME NEW q \in Peers, q # p PROVE (Staged(q) => Staged(q)') /\ (Unsent(q) => Unsent(q)')
    BY <1>0, <1>a, <1>b, <1>1, <1>2, <2>1 DEF Staged, Unsent, TypeOK, Staging, Undoing
  <2>2. box'[p].rev \in sendable
    BY <1>0, <1>a, <1>b DEF TypeOK
  <2>3. SafeInv'
    BY <1>0, <1>a, <1>b, <2>1, <2>2 DEF SafeInv, TypeOK
  <2>4. ASSUME Owing, NEW n \in Mutators PROVE MutOwed(n)'
    <3>1. n # m /\ mut[n].pc = "reput" => mut[n].at \in Peers \ {p}
      BY <1>0, <1>a DEF LockInv, MutLocks
    <3> QED BY <1>0, <1>a, <1>b, <1>d, <1>1, <1>2, <2>4, <3>1
            DEF OwedInv, MutOwed, TypeOK, Staging, Undoing
  <2>5. OwedInv'
    <3>1. Owing => box'[p].rev >= wanted
      BY <1>0, <1>a, <1>b DEF OwedInv, MutOwed, Undoing, TypeOK
    <3> QED BY <1>0, <1>a, <1>b, <2>1, <2>4, <3>1 DEF OwedInv, Owing, Owed, TypeOK
  <2> QED BY <2>3, <2>5
<1> QED BY <1>3, <1>4, <1>5, <1>6, <1>7 DEF IInv

\* finish(), however the mutation ended: the rows it leaves may be sent.
Ends(m, rows) ==
  /\ Finish(m, rows)
  /\ mut[m].pc # "idle"
  /\ rows \subseteq Attempts /\ \A a \in rows : lock[a.peer] = m
  /\ sendable' \subseteq Revs /\ sendable \subseteq sendable'
  /\ \A p \in Peers : lock[p] = m =>
       /\ \/ box[p].rev \in sendable'
          \/ ~Staged(p) /\ (\A a \in rows : a.peer = p => a.row # box[p])
       /\ \/ ~Owing
          \/ box[p].rev >= wanted
          \/ ~Staged(p) /\ (\A a \in rows : a.peer = p => a.row # box[p])
  /\ resv' \in [Peers -> 0..gen] /\ \A p \in Peers : lock[p] # m => resv'[p] = resv[p]
  /\ UNCHANGED <<cur, revs, gen, box, sending, flush, got, late, crashes, kind, wanted>>

\* A mutation that ends releases its locks, and its rows wait for a delivery.
LEMMA FinishInv ==
  ASSUME IInv, NEW m \in Mutators, NEW rows, Ends(m, rows) PROVE IInv'
<1>0. TypeOK /\ LockInv /\ RowsInv /\ ResvInv /\ SafeInv /\ OwedInv
  BY DEF IInv
<1>a. /\ mut[m].pc # "idle" /\ mut' = [mut EXCEPT ![m] = IdleMut]
      /\ lock' = [p \in Peers |-> IF lock[p] = m THEN "free" ELSE lock[p]]
      /\ mu' = IF mu = m THEN "free" ELSE mu
      /\ UNCHANGED <<cur, revs, gen, box, sending, flush, got, late, crashes, kind, wanted>>
  BY Zenon DEF Ends, Finish
<1>b. /\ waiting' = waiting \cup rows
      /\ rows \subseteq Attempts /\ \A a \in rows : lock[a.peer] = m
      /\ sendable' \subseteq Revs /\ sendable \subseteq sendable'
      /\ resv' \in [Peers -> 0..gen] /\ \A p \in Peers : lock[p] # m => resv'[p] = resv[p]
  BY Zenon DEF Ends, Finish
<1>c. /\ gen \in Nat /\ revs \in Nat
      /\ lock \in [Peers -> Mutators \cup {"free", "flush", "deliver"}]
  BY <1>0 DEF TypeOK, Revs
<1>d. /\ \A p \in Peers : lock'[p] = IF lock[p] = m THEN "free" ELSE lock[p]
      /\ lock' \in [Peers -> Mutators \cup {"free", "flush", "deliver"}]
  BY <1>a, <1>c
<1>1. IdleMut \in MutStates(gen') /\ IdleMut.pc = "idle" /\ IdleMut.rev = 0
  BY <1>a, <1>c, OutboxAssumption DEF IdleMut, MutStates, Revs
<1>2. MutGoes(m, IdleMut)
  <2>1. gen' \in Nat /\ gen <= gen'
    BY <1>a, <1>c
  <2> QED BY <1>0, <1>a, <1>1, <2>1, OneMutation, Zenon
<1> USE DEF MutGoes
<1>3. TypeOK'
  <2>1. waiting' \subseteq Attempts /\ mu' \in Mutators \cup {"free"}
    BY <1>0, <1>a, <1>b DEF TypeOK
  <2> QED BY <1>0, <1>a, <1>b, <1>d, <1>2, <2>1 DEF TypeOK, MutStates
<1>4. LockInv'
  BY <1>0, <1>a, <1>d, <1>1, <1>2, MutatorsDistinct DEF LockInv, MutLocks, Undoing
<1>5. RowsInv'
  <2>1. ASSUME NEW n \in Mutators, n # m PROVE RowsOK(n)'
    <3>1. \A a \in Attempts : lock[a.peer] = n => lock'[a.peer] = n
      BY <1>d, <2>1 DEF Attempts
    <3>2. RowsOK(n) /\ mut[n].rows \subseteq Attempts /\ mut[n].todo \subseteq Attempts /\ mut'[n] = mut[n]
      BY <1>0, <1>2, <2>1 DEF RowsInv, TypeOK
    <3> QED BY <1>a, <1>b, <3>1, <3>2, Zenon DEF RowsOK, InPlace
  <2>2. RowsOK(m)'
    BY <1>1, <1>2 DEF RowsOK, Staging, Undoing
  <2> QED BY <2>1, <2>2 DEF RowsInv
<1>6. ResvInv'
  <2>1. ASSUME NEW n \in Mutators, n # m, mut[n].pc \in {"put", "reput"}
        PROVE  mut[n].at \in Peers /\ lock[mut[n].at] # m
    BY <1>0, <2>1 DEF LockInv, MutLocks, Peers
  <2>2. flush.pc = "put" => flush.at \in Peers /\ lock[flush.at] # m
    BY <1>0, MutatorsDistinct DEF LockInv, MutLocks
  <2> QED BY <1>0, <1>a, <1>b, <1>1, <1>2, <2>1, <2>2 DEF ResvInv
<1>7. ASSUME NEW q \in Peers, lock[q] # m
      PROVE  (Staged(q) => Staged(q)') /\ (Unsent(q) => Unsent(q)')
  <2>1. Staged(q) => Staged(q)'
    BY <1>d, <1>2, <1>7 DEF Staged
  <2>2. \A a \in waiting' : a.peer = q => a \in waiting
    BY <1>b, <1>7
  <2>3. Unsent(q) => Unsent(q)'
    BY <1>a, <2>2 DEF Unsent
  <2> QED BY <2>1, <2>3
\* What was not staged and waited for a flush still does.
<1>8. ASSUME NEW q \in Peers, lock[q] = m,
             ~Staged(q) /\ (\A a \in rows : a.peer = q => a.row # box[q])
      PROVE  Unsent(q) => Unsent(q)'
  BY <1>a, <1>b, <1>8 DEF Unsent
<1>9. SafeInv'
  <2>1. ASSUME NEW q \in Peers PROVE box'[q].rev \in sendable' \/ Staged(q)' \/ Unsent(q)'
    <3>1. box[q].rev \in sendable \/ Staged(q) \/ Unsent(q)
      BY <1>0 DEF SafeInv
    <3>2. CASE lock[q] = m
      <4>1. \/ box[q].rev \in sendable'
            \/ ~Staged(q) /\ (\A a \in rows : a.peer = q => a.row # box[q])
        BY <3>2, Zenon DEF Ends
      <4> QED BY <1>a, <1>b, <1>8, <3>1, <3>2, <4>1
    <3> QED BY <1>a, <1>b, <1>7, <3>1, <3>2, Zenon
  <2> QED BY <1>0, <1>a, <1>b, <2>1, Zenon DEF SafeInv
<1>10. OwedInv'
  <2>1. ASSUME Owing, NEW n \in Mutators PROVE MutOwed(n)'
    <3>1. CASE n = m
      BY <1>a, <1>c, <1>1, <1>2, <3>1 DEF MutOwed, Staging, Undoing
    <3>2. CASE n # m
      BY <1>0, <1>a, <1>2, <2>1, <3>2, Zenon DEF OwedInv, MutOwed
    <3> QED BY <3>1, <3>2
  <2>2. ASSUME Owing, NEW q \in Peers PROVE Owed(q)'
    <3>1. Owed(q)
      BY <1>0, <2>2 DEF OwedInv
    <3>2. CASE lock[q] = m
      <4>1. \/ box[q].rev >= wanted
            \/ ~Staged(q) /\ (\A a \in rows : a.peer = q => a.row # box[q])
        BY <2>2, <3>2 DEF Ends
      <4> QED BY <1>a, <1>8, <3>1, <3>2, <4>1, Zenon DEF Owed
    <3> QED BY <1>a, <1>7, <3>1, <3>2 DEF Owed
  <2> QED BY <1>0, <1>a, <2>1, <2>2 DEF OwedInv, Owing
<1> QED BY <1>3, <1>4, <1>5, <1>6, <1>9, <1>10 DEF IInv

\* A committed or restored mutation ends.
LEMMA MutFinishInv == ASSUME IInv, NEW m \in Mutators, MutFinish(m) PROVE IInv'
<1>0. /\ TypeOK /\ LockInv /\ RowsInv /\ ResvInv /\ SafeInv /\ OwedInv
      /\ mut[m].pc = "finish" \/ (mut[m].pc = "rollback" /\ mut[m].todo = {})
      /\ Finish(m, mut[m].rows)
      /\ UNCHANGED <<cur, revs, gen, box, resv, sending, flush, got, late, crashes, kind, wanted,
                     sendable>>
  BY DEF IInv, MutFinish, dbVars, peerVars, envVars
<1>1. /\ mut[m].rows \subseteq Attempts /\ sendable \subseteq Revs
      /\ resv \in [Peers -> 0..gen]
  BY <1>0 DEF TypeOK
<1>2. /\ RowsOK(m) /\ (Owing => MutOwed(m))
      /\ mut[m].pc \in Undoing \cup {"finish"} /\ mut[m].pc \notin Staging /\ mut[m].pc # "reput"
      /\ mut[m].pc \in Undoing => mut[m].todo = {}
  BY <1>0, Zenon DEF RowsInv, OwedInv, Undoing, Staging
<1>3. \A a \in mut[m].rows :
        /\ lock[a.peer] = m
        /\ a.row.rev \in sendable
        /\ Owing => a.row.rev >= wanted
  BY <1>2, Zenon DEF RowsOK, MutOwed, InPlace, Undoing
<1>4. \A p \in Peers : lock[p] = m => ~Staged(p)
  BY <1>2, Zenon DEF Staged
<1>5. Ends(m, mut[m].rows)
  BY <1>0, <1>1, <1>2, <1>3, <1>4 DEF Ends
<1> QED BY <1>5, FinishInv

\* A rollback that fails ends: the rows it leaves stored are rows a later flush may send.
LEMMA MutRollbackFailsInv == ASSUME IInv, NEW m \in Mutators, MutRollbackFails(m) PROVE IInv'
<1>0. /\ TypeOK /\ LockInv /\ RowsInv /\ OwedInv
      /\ kind.rollbackFails /\ mut[m].pc \in Undoing
      /\ \/ resv' = resv
         \/ mut[m].pc = "reput" /\ Release(mut[m].at, mut[m].gen)
      /\ sendable' = sendable \cup {box[p].rev : p \in {q \in Peers : lock[q] = m}}
      /\ Finish(m, {})
      /\ UNCHANGED <<cur, revs, gen, box, sending, flush, got, late, crashes, kind, wanted>>
  BY DEF IInv, MutRollbackFails, Undoing, peerVars, envVars
<1>1. /\ sendable' \subseteq Revs /\ sendable \subseteq sendable'
      /\ \A p \in Peers : lock[p] = m => box[p].rev \in sendable'
  BY <1>0 DEF TypeOK, Rows
<1>2. resv' \in [Peers -> 0..gen] /\ \A p \in Peers : lock[p] # m => resv'[p] = resv[p]
  <2>1. resv \in [Peers -> 0..gen] /\ gen \in Nat
    BY <1>0 DEF TypeOK
  <2>2. mut[m].pc = "reput" => mut[m].at \in Peers /\ lock[mut[m].at] = m
    BY <1>0, Zenon DEF LockInv, MutLocks
  <2>3. resv' = resv \/ (mut[m].pc = "reput" /\ resv' = [resv EXCEPT ![mut[m].at] = 0])
    BY <1>0 DEF Release
  <2> QED BY <2>1, <2>2, <2>3
<1>3. Owing => \A p \in Peers : lock[p] = m => box[p].rev >= wanted \/ ~Staged(p)
  <2> SUFFICES ASSUME Owing, NEW p \in Peers, lock[p] = m, Staged(p) PROVE box[p].rev >= wanted
    OBVIOUS
  <2>1. (\E a \in mut[m].todo : a.peer = p) \/ (mut[m].pc = "reput" /\ mut[m].at = p)
    BY <1>0 DEF Staged, Staging, Undoing
  <2>2. kind.mutationMu /\ MutOwed(m) /\ InPlace(m, mut[m].todo)
    BY <1>0, Zenon DEF OwedInv, Owing, RowsInv, RowsOK
  <2> QED BY <1>0, <2>1, <2>2 DEF MutOwed, InPlace, Attempt
<1>4. mut[m].pc # "idle"
  BY <1>0, Zenon DEF Undoing
<1>5. Ends(m, {})
  BY <1>0, <1>1, <1>2, <1>3, <1>4, Zenon DEF Ends
<1> QED BY <1>5, FinishInv
===============================================================================
