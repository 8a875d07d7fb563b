------------------------------ MODULE WorkProofs ------------------------------
(***************************************************************************)
(* What the compute engine guarantees about its tasks: the status tables   *)
(* and the escrow of the coordinator, for any number of tasks, nodes,      *)
(* resumers and steps.                                                     *)
(***************************************************************************)
EXTENDS TaskStatus, PipelineRun, Escrow, FiniteSetTheorems, TLAPS

\* The time a leaf may take, by default.
USE ZenonT(3), SMTT(50)

(* ---------------------------- the status tables -------------------------- *)

\* No entry is in both tables, a retired one is not accepted, and metadata
\* belongs to an active entry.
GoodEntry(e) ==
  /\ e \in EntryOf(Tasks)
  /\ e.ret => e.st = "none" /\ e.acc = NoReq
  /\ e.meta => e.st # "none"

\* Nothing more is expected for the task: it has ended or it is forgotten.
Settled(e) == Observed(e) \in TerminalStatus \cup {"none"}

\* What pruning may make of an entry.
PrunedTo(e, f) ==
  /\ GoodEntry(f)
  /\ f.acc # e.acc => f.acc = NoReq /\ Settled(f)
  /\ Settled(e) => Observed(f) \in {Observed(e), "none"}
  /\ e = NoTaskEntry => f = NoTaskEntry

\* Pruning may leave an entry alone, take it from the retired table, forget it
\* when it has ended and retire it when it has not (pruneRetiredTaskStatusesLocked,
\* deleteTaskStatusLocked, retireActiveTaskStatusLocked).
LEMMA EntryPrunes ==
  ASSUME NEW e, GoodEntry(e)
  PROVE  /\ PrunedTo(e, e)
         /\ e.ret => PrunedTo(e, [e EXCEPT !.ret = FALSE])
         /\ e.st \in TerminalStatus => PrunedTo(e, Forget(e))
         /\ e.st \notin TerminalStatus /\ e.st # "none" => PrunedTo(e, Retire(e))
<1>1. PrunedTo(e, e)
  BY DEF PrunedTo
<1> SUFFICES /\ e.ret => PrunedTo(e, [e EXCEPT !.ret = FALSE])
             /\ e.st \in TerminalStatus => PrunedTo(e, Forget(e))
             /\ e.st \notin TerminalStatus /\ e.st # "none" => PrunedTo(e, Retire(e))
  BY <1>1
<1> USE DEF TerminalStatus
<1>2. ASSUME e.ret PROVE PrunedTo(e, [e EXCEPT !.ret = FALSE])
  <2> DEFINE f == [e EXCEPT !.ret = FALSE]
  <2>1. f \in EntryOf(Tasks) /\ f.st = e.st /\ ~ f.ret /\ f.meta = e.meta /\ f.acc = e.acc
    BY DEF GoodEntry, EntryOf
  <2>2. e # NoTaskEntry
    BY <1>2 DEF NoTaskEntry
  <2>3. GoodEntry(f)
    BY <2>1 DEF GoodEntry
  <2>4. Observed(f) = "none"
    BY <1>2, <2>1 DEF GoodEntry, Observed
  <2> QED BY <2>1, <2>2, <2>3, <2>4 DEF PrunedTo
<1>3. ASSUME e.st \in TerminalStatus PROVE PrunedTo(e, Forget(e))
  <2>1. /\ Forget(e) \in EntryOf(Tasks)
        /\ Forget(e).st = "none" /\ Forget(e).ret = e.ret /\ Forget(e).meta = FALSE
        /\ Forget(e).acc = e.acc
    BY DEF GoodEntry, EntryOf, Forget, TaskStatuses
  <2>2. e # NoTaskEntry
    BY <1>3 DEF NoTaskEntry
  <2>3. GoodEntry(Forget(e))
    BY <2>1 DEF GoodEntry
  <2>4. Observed(Forget(e)) = "none"
    BY <1>3, <2>1 DEF GoodEntry, Observed
  <2> QED BY <2>1, <2>2, <2>3, <2>4 DEF PrunedTo
<1>4. ASSUME e.st \notin TerminalStatus, e.st # "none" PROVE PrunedTo(e, Retire(e))
  <2>1. /\ Retire(e) \in EntryOf(Tasks)
        /\ Retire(e).st = "none" /\ Retire(e).ret /\ Retire(e).meta = FALSE
        /\ Retire(e).acc = NoReq
    BY DEF EntryOf, Retire, TaskStatuses, NoTaskEntry
  <2>2. e # NoTaskEntry
    BY <1>4 DEF NoTaskEntry
  <2>3. GoodEntry(Retire(e))
    BY <2>1 DEF GoodEntry
  <2>4. Observed(Retire(e)) = "failed" /\ ~ Settled(e)
    BY <1>4, <2>1 DEF GoodEntry, Observed, Settled
  <2> QED BY <2>1, <2>2, <2>3, <2>4 DEF PrunedTo, Settled
<1> QED BY <1>2, <1>3, <1>4

\* Pruning twice is pruning.
LEMMA PrunesTwice ==
  ASSUME NEW e, NEW f, NEW g, PrunedTo(e, f), PrunedTo(f, g)
  PROVE  PrunedTo(e, g)
BY DEF PrunedTo, TerminalStatus, Settled

\* The tables, and what pruning makes of them as a whole.
TableStates == [tab : [Tasks -> EntryOf(Tasks)], age : [Tasks -> 0 .. TerminalTTL]]
GoodTable(s) == s \in TableStates /\ \A t \in Tasks : GoodEntry(s.tab[t])
TablePruned(s, a) ==
  GoodTable(a) /\ \A t \in Tasks : PrunedTo(s.tab[t], a.tab[t])

\* The candidates that stay when the victims go are within the limit.
LEMMA VictimsLeave ==
  ASSUME NEW s, NEW cands \in SUBSET Tasks, NEW prot, NEW D \in Victims(s, cands, prot)
  PROVE  D \subseteq cands /\ IsFiniteSet(cands \ D) /\ Cardinality(cands \ D) <= Limit
<1>1. D \subseteq cands /\ cands \cap D = D
  BY DEF Victims
<1>2. IsFiniteSet(cands) /\ Cardinality(cands) \in Nat
  BY TaskStatusAssumption, FS_Subset, FS_CardinalityType
<1>3. /\ IsFiniteSet(cands \ D)
      /\ Cardinality(cands \ D) = Cardinality(cands) - Cardinality(D)
  <2>1. /\ IsFiniteSet(cands \ D)
        /\ Cardinality(cands \ D) = Cardinality(cands) - Cardinality(cands \cap D)
    BY <1>2, FS_Difference
  <2> QED BY <1>1, <2>1
<1>4. Cardinality(D) = IF Cardinality(cands) > Limit THEN Cardinality(cands) - Limit ELSE 0
  BY DEF Victims
<1>5. Limit \in Nat
  BY TaskStatusAssumption
<1>6. Cardinality(cands \ D) <= Limit
  BY <1>2, <1>3, <1>4, <1>5
<1> QED BY <1>1, <1>3, <1>6

\* Removing some active entries from a good table is pruning.
LEMMA RemovePrunes ==
  ASSUME NEW s, GoodTable(s), NEW ts \in SUBSET Active(s)
  PROVE  /\ TablePruned(s, Remove(s, ts))
         /\ Active(Remove(s, ts)) = Active(s) \ ts
<1> DEFINE a == Remove(s, ts)
<1>1. \A t \in Tasks : PrunedTo(s.tab[t], a.tab[t])
  <2> SUFFICES ASSUME NEW t \in Tasks PROVE PrunedTo(s.tab[t], a.tab[t])
    OBVIOUS
  <2>1. GoodEntry(s.tab[t])
    BY DEF GoodTable
  <2>2. t \in ts => s.tab[t].st # "none"
    BY DEF Active
  <2>3. a.tab[t] = IF t \notin ts THEN s.tab[t]
                   ELSE IF s.tab[t].st \in TerminalStatus THEN Forget(s.tab[t])
                   ELSE Retire(s.tab[t])
    BY DEF Remove
  <2> QED BY <2>1, <2>2, <2>3, EntryPrunes
<1>2. \A t \in Tasks : GoodEntry(a.tab[t]) /\ a.tab[t] \in EntryOf(Tasks)
  BY <1>1 DEF PrunedTo, GoodEntry
<1>3. a.age \in [Tasks -> 0 .. TerminalTTL]
  BY TaskStatusAssumption DEF Remove, GoodTable, TableStates
<1>4. a.tab \in [Tasks -> EntryOf(Tasks)]
  BY <1>2 DEF Remove
<1>5. a = [tab |-> a.tab, age |-> a.age]
  BY DEF Remove
<1>6. GoodTable(a)
  BY <1>2, <1>3, <1>4, <1>5 DEF GoodTable, TableStates
<1>7. \A t \in Tasks : t \in Active(a) <=> t \in Active(s) /\ t \notin ts
  BY DEF Active, Remove, Forget, Retire, NoTaskEntry, GoodTable, GoodEntry, EntryOf
<1> QED BY <1>1, <1>6, <1>7 DEF TablePruned, Active

\* Pruning a table twice is pruning.
LEMMA TablePrunesTwice ==
  ASSUME NEW s, NEW a, NEW b, TablePruned(s, a), TablePruned(a, b)
  PROVE  TablePruned(s, b)
BY PrunesTwice DEF TablePruned

\* The active part of pruneTaskStatusesLocked prunes, down to the limit.
LEMMA ActivePrunes ==
  ASSUME NEW s, GoodTable(s), NEW prot, NEW a \in PruneActive(s, prot)
  PROVE  TablePruned(s, a) /\ Cardinality(Active(a)) <= Limit
<1> DEFINE old == {t \in Active(s) : s.age[t] >= TTL(s.tab[t])}
           s1  == Remove(s, old)
<1>1. TablePruned(s, s1)
  BY RemovePrunes
<1>2. GoodTable(s1)
  BY <1>1 DEF TablePruned
<1>3. PICK D \in Victims(s1, Active(s1), prot) : a = Remove(s1, D)
  BY DEF PruneActive
<1> HIDE DEF s1
<1>4. /\ D \subseteq Active(s1)
      /\ Cardinality(Active(s1) \ D) <= Limit
  BY VictimsLeave DEF Active
<1>5. TablePruned(s1, a) /\ Active(a) = Active(s1) \ D
  BY <1>2, <1>3, <1>4, RemovePrunes
<1> QED BY <1>1, <1>4, <1>5, TablePrunesTwice

\* pruneRetiredTaskStatusesLocked prunes the retired table down to the limit
\* and leaves the active one alone.
LEMMA RetiredPrunes ==
  ASSUME NEW s, GoodTable(s), NEW prot, NEW a \in PruneRetired(s, prot)
  PROVE  /\ TablePruned(s, a)
         /\ Active(a) = Active(s)
         /\ Cardinality(Retired(a)) <= Limit
<1> DEFINE old  == {t \in Retired(s) \ {prot} : s.age[t] >= TerminalTTL}
           left == Retired(s) \ old
<1>1. PICK D \in Victims(s, left, prot) :
        a = [s EXCEPT !.tab = [t \in Tasks |-> IF t \in old \cup D
                                               THEN [s.tab[t] EXCEPT !.ret = FALSE]
                                               ELSE s.tab[t]]]
  BY DEF PruneRetired
<1>2. /\ D \subseteq left
      /\ Cardinality(left \ D) <= Limit
  <2>1. left \in SUBSET Tasks
    BY DEF Retired
  <2> HIDE DEF left
  <2> QED BY <2>1, VictimsLeave
<1>3. /\ a = [tab |-> a.tab, age |-> s.age]
      /\ a.age = s.age
      /\ a.tab = [t \in Tasks |-> IF t \in old \cup D THEN [s.tab[t] EXCEPT !.ret = FALSE]
                                  ELSE s.tab[t]]
  BY <1>1 DEF GoodTable, TableStates
<1>4. \A t \in Tasks : t \in old \cup D => s.tab[t].ret
  BY <1>2 DEF Retired
<1> HIDE DEF old
<1>5. \A t \in Tasks : PrunedTo(s.tab[t], a.tab[t])
  <2> SUFFICES ASSUME NEW t \in Tasks PROVE PrunedTo(s.tab[t], a.tab[t])
    OBVIOUS
  <2>1. GoodEntry(s.tab[t])
    BY DEF GoodTable
  <2>2. a.tab[t] = IF t \in old \cup D THEN [s.tab[t] EXCEPT !.ret = FALSE] ELSE s.tab[t]
    BY <1>3
  <2> QED BY <1>4, <2>1, <2>2, EntryPrunes
<1>6. \A t \in Tasks : GoodEntry(a.tab[t]) /\ a.tab[t] \in EntryOf(Tasks)
  BY <1>5 DEF PrunedTo, GoodEntry
<1>7. a.tab \in [Tasks -> EntryOf(Tasks)]
  BY <1>3, <1>6
<1>8. GoodTable(a)
  BY <1>3, <1>6, <1>7 DEF GoodTable, TableStates
<1>9. \A t \in Tasks : /\ a.tab[t].st = s.tab[t].st
                       /\ a.tab[t].ret <=> s.tab[t].ret /\ t \notin old \cup D
  BY <1>3 DEF GoodTable, GoodEntry, EntryOf
<1>10. Active(a) = Active(s)
  BY <1>9 DEF Active
<1>11. Retired(a) = left \ D
  BY <1>9 DEF Retired
<1> QED BY <1>2, <1>5, <1>8, <1>10, <1>11 DEF TablePruned

\* pruneTaskStatusesLocked prunes both tables, down to the limit.
LEMMA PruneTaskStatusesPrunes ==
  ASSUME NEW s, GoodTable(s), NEW prot, NEW a \in PruneTaskStatuses(s, prot)
  PROVE  /\ TablePruned(s, a)
         /\ Cardinality(Active(a)) <= Limit
         /\ Cardinality(Retired(a)) <= Limit
<1>1. PICK r \in PruneRetired(s, prot) : \E b \in PruneActive(r, prot) : a \in PruneRetired(b, prot)
  BY DEF PruneTaskStatuses
<1>2. PICK b \in PruneActive(r, prot) : a \in PruneRetired(b, prot)
  BY <1>1
<1>3. TablePruned(s, r) /\ GoodTable(r)
  BY <1>1, RetiredPrunes DEF TablePruned
<1>4. TablePruned(r, b) /\ GoodTable(b) /\ Cardinality(Active(b)) <= Limit
  BY <1>2, <1>3, ActivePrunes DEF TablePruned
<1>5. /\ TablePruned(b, a) /\ Active(a) = Active(b)
      /\ Cardinality(Retired(a)) <= Limit
  BY <1>2, <1>4, RetiredPrunes
<1>6. TablePruned(s, a)
  BY <1>3, <1>4, <1>5, TablePrunesTwice
<1> QED BY <1>4, <1>5, <1>6

\* What a step may make of the entry of a task it is not about.
Changed(e, f) ==
  /\ f.acc # e.acc => f.acc = NoReq /\ Settled(f)
  /\ Settled(e) => Settled(f)
  /\ Observed(e) \in TerminalStatus => Observed(f) \in {Observed(e), "none"}
  /\ e = NoTaskEntry => f = NoTaskEntry

\* What an operator on the entry of one task may make of it.
Moved(e, f) ==
  /\ GoodEntry(f)
  /\ f.acc # e.acc => f.acc = NoReq /\ Settled(f)
  /\ Observed(e) \in TerminalStatus => Observed(f) = Observed(e)

\* Storing a status in an entry that has not ended.
LEMMA StoreMoves ==
  ASSUME NEW e, GoodEntry(e), ~ e.ret, NEW s \in TaskStatuses \ {"none"},
         e.st \in TerminalStatus => e.st = s
  PROVE  /\ Moved(e, Store(e, s))
         /\ Observed(Store(e, s)) = s
<1> USE DEF TerminalStatus
<1> DEFINE f == Store(e, s)
<1>1. /\ f \in EntryOf(Tasks) /\ f.st = s /\ f.ret = e.ret
      /\ f.acc = IF s \in TerminalStatus THEN NoReq ELSE e.acc
  BY DEF GoodEntry, EntryOf, Store
<1>2. GoodEntry(f) /\ Observed(f) = s
  BY <1>1 DEF GoodEntry, Observed
<1> HIDE DEF f
<1>3. Observed(e) = e.st
  BY DEF Observed
<1>4. Moved(e, f)
  BY <1>1, <1>2, <1>3 DEF Moved, Settled
<1> QED BY <1>2, <1>4 DEF f

\* setTaskStatus never leaves a terminal status; what it stores after Close, and
\* a terminal status it is given, end the task.
LEMMA SetTaskStatusMoves ==
  ASSUME NEW e, GoodEntry(e), NEW s \in TaskStatuses \ {"none"}, NEW closed \in BOOLEAN
  PROVE  /\ Moved(e, SetTaskStatus(e, s, closed))
         /\ closed \/ s \in TerminalStatus => Settled(SetTaskStatus(e, s, closed))
<1> DEFINE s1 == IF closed THEN "failed" ELSE s
<1>1. CASE e.ret \/ e.st \in TerminalStatus
  BY <1>1 DEF SetTaskStatus, Moved, Settled, Observed, TerminalStatus, GoodEntry
<1>2. CASE ~ (e.ret \/ e.st \in TerminalStatus)
  <2>1. SetTaskStatus(e, s, closed) = Store(e, s1)
    BY <1>2 DEF SetTaskStatus
  <2>2. s1 \in TaskStatuses \ {"none"}
    BY DEF TaskStatuses, TerminalStatus
  <2> HIDE DEF s1
  <2>3. Moved(e, Store(e, s1)) /\ Observed(Store(e, s1)) = s1
    BY <1>2, <2>2, StoreMoves
  <2>4. closed \/ s \in TerminalStatus => s1 \in TerminalStatus
    BY DEF s1, TerminalStatus
  <2> QED BY <2>1, <2>3, <2>4 DEF Settled
<1> QED BY <1>1, <1>2

\* RecordTaskResponse, when it does not turn a completion into a failure.
LEMMA RecordTaskResponseMoves ==
  ASSUME NEW e, GoodEntry(e), NEW s \in TerminalStatus, e.st = "completed" => s = "completed"
  PROVE  Moved(e, RecordTaskResponse(e, s)) /\ Settled(RecordTaskResponse(e, s))
<1>1. CASE e.ret \/ e.st = "failed"
  BY <1>1 DEF RecordTaskResponse, Moved, Settled, Observed, TerminalStatus, GoodEntry
<1>2. CASE ~ (e.ret \/ e.st = "failed")
  <2>1. RecordTaskResponse(e, s) = Store(e, s)
    BY <1>2 DEF RecordTaskResponse
  <2>2. Moved(e, Store(e, s)) /\ Observed(Store(e, s)) = s
    BY <1>2, StoreMoves DEF TaskStatuses, TerminalStatus
  <2> QED BY <2>1, <2>2 DEF Settled
<1> QED BY <1>1, <1>2

\* Delegating changes neither the status nor the accepted request.
LEMMA DelegateMoves ==
  ASSUME NEW e, GoodEntry(e), e.st # "none", NEW ns \in SUBSET Nodes
  PROVE  LET f == Delegate(e, ns)
         IN GoodEntry(f) /\ f.st = e.st /\ f.ret = e.ret /\ f.acc = e.acc
BY DEF GoodEntry, EntryOf, Delegate, Known

\* A callback never reopens a task that has ended or is forgotten.
LEMMA AcceptTaskCallbackMoves ==
  ASSUME NEW e, GoodEntry(e), NEW p \in Nodes, NEW s \in TerminalStatus, NEW ingest \in BOOLEAN
  PROVE  LET f == AcceptTaskCallback(e, p, s, ingest)
         IN /\ Moved(e, f)
            /\ Settled(e) => Settled(f)
            /\ e = NoTaskEntry => f = e
<1> DEFINE f == AcceptTaskCallback(e, p, s, ingest)
           g == Delegate(e, {p})
           s1 == IF s = "completed" /\ ingest THEN "ingesting" ELSE s
<1>1. CASE ~ AcceptsCallback(e, p)
  BY <1>1 DEF AcceptTaskCallback, Moved
<1>2. CASE AcceptsCallback(e, p)
  <2>0. e.st # "none" /\ e # NoTaskEntry
    BY <1>2 DEF AcceptsCallback, NoTaskEntry
  <2>1. GoodEntry(g) /\ g.st = e.st /\ g.ret = e.ret /\ g.acc = e.acc
    BY <2>0, DelegateMoves
  <2>2. Observed(g) = Observed(e) /\ Observed(e) = e.st /\ ~ g.ret
    BY <2>0, <2>1 DEF Observed, GoodEntry
  <2>3. CASE e.st \in TerminalStatus \cup {"ingesting"}
    <3>1. f = g
      BY <1>2, <2>3 DEF AcceptTaskCallback
    <3> HIDE DEF f, g
    <3> QED BY <2>0, <2>1, <2>2, <3>1 DEF Moved, Settled, f
  <2>4. CASE e.st \notin TerminalStatus \cup {"ingesting"}
    <3>1. f = Store(g, s1)
      BY <1>2, <2>4 DEF AcceptTaskCallback
    <3>2. s1 \in TaskStatuses \ {"none"}
      BY DEF TaskStatuses, TerminalStatus
    <3> HIDE DEF f, g, s1
    <3>3. Moved(g, f)
      BY <2>1, <2>2, <2>4, <3>1, <3>2, StoreMoves
    <3>4. ~ Settled(e)
      BY <2>0, <2>2, <2>4 DEF Settled
    <3> QED BY <2>0, <2>1, <2>2, <3>3, <3>4 DEF Moved, f
  <2> QED BY <2>3, <2>4
<1> QED BY <1>1, <1>2

\* failAcceptedTasks leaves no accepted request and ends what was accepted.
LEMMA FailAcceptedMoves ==
  ASSUME NEW e, GoodEntry(e)
  PROVE  LET f == FailAccepted(e)
         IN /\ GoodEntry(f) /\ Changed(e, f) /\ f.acc = NoReq
            /\ e.acc # NoReq => Settled(f)
<1> DEFINE f == FailAccepted(e)
<1> USE DEF TerminalStatus
<1>1. CASE e.acc = NoReq
  BY <1>1 DEF FailAccepted, Changed
<1>2. CASE e.acc # NoReq
  <2>0. ~ e.ret /\ e # NoTaskEntry /\ e.st \in TaskStatuses
    BY <1>2 DEF GoodEntry, NoTaskEntry, EntryOf
  <2>1. CASE e.st \in TerminalStatus
    <3>1. /\ f = [e EXCEPT !.acc = NoReq]
          /\ f \in EntryOf(Tasks) /\ f.st = e.st /\ f.ret = e.ret /\ f.acc = NoReq
          /\ f.meta = e.meta
      BY <1>2, <2>1 DEF FailAccepted, GoodEntry, EntryOf
    <3> HIDE DEF f
    <3>2. Observed(f) = Observed(e) /\ Observed(e) = e.st /\ GoodEntry(f)
      BY <2>1, <3>1 DEF Observed, GoodEntry
    <3> QED BY <2>0, <2>1, <3>1, <3>2 DEF Changed, Settled, f
  <2>2. CASE e.st \notin TerminalStatus
    <3>1. f = Store(e, "failed")
      BY <1>2, <2>2 DEF FailAccepted
    <3>2. f.acc = NoReq
      BY <3>1 DEF Store, GoodEntry, EntryOf
    <3> HIDE DEF f
    <3>3. Moved(e, f) /\ Observed(f) = "failed"
      BY <2>0, <2>2, <3>1, StoreMoves DEF TaskStatuses
    <3>4. Observed(e) \notin TerminalStatus
      BY <2>0, <2>2 DEF Observed
    <3> QED BY <2>0, <3>2, <3>3, <3>4 DEF Moved, Changed, Settled, f
  <2> QED BY <2>1, <2>2
<1> QED BY <1>1, <1>2

Tables == [tab |-> tab, age |-> age]

TablesOK ==
  /\ GoodTable(Tables)
  /\ Cardinality(Active(Tables)) <= Limit /\ Cardinality(Retired(Tables)) <= Limit

TSTyped ==
  /\ stage \in [Tasks -> {"none", "queued", "running", "gone"}]
  /\ remote \in [Tasks -> BOOLEAN]
  /\ call \in [Tasks -> {"new", "local", "remote", "waiting", "ingest", "returned"}]
  /\ answer \in [Tasks -> TerminalStatus \cup {"none"}]
  /\ phase \in {"open", "closing", "closed"}

\* A task that was not registered has left no trace, a queued one is accepted or
\* settled, and a closed engine holds no accepted request.
TaskOK(t) ==
  /\ call[t] = "new" => tab[t] = NoTaskEntry /\ stage[t] = "none"
  /\ stage[t] = "queued" => tab[t].acc # NoReq \/ Settled(tab[t])
  /\ phase = "closed" => tab[t].acc = NoReq

TSInv == TablesOK /\ TSTyped /\ \A t \in Tasks : TaskOK(t)

\* What TerminalStable asks of a step.
StatusKept ==
  \A t \in Tasks : Observed(tab[t]) \in TerminalStatus =>
    Observed(tab'[t]) \in {Observed(tab[t]), "none"}

\* The invariant implies the type invariant with the limits, and CloseSettles.
LEMMA TSInvImplies == TSInv => TSTypeOK /\ CloseSettles
<1> SUFFICES ASSUME TSInv PROVE TSTypeOK /\ CloseSettles
  OBVIOUS
<1>1. /\ tab \in [Tasks -> EntryOf(Tasks)]
      /\ age \in [Tasks -> 0 .. TerminalTTL]
      /\ \A t \in Tasks : GoodEntry(tab[t])
  BY DEF TSInv, TablesOK, GoodTable, TableStates, Tables
<1>2. /\ Cardinality({t \in Tasks : tab[t].st # "none"}) <= Limit
      /\ Cardinality({t \in Tasks : tab[t].ret}) <= Limit
  BY DEF TSInv, TablesOK, Active, Retired, Tables
<1>3. TSTypeOK
  BY <1>1, <1>2 DEF TSInv, TSTyped, TSTypeOK, GoodEntry
<1>4. CloseSettles
  BY DEF TSInv, TaskOK, CloseSettles, Settled
<1> QED BY <1>3, <1>4

\* The engine starts with empty tables.
LEMMA TSInitInv == TSInit => TSInv
<1> SUFFICES ASSUME TSInit PROVE TSInv
  OBVIOUS
<1>1. GoodEntry(NoTaskEntry)
  BY DEF GoodEntry, EntryOf, NoTaskEntry, TaskStatuses
<1>2. GoodTable(Tables)
  BY <1>1, TaskStatusAssumption DEF TSInit, GoodTable, TableStates, Tables, GoodEntry
<1>3. Active(Tables) = {} /\ Retired(Tables) = {}
  BY DEF TSInit, Active, Retired, Tables, NoTaskEntry
<1>4. TablesOK
  BY <1>2, <1>3, FS_EmptySet, TaskStatusAssumption DEF TablesOK
<1>5. TSTyped /\ \A t \in Tasks : TaskOK(t)
  BY DEF TSInit, TSTyped, TaskOK
<1> QED BY <1>4, <1>5 DEF TSInv

\* Pruned entries are changed as any step may change them.
LEMMA PrunedChanged ==
  ASSUME NEW e, NEW f, NEW g, PrunedTo(f, g)
  PROVE  /\ e = f => Changed(e, g)
         /\ Changed(e, f) => Changed(e, g)
         /\ Moved(e, f) => /\ g.acc # e.acc => g.acc = NoReq /\ Settled(g)
                           /\ Observed(e) \in TerminalStatus => Observed(g) \in {Observed(e), "none"}
         /\ Settled(f) => Settled(g)
BY DEF PrunedTo, Changed, Settled, Moved

\* Pruning keeps the tables in order.
LEMMA PruneKeeps ==
  ASSUME NEW s, GoodTable(s), NEW prot, NEW a \in PruneTaskStatuses(s, prot),
         tab' = a.tab, age' \in [Tasks -> 0 .. TerminalTTL]
  PROVE  TablesOK' /\ \A u \in Tasks : PrunedTo(s.tab[u], tab'[u])
<1>1. /\ TablePruned(s, a)
      /\ Cardinality(Active(a)) <= Limit
      /\ Cardinality(Retired(a)) <= Limit
  BY PruneTaskStatusesPrunes
<1>2. /\ GoodTable(a) /\ \A u \in Tasks : PrunedTo(s.tab[u], a.tab[u])
  BY <1>1 DEF TablePruned
<1>3. GoodTable(Tables')
  BY <1>2 DEF GoodTable, TableStates, Tables
<1>4. Active(Tables') = Active(a) /\ Retired(Tables') = Retired(a)
  BY DEF Active, Retired, Tables
<1> QED BY <1>1, <1>2, <1>3, <1>4 DEF TablesOK

\* Publishing a good entry keeps the tables in order.
LEMMA PublishKeeps ==
  ASSUME TablesOK, NEW t \in Tasks, NEW e, GoodEntry(e), Publish(t, e)
  PROVE  /\ TablesOK'
         /\ PrunedTo(e, tab'[t])
         /\ \A u \in Tasks \ {t} : PrunedTo(tab[u], tab'[u])
<1> DEFINE s == [tab |-> [tab EXCEPT ![t] = e], age |-> [age EXCEPT ![t] = 0]]
<1>1. /\ tab \in [Tasks -> EntryOf(Tasks)] /\ age \in [Tasks -> 0 .. TerminalTTL]
      /\ \A u \in Tasks : GoodEntry(tab[u])
  BY DEF TablesOK, GoodTable, TableStates, Tables
<1>2. s.tab \in [Tasks -> EntryOf(Tasks)] /\ s.age \in [Tasks -> 0 .. TerminalTTL]
  BY <1>1, TaskStatusAssumption DEF GoodEntry
<1>3. s.tab[t] = e /\ \A u \in Tasks \ {t} : s.tab[u] = tab[u]
  BY <1>1
<1>4. GoodTable(s)
  BY <1>1, <1>2, <1>3 DEF GoodTable, TableStates
<1>5. PICK a \in PruneTaskStatuses(s, t) : tab' = a.tab /\ age' = a.age
  BY DEF Publish
<1> HIDE DEF s
<1>6. age' \in [Tasks -> 0 .. TerminalTTL]
  BY <1>4, <1>5, PruneTaskStatusesPrunes DEF TablePruned, GoodTable, TableStates
<1>7. TablesOK' /\ \A u \in Tasks : PrunedTo(s.tab[u], tab'[u])
  BY <1>4, <1>5, <1>6, PruneKeeps
<1> QED BY <1>3, <1>7

\* So does updating, which leaves an equal entry alone.
LEMMA UpdateKeeps ==
  ASSUME TablesOK, NEW t \in Tasks, NEW e, GoodEntry(e), Update(t, e)
  PROVE  /\ TablesOK'
         /\ PrunedTo(e, tab'[t])
         /\ \A u \in Tasks \ {t} : PrunedTo(tab[u], tab'[u])
<1>1. CASE e = tab[t]
  <2>1. UNCHANGED <<tab, age>>
    BY <1>1 DEF Update
  <2>2. TablesOK'
    BY <2>1 DEF TablesOK, Tables, Active, Retired
  <2>3. \A u \in Tasks : GoodEntry(tab[u])
    BY DEF TablesOK, GoodTable, Tables
  <2> QED BY <1>1, <2>1, <2>2, <2>3, EntryPrunes
<1>2. CASE e # tab[t]
  BY <1>2, PublishKeeps DEF Update
<1> QED BY <1>1, <1>2

\* A step about one task keeps the invariant when it leaves that task in order
\* and changes the others as pruning may.
LEMMA OneTaskKeeps ==
  ASSUME TSInv, NEW t \in Tasks, TablesOK', TSTyped', phase' = phase,
         \A u \in Tasks \ {t} :
           PrunedTo(tab[u], tab'[u]) /\ stage'[u] = stage[u] /\ call'[u] = call[u],
         call'[t] # "new",
         stage'[t] = "queued" => tab'[t].acc # NoReq \/ Settled(tab'[t]),
         phase = "closed" => tab'[t].acc = NoReq,
         Observed(tab[t]) \in TerminalStatus => Observed(tab'[t]) \in {Observed(tab[t]), "none"}
  PROVE  TSInv' /\ StatusKept
<1>1. \A u \in Tasks \ {t} : TaskOK(u)'
  <2> SUFFICES ASSUME NEW u \in Tasks \ {t} PROVE TaskOK(u)'
    OBVIOUS
  <2>1. Changed(tab[u], tab'[u])
    BY PrunedChanged
  <2> QED BY <2>1 DEF TSInv, TaskOK, Changed
<1>2. TaskOK(t)'
  BY DEF TaskOK
<1>3. StatusKept
  BY PrunedChanged DEF StatusKept, Changed
<1> QED BY <1>1, <1>2, <1>3 DEF TSInv

\* The entries are good, and the types of the parameters of the engine.
LEMMA TSFacts ==
  ASSUME TSInv
  PROVE  /\ tab \in [Tasks -> EntryOf(Tasks)] /\ age \in [Tasks -> 0 .. TerminalTTL]
         /\ \A u \in Tasks : GoodEntry(tab[u]) /\ tab[u].acc \in Tasks \cup {NoReq}
         /\ TSTyped /\ TablesOK /\ \A u \in Tasks : TaskOK(u)
         /\ Closed \in BOOLEAN
BY DEF TSInv, TablesOK, GoodTable, TableStates, Tables, GoodEntry, EntryOf, Closed

\* An update of an entry that an operator moved, when the task is not queued
\* or the operator settled it, or kept it settled.
LEMMA UpdateStep ==
  ASSUME TSInv, NEW t \in Tasks, NEW e, Moved(tab[t], e), Update(t, e), TSTyped', phase' = phase,
         call'[t] # "new",
         \A u \in Tasks \ {t} : stage'[u] = stage[u] /\ call'[u] = call[u],
         stage'[t] = "queued" => stage[t] = "queued" /\ (Settled(tab[t]) => Settled(e))
  PROVE  TSInv' /\ StatusKept
<1>1. /\ TablesOK' /\ PrunedTo(e, tab'[t])
      /\ \A u \in Tasks \ {t} : PrunedTo(tab[u], tab'[u])
  BY UpdateKeeps, TSFacts DEF Moved
<1>2. /\ tab'[t].acc # tab[t].acc => tab'[t].acc = NoReq /\ Settled(tab'[t])
      /\ Observed(tab[t]) \in TerminalStatus => Observed(tab'[t]) \in {Observed(tab[t]), "none"}
      /\ Settled(e) => Settled(tab'[t])
  BY <1>1, PrunedChanged
<1>3. TaskOK(t)
  BY TSFacts
<1>4. /\ stage'[t] = "queued" => tab'[t].acc # NoReq \/ Settled(tab'[t])
      /\ phase = "closed" => tab'[t].acc = NoReq
  BY <1>2, <1>3 DEF TaskOK
<1> QED BY <1>1, <1>2, <1>4, OneTaskKeeps

\* RegisterOutgoingTask for a new task.
LEMMA RegisterInv == ASSUME TSInv, NEW t \in Tasks, Register(t) PROVE TSInv' /\ StatusKept
<1>1. PICK target \in {Self, Peer} :
        /\ Publish(t, RegisterOutgoingTask(tab[t], target, {target}))
        /\ call' = [call EXCEPT ![t] = IF target = Self THEN "local" ELSE "remote"]
  BY DEF Register
<1> DEFINE e == RegisterOutgoingTask(tab[t], target, {target})
<1>2. tab[t] = NoTaskEntry /\ stage[t] = "none"
  BY TSFacts DEF Register, TaskOK
<1>3. e = [NoTaskEntry EXCEPT !.st = "pending", !.meta = TRUE, !.exp = target,
                              !.del = Known({target})]
  BY <1>2 DEF RegisterOutgoingTask, NoTaskEntry
<1>4. GoodEntry(e) /\ e.acc = NoReq
  <2>1. target \in Nodes \cup {NoNode} /\ Known({target}) \in SUBSET Nodes
    BY TaskStatusAssumption DEF Known
  <2>2. e = [st |-> "pending", ret |-> FALSE, meta |-> TRUE, exp |-> target,
             del |-> Known({target}), acc |-> NoReq]
    BY <1>3 DEF NoTaskEntry
  <2> HIDE DEF e
  <2> QED BY <2>1, <2>2 DEF GoodEntry, EntryOf, TaskStatuses
<1>5. /\ TablesOK' /\ PrunedTo(e, tab'[t])
      /\ \A u \in Tasks \ {t} : PrunedTo(tab[u], tab'[u])
  <2> HIDE DEF e
  <2> QED BY <1>1, <1>4, PublishKeeps, TSFacts DEF e
<1> HIDE DEF e
<1>6. tab'[t].acc = NoReq /\ Observed(tab[t]) = "none"
  BY <1>2, <1>4, <1>5 DEF PrunedTo, Observed, NoTaskEntry
<1>7. TSTyped' /\ call'[t] # "new" /\ stage'[t] = "none" /\ phase' = phase
  BY <1>1, <1>2, TSFacts DEF Register, TSTyped
<1>8. \A u \in Tasks \ {t} : stage'[u] = stage[u] /\ call'[u] = call[u]
  BY <1>1, TSFacts DEF Register, TSTyped
<1> QED BY <1>5, <1>6, <1>7, <1>8, OneTaskKeeps DEF TerminalStatus

\* SubmitTask, or MarkTaskAsFailed on its error.
LEMMA SubmitLocalInv == ASSUME TSInv, NEW t \in Tasks, SubmitLocal(t) PROVE TSInv' /\ StatusKept
<1> DEFINE out == SubmitOutcome(tab[t], t, Closed, QueueFull)
<1>0. GoodEntry(tab[t]) /\ tab[t].acc \in Tasks \cup {NoReq} /\ TSTyped /\ Closed \in BOOLEAN
  BY TSFacts
<1>1. CASE SubmitOK(out)
  <2> DEFINE acc1 == IF out = "queued" THEN t ELSE tab[t].acc
  <2>1. /\ call' = [call EXCEPT ![t] = "waiting"]
        /\ tab' = [tab EXCEPT ![t].acc = acc1]
        /\ stage' = [stage EXCEPT ![t] = IF out = "queued" THEN "queued" ELSE @]
        /\ UNCHANGED <<age, remote, answer, phase>>
    BY <1>1 DEF SubmitLocal
  <2>2. out = "queued" => ~ Closed /\ ~ tab[t].ret
    BY <1>0 DEF SubmitOutcome
  <2>3. acc1 \in Tasks \cup {NoReq} /\ (out = "queued" => acc1 # NoReq)
    BY <1>0, TaskStatusAssumption
  <2>4. ~ Closed <=> phase = "open"
    BY DEF Closed
  <2> HIDE DEF out, acc1
  <2>5. /\ tab'[t] = [tab[t] EXCEPT !.acc = acc1]
        /\ \A u \in Tasks \ {t} : tab'[u] = tab[u]
        /\ tab' \in [Tasks -> EntryOf(Tasks)]
    BY <2>1, <2>3, TSFacts DEF EntryOf
  <2>6. /\ tab'[t].acc = acc1 /\ tab'[t].st = tab[t].st /\ tab'[t].ret = tab[t].ret
        /\ tab'[t].meta = tab[t].meta
    BY <2>5, TSFacts DEF EntryOf
  <2>7. GoodEntry(tab'[t])
    BY <1>0, <2>2, <2>5, <2>6 DEF GoodEntry, acc1
  <2>8. \A u \in Tasks \ {t} : PrunedTo(tab[u], tab'[u]) /\ GoodEntry(tab'[u])
    BY <2>5, EntryPrunes, TSFacts
  <2>9. GoodTable(Tables')
    BY <2>1, <2>5, <2>7, <2>8, TSFacts DEF GoodTable, TableStates, Tables
  <2>10. Active(Tables') = Active(Tables) /\ Retired(Tables') = Retired(Tables)
    BY <2>5, <2>6 DEF Active, Retired, Tables
  <2>11. TablesOK'
    BY <2>9, <2>10, TSFacts DEF TablesOK
  <2>12. TSTyped'
    BY <1>0, <2>1 DEF TSTyped
  <2>13. /\ call'[t] # "new"
         /\ \A u \in Tasks \ {t} : stage'[u] = stage[u] /\ call'[u] = call[u]
         /\ stage'[t] = IF out = "queued" THEN "queued" ELSE stage[t]
    BY <1>0, <2>1 DEF TSTyped
  <2>14. Observed(tab'[t]) = Observed(tab[t])
    BY <2>6 DEF Observed
  <2>15. stage'[t] = "queued" => tab'[t].acc # NoReq \/ Settled(tab'[t])
    BY <2>3, <2>6, <2>13, <2>14, TSFacts DEF TaskOK, acc1, Settled
  <2>16. phase = "closed" => tab'[t].acc = NoReq
    BY <2>2, <2>4, <2>6, TSFacts DEF TaskOK, acc1
  <2> QED BY <2>1, <2>8, <2>11, <2>12, <2>13, <2>14, <2>15, <2>16, OneTaskKeeps
<1>2. CASE ~ SubmitOK(out)
  <2> DEFINE e == SetTaskStatus(tab[t], "failed", Closed)
  <2>1. /\ call' = [call EXCEPT ![t] = "returned"]
        /\ Update(t, e)
        /\ UNCHANGED <<stage, remote, answer, phase>>
    BY <1>2 DEF SubmitLocal
  <2>2. Moved(tab[t], e) /\ Settled(e)
    BY <1>0, SetTaskStatusMoves DEF TaskStatuses, TerminalStatus
  <2> HIDE DEF e
  <2>3. TSTyped' /\ call'[t] # "new" /\ \A u \in Tasks \ {t} : call'[u] = call[u]
    BY <1>0, <2>1 DEF TSTyped
  <2> QED BY <2>1, <2>2, <2>3, UpdateStep
<1> QED BY <1>1, <1>2

\* DispatchTask to the peer, or MarkTaskAsFailed on its error.
LEMMA SubmitRemoteInv == ASSUME TSInv, NEW t \in Tasks, SubmitRemote(t) PROVE TSInv' /\ StatusKept
<1> DEFINE e == SetTaskStatus(tab[t], "failed", Closed)
<1>0. /\ GoodEntry(tab[t]) /\ Closed \in BOOLEAN /\ TSTyped
      /\ Moved(tab[t], tab[t])
  BY TSFacts DEF Moved
<1>1. PICK arrives \in BOOLEAN, ok \in BOOLEAN :
        /\ remote' = [remote EXCEPT ![t] = arrives]
        /\ call' = [call EXCEPT ![t] = IF ok THEN "waiting" ELSE "returned"]
        /\ IF ok THEN UNCHANGED <<tab, age>> ELSE Update(t, e)
  BY DEF SubmitRemote
<1>2. UNCHANGED <<stage, answer, phase>>
  BY DEF SubmitRemote
<1>3. Moved(tab[t], e) /\ Settled(e)
  BY <1>0, SetTaskStatusMoves DEF TaskStatuses, TerminalStatus
<1> HIDE DEF e
<1>4. TSTyped' /\ call'[t] # "new" /\ \A u \in Tasks \ {t} : call'[u] = call[u]
  BY <1>0, <1>1, <1>2 DEF TSTyped
<1>5. CASE ok
  <2>1. Update(t, tab[t])
    BY <1>1, <1>5 DEF Update
  <2> QED BY <1>0, <1>2, <1>4, <2>1, UpdateStep
<1>6. CASE ~ ok
  BY <1>1, <1>2, <1>3, <1>4, <1>6, UpdateStep
<1> QED BY <1>5, <1>6

\* GetTaskResponse in waitTaskResponse.
LEMMA PollInv == ASSUME TSInv, NEW t \in Tasks, Poll(t) PROVE TSInv' /\ StatusKept
<1>1. PICK s \in PruneTaskStatuses([tab |-> tab, age |-> age], t) :
        /\ tab' = s.tab
        /\ age' = [s.age EXCEPT ![t] = IF Observed(s.tab[t]) = "none" THEN @ ELSE 0]
        /\ LET o == Observed(s.tab[t])
           IN /\ call' = [call EXCEPT ![t] = IF o \in {"completed", "ingesting"} THEN "ingest"
                                             ELSE IF o = "failed" THEN "returned" ELSE @]
              /\ answer' = [answer EXCEPT ![t] = IF o = "failed" THEN "failed" ELSE @]
  BY DEF Poll
<1>2. GoodTable(Tables) /\ TSTyped /\ TaskOK(t)
  BY TSFacts DEF TablesOK
<1>3. GoodTable(s)
  BY <1>1, <1>2, PruneTaskStatusesPrunes DEF TablePruned, Tables
<1>4. age' \in [Tasks -> 0 .. TerminalTTL]
  BY <1>1, <1>3, TaskStatusAssumption DEF GoodTable, TableStates
<1>5. TablesOK' /\ \A u \in Tasks : PrunedTo(tab[u], tab'[u])
  BY <1>1, <1>2, <1>4, PruneKeeps DEF Tables
<1>6. call[t] = "waiting" /\ UNCHANGED <<stage, remote, phase>>
  BY DEF Poll
<1>7. /\ TSTyped' /\ call'[t] # "new"
      /\ \A u \in Tasks \ {t} : call'[u] = call[u]
  <2>1. call' \in [Tasks -> {"new", "local", "remote", "waiting", "ingest", "returned"}]
    BY <1>1, <1>2 DEF TSTyped
  <2>2. answer' \in [Tasks -> TerminalStatus \cup {"none"}]
    BY <1>1, <1>2 DEF TSTyped, TerminalStatus
  <2>3. call'[t] # "new" /\ \A u \in Tasks \ {t} : call'[u] = call[u]
    BY <1>1, <1>2, <1>6 DEF TSTyped
  <2> QED BY <1>2, <1>6, <2>1, <2>2, <2>3 DEF TSTyped
<1>8. Changed(tab[t], tab'[t])
  BY <1>5, PrunedChanged
<1>9. /\ stage'[t] = "queued" => tab'[t].acc # NoReq \/ Settled(tab'[t])
      /\ phase = "closed" => tab'[t].acc = NoReq
  BY <1>2, <1>6, <1>8 DEF TaskOK, Changed
<1> QED BY <1>5, <1>6, <1>7, <1>8, <1>9, OneTaskKeeps DEF Changed

\* The steps that do not touch the tables.
LEMMA QuietInv ==
  ASSUME TSInv, NEW t \in Tasks, WaitEnds(t) \/ Dequeue(t)
  PROVE  TSInv' /\ StatusKept
<1>0. /\ GoodEntry(tab[t]) /\ TSTyped /\ Moved(tab[t], tab[t]) /\ TaskOK(t)
  BY TSFacts DEF Moved
<1>1. Update(t, tab[t]) /\ phase' = phase
  BY DEF WaitEnds, Dequeue, Update
<1>2. TSTyped'
  BY <1>0 DEF TSTyped, WaitEnds, Dequeue
<1>3. /\ call'[t] # "new" /\ \A u \in Tasks \ {t} : stage'[u] = stage[u] /\ call'[u] = call[u]
      /\ stage'[t] = "queued" => stage[t] = "queued"
  BY <1>0 DEF TSTyped, WaitEnds, Dequeue, TaskOK
<1> QED BY <1>0, <1>1, <1>2, <1>3, UpdateStep

\* ingestTaskOutputsContext and failTaskOutputIngest.
LEMMA IngestInv == ASSUME TSInv, NEW t \in Tasks, Ingest(t) PROVE TSInv' /\ StatusKept
<1>0. GoodEntry(tab[t]) /\ TSTyped
  BY TSFacts
<1>1. PICK s \in TerminalStatus :
        /\ s = "completed" \/ tab[t].st = "ingesting"
        /\ Update(t, RecordTaskResponse(tab[t], s))
        /\ answer' = [answer EXCEPT ![t] = s]
  BY DEF Ingest, TerminalStatus
<1>2. /\ call' = [call EXCEPT ![t] = "returned"]
      /\ UNCHANGED <<stage, remote, phase>>
  BY DEF Ingest
<1> DEFINE e == RecordTaskResponse(tab[t], s)
<1>3. Moved(tab[t], e) /\ Settled(e)
  BY <1>0, <1>1, RecordTaskResponseMoves
<1>4. TSTyped' /\ call'[t] # "new" /\ \A u \in Tasks \ {t} : call'[u] = call[u]
  BY <1>0, <1>1, <1>2 DEF TSTyped
<1> HIDE DEF e
<1> QED BY <1>1, <1>2, <1>3, <1>4, UpdateStep DEF e

\* A worker ends the task.
LEMMA FinishInv == ASSUME TSInv, NEW t \in Tasks, Finish(t) PROVE TSInv' /\ StatusKept
<1>0. GoodEntry(tab[t]) /\ TSTyped /\ Closed \in BOOLEAN /\ TaskOK(t)
  BY TSFacts
<1>1. PICK s \in TerminalStatus \cup {"ingesting"} :
        Update(t, SetTaskStatus(tab[t], s, Closed))
  BY DEF Finish
<1>2. /\ stage[t] = "running" /\ stage' = [stage EXCEPT ![t] = "gone"]
      /\ UNCHANGED <<remote, call, answer, phase>>
  BY DEF Finish
<1> DEFINE e == SetTaskStatus(tab[t], s, Closed)
<1>3. Moved(tab[t], e)
  BY <1>0, SetTaskStatusMoves DEF TaskStatuses, TerminalStatus
<1>4. /\ TSTyped' /\ call'[t] # "new" /\ stage'[t] = "gone"
      /\ \A u \in Tasks \ {t} : stage'[u] = stage[u] /\ call'[u] = call[u]
  BY <1>0, <1>2 DEF TSTyped, TaskOK
<1> HIDE DEF e
<1> QED BY <1>1, <1>2, <1>3, <1>4, UpdateStep DEF e

\* A step that changes nothing but the ages.
LEMMA AgesInv ==
  ASSUME TSInv, UNCHANGED <<tab, stage, remote, call, answer, phase>>,
         age' \in [Tasks -> 0 .. TerminalTTL]
  PROVE  TSInv' /\ StatusKept
<1>1. TablesOK'
  BY TSFacts DEF TablesOK, GoodTable, TableStates, Tables, Active, Retired
<1>2. TSTyped' /\ \A t \in Tasks : TaskOK(t)'
  BY TSFacts DEF TSTyped, TaskOK
<1> QED BY <1>1, <1>2 DEF TSInv, StatusKept

\* HandleServiceCallback, also for a task that is not known here.
LEMMA CallbackInv == ASSUME TSInv, NEW t \in Tasks, Callback(t) PROVE TSInv' /\ StatusKept
<1>0. GoodEntry(tab[t]) /\ TSTyped /\ TaskOK(t) /\ age \in [Tasks -> 0 .. TerminalTTL]
  BY TSFacts
<1>1. PICK s \in TerminalStatus, ingest \in BOOLEAN :
        Update(t, AcceptTaskCallback(tab[t], Peer, s, ingest))
  BY DEF Callback
<1>2. UNCHANGED <<stage, remote, call, answer, phase>>
  BY DEF Callback
<1> DEFINE e == AcceptTaskCallback(tab[t], Peer, s, ingest)
<1>3. /\ Moved(tab[t], e) /\ (Settled(tab[t]) => Settled(e))
      /\ tab[t] = NoTaskEntry => e = tab[t]
  BY <1>0, AcceptTaskCallbackMoves, TaskStatusAssumption
<1> HIDE DEF e
<1>4. CASE call[t] = "new"
  <2>1. UNCHANGED <<tab, age>>
    BY <1>0, <1>1, <1>3, <1>4 DEF TaskOK, Update, e
  <2> QED BY <1>0, <1>2, <2>1, AgesInv
<1>5. CASE call[t] # "new"
  BY <1>0, <1>1, <1>2, <1>3, <1>5, UpdateStep DEF e, TSTyped
<1> QED BY <1>4, <1>5

\* A step about all tasks keeps the invariant when it changes each as any step may.
LEMMA AllTasksKeep ==
  ASSUME TSInv, TablesOK', UNCHANGED <<stage, remote, call, answer>>,
         phase' \in {"open", "closing", "closed"},
         \A u \in Tasks : /\ Changed(tab[u], tab'[u])
                          /\ phase' = "closed" => phase = "closed" \/ tab'[u].acc = NoReq
  PROVE  TSInv' /\ StatusKept
<1>1. TSTyped'
  BY TSFacts DEF TSTyped
<1>2. \A u \in Tasks : TaskOK(u)'
  BY TSFacts DEF TaskOK, Changed
<1>3. StatusKept
  BY DEF StatusKept, Changed
<1> QED BY <1>1, <1>2, <1>3 DEF TSInv

\* GetAllTaskStatuses
LEMMA ListStatusesInv == ASSUME TSInv, ListStatuses PROVE TSInv' /\ StatusKept
<1>1. PICK s \in PruneTaskStatuses(Tables, NoReq) : tab' = s.tab /\ age' = s.age
  BY DEF ListStatuses, Tables
<1>2. GoodTable(Tables)
  BY TSFacts DEF TablesOK
<1>3. age' \in [Tasks -> 0 .. TerminalTTL]
  BY <1>1, <1>2, PruneTaskStatusesPrunes DEF TablePruned, GoodTable, TableStates
<1>4. TablesOK' /\ \A u \in Tasks : PrunedTo(Tables.tab[u], tab'[u])
  BY <1>1, <1>2, <1>3, PruneKeeps
<1>5. \A u \in Tasks : Changed(tab[u], tab'[u])
  BY <1>4, PrunedChanged DEF Tables
<1> QED BY <1>4, <1>5, AllTasksKeep, TSFacts DEF ListStatuses, TSTyped

\* failAcceptedTasks leaves no accepted request, and settles what it accepted.
LEMMA FailAcceptedTasksKeep ==
  ASSUME TSInv, FailAcceptedTasks
  PROVE  /\ TablesOK'
         /\ \A u \in Tasks : Changed(tab[u], tab'[u]) /\ tab'[u].acc = NoReq
<1> DEFINE s == [tab |-> [t \in Tasks |-> FailAccepted(tab[t])],
                 age |-> [t \in Tasks |-> IF FailAccepted(tab[t]) = tab[t] THEN age[t] ELSE 0]]
<1>1. \A u \in Tasks : /\ GoodEntry(FailAccepted(tab[u])) /\ FailAccepted(tab[u]) \in EntryOf(Tasks)
                       /\ Changed(tab[u], FailAccepted(tab[u])) /\ FailAccepted(tab[u]).acc = NoReq
  BY FailAcceptedMoves, TSFacts DEF GoodEntry
<1>2. s.tab \in [Tasks -> EntryOf(Tasks)] /\ \A u \in Tasks : s.tab[u] = FailAccepted(tab[u])
  BY <1>1
<1>3. s.age \in [Tasks -> 0 .. TerminalTTL]
  BY TSFacts, TaskStatusAssumption
<1>4. GoodTable(s)
  BY <1>1, <1>2, <1>3 DEF GoodTable, TableStates
<1>5. PICK a \in PruneTaskStatuses(s, NoReq) : tab' = a.tab /\ age' = a.age
  BY DEF FailAcceptedTasks
<1> HIDE DEF s
<1>6. age' \in [Tasks -> 0 .. TerminalTTL]
  BY <1>4, <1>5, PruneTaskStatusesPrunes DEF TablePruned, GoodTable, TableStates
<1>7. TablesOK' /\ \A u \in Tasks : PrunedTo(s.tab[u], tab'[u])
  BY <1>4, <1>5, <1>6, PruneKeeps
<1>8. \A u \in Tasks : Changed(tab[u], tab'[u])
  BY <1>1, <1>2, <1>7, PrunedChanged
<1>9. \A u \in Tasks : tab'[u].acc = NoReq
  BY <1>1, <1>2, <1>7 DEF PrunedTo
<1> QED BY <1>7, <1>8, <1>9

\* Close, on either side of the wait for the workers.
LEMMA CloseInv == ASSUME TSInv, Close \/ CloseReturns PROVE TSInv' /\ StatusKept
<1>1. /\ FailAcceptedTasks /\ UNCHANGED <<stage, remote, call, answer>>
      /\ phase' \in {"open", "closing", "closed"}
  BY DEF Close, CloseReturns
<1> QED BY <1>1, FailAcceptedTasksKeep, AllTasksKeep

\* Every step keeps the invariant and every terminal status.
LEMMA TSNextInv == TSInv /\ [TSNext]_tsVars => TSInv' /\ (StatusKept \/ UNCHANGED tsVars)
<1> SUFFICES ASSUME TSInv, [TSNext]_tsVars PROVE TSInv' /\ (StatusKept \/ UNCHANGED tsVars)
  OBVIOUS
<1>1. CASE UNCHANGED tsVars
  BY <1>1, AgesInv, TSFacts DEF tsVars
<1>2. ASSUME NEW t \in Tasks,
             \/ Register(t) \/ SubmitLocal(t) \/ SubmitRemote(t) \/ Poll(t) \/ WaitEnds(t)
             \/ Ingest(t) \/ Dequeue(t) \/ Finish(t) \/ Callback(t)
      PROVE  TSInv' /\ StatusKept
  BY <1>2, RegisterInv, SubmitLocalInv, SubmitRemoteInv, PollInv, QuietInv, IngestInv, FinishInv,
     CallbackInv
<1>3. ASSUME Tick PROVE TSInv' /\ StatusKept
  <2>1. age' \in [Tasks -> 0 .. TerminalTTL]
    BY <1>3, TSFacts, TaskStatusAssumption DEF Tick
  <2> QED BY <1>3, <2>1, AgesInv DEF Tick
<1> QED BY <1>1, <1>2, <1>3, ListStatusesInv, CloseInv DEF TSNext

\* Neither status table exceeds its limit, and the variables keep their types,
\* whatever expires or is retired together (pruneTaskStatusesLocked).
THEOREM TablesStayBounded == TSSpec => []TSTypeOK
<1>1. TSInit => TSInv
  BY TSInitInv
<1>2. TSInv /\ [TSNext]_tsVars => TSInv'
  BY TSNextInv
<1>3. TSInv => TSTypeOK
  BY TSInvImplies
<1> QED BY <1>1, <1>2, <1>3, PTL DEF TSSpec

\* When Close has returned, no accepted request is left and no queued task stays
\* pending for its waiter (failAcceptedTasks on both sides of the wait).
THEOREM CloseIsFinal == TSSpec => []CloseSettles
<1>1. TSInit => TSInv
  BY TSInitInv
<1>2. TSInv /\ [TSNext]_tsVars => TSInv'
  BY TSNextInv
<1>3. TSInv => CloseSettles
  BY TSInvImplies
<1> QED BY <1>1, <1>2, <1>3, PTL DEF TSSpec

\* A terminal status is never replaced by another one: whatever workers,
\* callbacks, ingest, expiry and Close do, it can only be forgotten.
THEOREM TerminalStatusStays == TSSpec => TerminalStable
<1>1. TSInit => TSInv
  BY TSInitInv
<1>2. TSInv /\ [TSNext]_tsVars => TSInv'
  BY TSNextInv
<1>3. TSInv /\ [TSNext]_tsVars =>
        [\A t \in Tasks : Observed(tab[t]) \in TerminalStatus =>
           Observed(tab'[t]) \in {Observed(tab[t]), "none"}]_tsVars
  BY TSNextInv DEF StatusKept
<1> QED BY <1>1, <1>2, <1>3, PTL DEF TSSpec, TerminalStable

(* ------------------------------- entries --------------------------------- *)

Ended(e) == Observed(e) \in TerminalStatus

\* What the operators on an entry return, in type and in status.
LEMMA StoreEntry ==
  ASSUME NEW S, NEW e \in EntryOf(S), NEW s \in TaskStatuses
  PROVE  LET f == Store(e, s)
         IN /\ f \in EntryOf(S) /\ f.st = s /\ f.ret = e.ret /\ f.exp = e.exp /\ f.meta
            /\ f.acc = IF s \in TerminalStatus THEN NoReq ELSE e.acc
BY DEF EntryOf, Store

\* setTaskStatus leaves an ended or retired entry alone.
LEMMA SetTaskStatusEntry ==
  ASSUME NEW S, NEW e \in EntryOf(S), NEW s \in TaskStatuses
  PROVE  LET f == SetTaskStatus(e, s, FALSE)
         IN /\ f \in EntryOf(S) /\ f.ret = e.ret /\ f.exp = e.exp
            /\ IF e.ret \/ e.st \in TerminalStatus THEN f = e
               ELSE f.st = s /\ f.meta /\ f.acc = IF s \in TerminalStatus THEN NoReq ELSE e.acc
            /\ Ended(e) => Ended(f)
<1>1. CASE e.ret \/ e.st \in TerminalStatus
  BY <1>1 DEF SetTaskStatus
<1>2. CASE ~ (e.ret \/ e.st \in TerminalStatus)
  <2>1. SetTaskStatus(e, s, FALSE) = Store(e, s)
    BY <1>2 DEF SetTaskStatus
  <2>2. ~ Ended(e)
    BY <1>2 DEF Ended, Observed, TerminalStatus
  <2> DEFINE f == Store(e, s)
  <2>3. /\ f \in EntryOf(S) /\ f.st = s /\ f.ret = e.ret /\ f.exp = e.exp /\ f.meta
        /\ f.acc = IF s \in TerminalStatus THEN NoReq ELSE e.acc
    BY StoreEntry
  <2> HIDE DEF f
  <2> QED BY <1>2, <2>1, <2>2, <2>3 DEF f
<1> QED BY <1>1, <1>2

\* Delegating only adds producers.
LEMMA DelegateEntry ==
  ASSUME NEW S, NEW e \in EntryOf(S), NEW ns \in SUBSET (Nodes \cup {NoNode})
  PROVE  LET f == Delegate(e, ns)
         IN /\ f \in EntryOf(S) /\ f.st = e.st /\ f.ret = e.ret /\ f.acc = e.acc /\ f.meta
            /\ f.exp = e.exp
BY DEF EntryOf, Delegate, Known

\* Registering makes a task known.
LEMMA RegisterEntry ==
  ASSUME NEW S, NEW e \in EntryOf(S), NEW x \in Nodes \cup {NoNode},
         NEW ns \in SUBSET (Nodes \cup {NoNode})
  PROVE  LET f == RegisterOutgoingTask(e, x, ns)
         IN /\ f \in EntryOf(S) /\ f.ret = e.ret /\ f.acc = e.acc /\ f.meta
            /\ f.st = IF e.st # "none" THEN e.st ELSE "pending"
<1>1. CASE e.st # "none"
  BY <1>1 DEF EntryOf, RegisterOutgoingTask, Known
<1>2. CASE e.st = "none"
  BY <1>2 DEF EntryOf, RegisterOutgoingTask, Known, TaskStatuses
<1> QED BY <1>1, <1>2

\* A callback that is accepted ends the task, unless its output must be
\* imported; it never reopens one.
LEMMA CallbackEntry ==
  ASSUME NEW S, NEW e \in EntryOf(S), NEW p \in Nodes, NEW s \in TerminalStatus
  PROVE  LET f == AcceptTaskCallback(e, p, s, FALSE)
         IN /\ f \in EntryOf(S) /\ f.ret = e.ret /\ (e.meta => f.meta)
            /\ Ended(e) => Ended(f)
            /\ e.st \in TerminalStatus => f.st = e.st
            /\ f.acc \in {e.acc, NoReq}
            /\ f.acc # e.acc => f.st \in TerminalStatus
            /\ ~ AcceptsCallback(e, p) => f = e
            /\ AcceptsCallback(e, p) /\ e.st # "ingesting" => f.st \in TerminalStatus
            /\ f.st # e.st => f.st \in TerminalStatus
<1> DEFINE f == AcceptTaskCallback(e, p, s, FALSE)
           g == Delegate(e, {p})
<1>0. g \in EntryOf(S) /\ g.st = e.st /\ g.ret = e.ret /\ g.acc = e.acc /\ g.meta
  BY DelegateEntry
<1>1. CASE ~ AcceptsCallback(e, p)
  BY <1>1 DEF AcceptTaskCallback
<1>2. CASE AcceptsCallback(e, p) /\ e.st \in TerminalStatus \cup {"ingesting"}
  <2>1. f = g
    BY <1>2 DEF AcceptTaskCallback
  <2> HIDE DEF f, g
  <2>2. Ended(g) <=> Ended(e)
    BY <1>0 DEF Ended, Observed
  <2> QED BY <1>0, <1>2, <2>1, <2>2 DEF f
<1>3. CASE AcceptsCallback(e, p) /\ e.st \notin TerminalStatus \cup {"ingesting"}
  <2>1. f = Store(g, s)
    BY <1>3 DEF AcceptTaskCallback
  <2> HIDE DEF f, g
  <2>2. /\ f \in EntryOf(S) /\ f.st = s /\ f.ret = g.ret /\ f.meta
        /\ f.acc = NoReq
    <3>1. s \in TaskStatuses
      BY DEF TaskStatuses
    <3> QED BY <1>0, <2>1, <3>1, StoreEntry
  <2>3. Ended(f)
    BY <2>2 DEF Ended, Observed, TerminalStatus
  <2> QED BY <1>0, <1>3, <2>2, <2>3 DEF f
<1> QED BY <1>1, <1>2, <1>3

(* ------------------------------- the escrow ------------------------------ *)

ResumerStates ==
  [pc : {"idle", "found", "taken", "ready", "called", "back", "sent", "marked"},
   step : {0} \cup EscSteps, tgt : Hosts \cup {NoNode}, prev : Nodes \cup {NoNode}, in : BOOLEAN]

ESTyped ==
  /\ kept \in EntryOf(EscSteps)
  /\ jrn \in [act : {"none", "running", "escrow"}, step : {0} \cup EscSteps,
              node : Hosts \cup {NoNode}, hist : {"none"} \cup TerminalStatus]
  /\ escTask \in {0} \cup EscSteps
  /\ run \in [Hosts -> {0} \cup EscSteps]
  /\ put \in [Hosts -> {"none", "checked", "persisted", "stored", "refused"}]
  /\ res \in [Resumers -> ResumerStates]
  /\ forks \in Nat

\* The copies that run, and the copies in the hands of a resumer.
RunCopies == {n \in Hosts : run[n] # 0 /\ put[n] \notin {"stored", "refused"}}
Takers    == {i \in Resumers : Taken(i)}
CountOK ==
  Cardinality(RunCopies) + Cardinality(Takers) + (IF escTask = 0 THEN 0 ELSE 1) <= 1 + forks

Engaged(i) == res[i].pc \notin {"idle", "found"}

\* What the parts of the escrow say of each other.
EscrowOK ==
  /\ jrn.hist # "none" => jrn.act = "none"
  /\ jrn.act = "escrow" => jrn.step # 0
  /\ \A n \in Hosts : put[n] # "none" => run[n] # 0
  /\ \A i \in Resumers : Engaged(i) => res[i].step # 0

\* Somebody has the task that the journal shows in escrow.
Possessed == \/ escTask # 0
             \/ \E n \in Hosts : put[n] = "persisted"
             \/ \E i \in Resumers : Engaged(i)

ESInv ==
  /\ ESTyped /\ CountOK /\ EscrowOK
  /\ jrn.act = "escrow" /\ ~ Ended(kept) => Possessed

\* Under the invariant the property holds.
LEMMA ESInvImplies == ESInv => EscrowKept
<1> SUFFICES ASSUME ESInv PROVE EscrowKept
  OBVIOUS
<1>1. Cardinality({n \in Hosts : run[n] # 0 /\ put[n] \notin {"stored", "refused"}})
        + Cardinality({i \in Resumers : Taken(i)}) + (IF escTask = 0 THEN 0 ELSE 1)
      <= 1 + forks
  BY DEF ESInv, CountOK, RunCopies, Takers
<1>2. jrn.act = "escrow" /\ Observed(kept) \notin TerminalStatus /\ ~Busy =>
        escTask # 0 \/ \E n \in Hosts : run[n] # 0
  BY DEF ESInv, Possessed, Busy, Ended, Engaged
<1> QED BY <1>1, <1>2 DEF EscrowKept

\* Cardinalities of sets that gain or lose an element.
LEMMA OneMore ==
  ASSUME NEW S, IsFiniteSet(S), NEW T, NEW x, T \subseteq S \cup {x}
  PROVE  Cardinality(T) \in Nat /\ Cardinality(S) \in Nat /\ Cardinality(T) <= Cardinality(S) + 1
<1>1. /\ IsFiniteSet(S \cup {x}) /\ Cardinality(S) \in Nat
      /\ Cardinality(S \cup {x}) \in {Cardinality(S), Cardinality(S) + 1}
  BY FS_AddElement, FS_CardinalityType
<1>2. IsFiniteSet(T) /\ Cardinality(T) <= Cardinality(S \cup {x})
  BY <1>1, FS_Subset
<1> QED BY <1>1, <1>2, FS_CardinalityType

\* A subset has no more elements.
LEMMA NoMore ==
  ASSUME NEW S, IsFiniteSet(S), NEW T, T \subseteq S
  PROVE  Cardinality(T) \in Nat /\ Cardinality(S) \in Nat /\ Cardinality(T) <= Cardinality(S)
BY FS_Subset, FS_CardinalityType

\* A subset without some element of the set has at least one element less.
LEMMA OneLess ==
  ASSUME NEW S, IsFiniteSet(S), NEW T, NEW x \in S, T \subseteq S \ {x}
  PROVE  Cardinality(T) \in Nat /\ Cardinality(S) \in Nat /\ Cardinality(T) + 1 <= Cardinality(S)
<1>1. IsFiniteSet(S \ {x}) /\ Cardinality(S \ {x}) = Cardinality(S) - 1
  BY FS_RemoveElement
<1>2. IsFiniteSet(T) /\ Cardinality(T) <= Cardinality(S \ {x})
  BY <1>1, FS_Subset
<1> QED BY <1>1, <1>2, FS_CardinalityType

\* The copies are finitely many.
LEMMA CopiesFinite == IsFiniteSet(RunCopies) /\ IsFiniteSet(Takers)
BY EscrowAssumption, FS_Subset DEF RunCopies, Takers

\* The task starts as the copy of one worker.
LEMMA ESInitInv == ESInit => ESInv
<1> SUFFICES ASSUME ESInit PROVE ESInv
  OBVIOUS
<1>1. PICK w \in Hosts \ {Keeper} :
        /\ run = [n \in Hosts |-> IF n = w THEN 1 ELSE 0]
        /\ kept = RegisterOutgoingTask(NoTaskEntry, Keeper, {w})
  BY DEF ESInit
<1>2. NoTaskEntry \in EntryOf(EscSteps)
  BY DEF NoTaskEntry, EntryOf, TaskStatuses
<1>3. kept \in EntryOf(EscSteps)
  BY <1>1, <1>2, RegisterEntry, EscrowAssumption
<1>4. 1 \in EscSteps
  BY EscrowAssumption DEF EscSteps
<1>5. IdleResumer \in ResumerStates
  BY DEF IdleResumer, ResumerStates
<1>6. ESTyped
  BY <1>1, <1>3, <1>4, <1>5 DEF ESTyped, ESInit
<1>7. RunCopies \subseteq {} \cup {w} /\ Takers \subseteq {}
  BY <1>1 DEF RunCopies, Takers, Taken, ESInit, IdleResumer
<1>8. CountOK
  BY <1>7, OneMore, NoMore, FS_EmptySet DEF CountOK, ESInit
<1>9. EscrowOK /\ jrn.act = "none"
  BY DEF ESInit, EscrowOK, Engaged, IdleResumer
<1> QED BY <1>6, <1>8, <1>9 DEF ESInv

\* No copy more: the bound stays.
LEMMA CountStays ==
  ASSUME ESTyped, CountOK, RunCopies' \subseteq RunCopies, Takers' \subseteq Takers,
         escTask' = 0 \/ escTask # 0, forks' \in {forks, forks + 1}
  PROVE  CountOK'
<1>1. /\ Cardinality(RunCopies') \in Nat /\ Cardinality(RunCopies) \in Nat
      /\ Cardinality(RunCopies') <= Cardinality(RunCopies)
      /\ Cardinality(Takers') \in Nat /\ Cardinality(Takers) \in Nat
      /\ Cardinality(Takers') <= Cardinality(Takers)
  BY CopiesFinite, NoMore
<1> QED BY <1>1 DEF CountOK, ESTyped

\* What a checkpoint leaves of the journal's record.
LEMMA CheckpointJournal ==
  ASSUME ESTyped, EscrowOK, NEW s \in {"running", "escrow"} \cup TerminalStatus,
         NEW k \in EscSteps, NEW n \in Hosts \cup {NoNode}
  PROVE  LET j == Checkpoint(jrn, s, k, n)
         IN /\ j \in [act : {"none", "running", "escrow"}, step : {0} \cup EscSteps,
                      node : Hosts \cup {NoNode}, hist : {"none"} \cup TerminalStatus]
            /\ j.hist # "none" => j.act = "none"
            /\ j.act = "escrow" => j.step # 0
            /\ s # "escrow" => j.act # "escrow"
            /\ j.act = "escrow" => CheckpointOK(jrn, s)
<1> DEFINE j == Checkpoint(jrn, s, k, n)
<1>0. k # 0
  BY EscrowAssumption DEF EscSteps
<1>1. CASE ~ CheckpointOK(jrn, s)
  <2>1. j = jrn /\ jrn.hist # "none"
    BY <1>1 DEF Checkpoint, CheckpointOK
  <2> QED BY <2>1 DEF ESTyped, EscrowOK
<1>2. CASE CheckpointOK(jrn, s) /\ s \in TerminalStatus
  <2>1. j = [act |-> "none", step |-> k, node |-> n, hist |-> s]
    BY <1>2 DEF Checkpoint
  <2> HIDE DEF j
  <2> QED BY <1>2, <2>1 DEF j
<1>3. CASE CheckpointOK(jrn, s) /\ s \notin TerminalStatus
  <2>1. j = [jrn EXCEPT !.act = s, !.step = k, !.node = n] /\ jrn.hist = "none"
    BY <1>3 DEF Checkpoint, CheckpointOK, ESTyped
  <2> HIDE DEF j
  <2>2. /\ j \in [act : {"none", "running", "escrow"}, step : {0} \cup EscSteps,
                  node : Hosts \cup {NoNode}, hist : {"none"} \cup TerminalStatus]
        /\ j.hist = "none" /\ j.act = s /\ j.step = k
    BY <1>3, <2>1 DEF ESTyped
  <2> QED BY <1>0, <1>3, <2>2 DEF j
<1> QED BY <1>1, <1>2, <1>3

\* The checkpoint of an accepted callback only closes the record.
LEMMA RecordedJournal ==
  ASSUME ESTyped, EscrowOK, NEW new \in EntryOf(EscSteps), NEW n \in Hosts
  PROVE  LET j == Recorded(kept, new, jrn, n)
         IN /\ j \in [act : {"none", "running", "escrow"}, step : {0} \cup EscSteps,
                      node : Hosts \cup {NoNode}, hist : {"none"} \cup TerminalStatus]
            /\ j.hist # "none" => j.act = "none"
            /\ j.act = "escrow" => j = jrn
<1> DEFINE s == new.st
           j == Recorded(kept, new, jrn, n)
<1>1. CASE j = jrn
  BY <1>1 DEF ESTyped, EscrowOK
<1>2. CASE j # jrn
  <2>1. s \in TerminalStatus /\ j = Checkpoint(jrn, s, jrn.step, n)
    BY <1>2 DEF Recorded
  <2> HIDE DEF s, j
  <2>2. j = [act |-> "none", step |-> jrn.step, node |-> n, hist |-> s]
    BY <1>2, <2>1 DEF Checkpoint
  <2> QED BY <2>1, <2>2 DEF ESTyped, j
<1> QED BY <1>1, <1>2

\* A node ends the task and reports.
LEMMA RunEndsInv == ASSUME ESInv, NEW n \in Hosts, RunEnds(n) PROVE ESInv'
<1>0. /\ ESTyped /\ EscrowOK /\ CountOK /\ n \in Nodes
      /\ jrn.act = "escrow" /\ ~ Ended(kept) => Possessed
  BY EscrowAssumption DEF ESInv
<1>1. /\ run[n] # 0 /\ put[n] \in {"none", "refused"}
      /\ run' = [run EXCEPT ![n] = 0] /\ put' = [put EXCEPT ![n] = "none"]
      /\ UNCHANGED <<escTask, res, forks, fails>>
  BY DEF RunEnds
<1>2. run[n] \in EscSteps
  BY <1>0, <1>1 DEF ESTyped
<1>3. PICK s \in TerminalStatus :
        \/ /\ kept' = IF n = Keeper THEN SetTaskStatus(kept, s, FALSE)
                      ELSE AcceptTaskCallback(kept, n, s, FALSE)
           /\ jrn' = IF n = Keeper THEN Checkpoint(jrn, s, run[n], n)
                     ELSE Recorded(kept, kept', jrn, n)
        \/ n # Keeper /\ UNCHANGED <<kept, jrn>>
  BY DEF RunEnds, TerminalStatus
<1>4. /\ kept' \in EntryOf(EscSteps) /\ (Ended(kept) => Ended(kept'))
      /\ jrn' \in [act : {"none", "running", "escrow"}, step : {0} \cup EscSteps,
                   node : Hosts \cup {NoNode}, hist : {"none"} \cup TerminalStatus]
      /\ jrn'.hist # "none" => jrn'.act = "none"
      /\ jrn'.act = "escrow" => jrn' = jrn
  <2>1. CASE n = Keeper /\ kept' = SetTaskStatus(kept, s, FALSE)
             /\ jrn' = Checkpoint(jrn, s, run[n], n)
    <3>1. kept' \in EntryOf(EscSteps) /\ (Ended(kept) => Ended(kept'))
      BY <1>0, <2>1, SetTaskStatusEntry DEF ESTyped, TaskStatuses
    <3>2. s # "escrow"
      BY DEF TerminalStatus
    <3> DEFINE j == Checkpoint(jrn, s, run[n], n)
    <3>3. s \in {"running", "escrow"} \cup TerminalStatus /\ n \in Hosts \cup {NoNode}
      OBVIOUS
    <3>4. /\ j \in [act : {"none", "running", "escrow"}, step : {0} \cup EscSteps,
                    node : Hosts \cup {NoNode}, hist : {"none"} \cup TerminalStatus]
          /\ j.hist # "none" => j.act = "none"
          /\ j.act # "escrow"
      BY <1>0, <1>2, <3>2, <3>3, CheckpointJournal
    <3> HIDE DEF j
    <3> QED BY <2>1, <3>1, <3>4 DEF j
  <2>2. CASE n # Keeper /\ kept' = AcceptTaskCallback(kept, n, s, FALSE)
             /\ jrn' = Recorded(kept, kept', jrn, n)
    <3>1. kept' \in EntryOf(EscSteps) /\ (Ended(kept) => Ended(kept'))
      BY <1>0, <2>2, CallbackEntry DEF ESTyped
    <3> QED BY <1>0, <2>2, <3>1, RecordedJournal
  <2>3. CASE UNCHANGED <<kept, jrn>>
    BY <1>0, <2>3 DEF ESTyped, EscrowOK
  <2> QED BY <1>3, <2>1, <2>2, <2>3
<1>5. ESTyped'
  BY <1>0, <1>1, <1>4 DEF ESTyped
<1>6. \A m \in Hosts : IF m = n THEN run'[m] = 0 /\ put'[m] = "none"
                       ELSE run'[m] = run[m] /\ put'[m] = put[m]
  BY <1>0, <1>1 DEF ESTyped
<1>7. RunCopies' \subseteq RunCopies /\ Takers' \subseteq Takers
  BY <1>1, <1>6 DEF RunCopies, Takers, Taken
<1>8. CountOK'
  BY <1>0, <1>1, <1>7, CountStays
<1>9. EscrowOK'
  BY <1>0, <1>1, <1>4, <1>6 DEF EscrowOK, Engaged
<1>10. jrn'.act = "escrow" /\ ~ Ended(kept') => Possessed'
  BY <1>0, <1>1, <1>4, <1>6 DEF Possessed, Engaged
<1> QED BY <1>5, <1>8, <1>9, <1>10 DEF ESInv, Ended

\* HandleServiceEscrow checks the producer and the status.
LEMMA EscrowCheckInv == ASSUME ESInv, NEW n \in Hosts, EscrowCheck(n) PROVE ESInv'
<1>0. /\ ESTyped /\ EscrowOK /\ CountOK
      /\ jrn.act = "escrow" /\ ~ Ended(kept) => Possessed
  BY DEF ESInv
<1>1. /\ run[n] # 0 /\ put[n] = "none"
      /\ kept' = IF n = Keeper THEN [kept EXCEPT !.acc = NoReq] ELSE kept
      /\ UNCHANGED <<jrn, escTask, res, forks, fails>>
  BY DEF EscrowCheck
<1>2. PICK p \in {"checked", "refused"} : put' = [put EXCEPT ![n] = p]
  BY DEF EscrowCheck
<1>3. PICK k \in run[n] .. LastStep : run' = [run EXCEPT ![n] = k]
  BY DEF EscrowCheck
<1>4. k \in EscSteps /\ k # 0
  BY <1>0, <1>1, <1>3, EscrowAssumption DEF ESTyped, EscSteps
<1>5. kept' \in EntryOf(EscSteps) /\ (Ended(kept) <=> Ended(kept'))
  BY <1>0, <1>1 DEF ESTyped, EntryOf, Ended, Observed
<1>6. ESTyped'
  BY <1>0, <1>1, <1>2, <1>3, <1>4, <1>5 DEF ESTyped
<1>7. \A m \in Hosts : IF m = n THEN run'[m] # 0 /\ put'[m] = p
                       ELSE run'[m] = run[m] /\ put'[m] = put[m]
  BY <1>0, <1>2, <1>3, <1>4 DEF ESTyped
<1>8. RunCopies' \subseteq RunCopies /\ Takers' \subseteq Takers
  BY <1>1, <1>7 DEF RunCopies, Takers, Taken
<1>9. CountOK'
  BY <1>0, <1>1, <1>8, CountStays
<1>10. EscrowOK'
  BY <1>0, <1>1, <1>7 DEF EscrowOK, Engaged
<1>11. jrn'.act = "escrow" /\ ~ Ended(kept') => Possessed'
  BY <1>0, <1>1, <1>5, <1>7 DEF Possessed, Engaged
<1> QED BY <1>6, <1>9, <1>10, <1>11 DEF ESInv, Ended

\* PutTaskInEscrow writes the checkpoint before anything else.
LEMMA EscrowPersistInv == ASSUME ESInv, NEW n \in Hosts, EscrowPersist(n) PROVE ESInv'
<1>0. /\ ESTyped /\ EscrowOK /\ CountOK
      /\ jrn.act = "escrow" /\ ~ Ended(kept) => Possessed
  BY DEF ESInv
<1>1. put[n] = "checked" /\ UNCHANGED <<kept, escTask, run, res, forks, fails>>
  BY DEF EscrowPersist
<1>2. run[n] # 0 /\ run[n] \in EscSteps
  BY <1>0, <1>1 DEF ESTyped, EscrowOK
<1> DEFINE j == Checkpoint(jrn, "escrow", run[n], n)
<1>3. /\ j \in [act : {"none", "running", "escrow"}, step : {0} \cup EscSteps,
                node : Hosts \cup {NoNode}, hist : {"none"} \cup TerminalStatus]
      /\ j.hist # "none" => j.act = "none"
      /\ j.act = "escrow" => j.step # 0
      /\ j.act = "escrow" => CheckpointOK(jrn, "escrow")
  BY <1>0, <1>2, CheckpointJournal
<1>4. PICK p \in {"persisted", "refused"} :
        /\ put' = [put EXCEPT ![n] = p]
        /\ \/ escTask = run[n] /\ jrn' = jrn
           \/ jrn' = j /\ (CheckpointOK(jrn, "escrow") => p = "persisted")
  BY DEF EscrowPersist
<1> HIDE DEF j
<1>5. ESTyped'
  BY <1>0, <1>1, <1>3, <1>4 DEF ESTyped
<1>6. \A m \in Hosts : IF m = n THEN put'[m] = p ELSE put'[m] = put[m]
  BY <1>0, <1>4 DEF ESTyped
<1>7. RunCopies' \subseteq RunCopies /\ Takers' \subseteq Takers
  BY <1>1, <1>6 DEF RunCopies, Takers, Taken
<1>8. CountOK'
  BY <1>0, <1>1, <1>7, CountStays
<1>9. EscrowOK'
  BY <1>0, <1>1, <1>2, <1>3, <1>4, <1>6 DEF EscrowOK, Engaged
<1>10. jrn'.act = "escrow" => Possessed'
  BY <1>1, <1>2, <1>3, <1>4, <1>6 DEF Possessed
<1> QED BY <1>5, <1>8, <1>9, <1>10 DEF ESInv

\* PutTaskInEscrow stores the entry: the copy of the worker becomes the entry.
LEMMA EscrowStoreInv == ASSUME ESInv, NEW n \in Hosts, EscrowStore(n) PROVE ESInv'
<1>0. /\ ESTyped /\ EscrowOK /\ CountOK
  BY DEF ESInv
<1>1. /\ put[n] = "persisted" /\ escTask' = run[n] /\ put' = [put EXCEPT ![n] = "stored"]
      /\ UNCHANGED <<kept, jrn, run, res, forks, fails>>
  BY DEF EscrowStore
<1>2. run[n] # 0 /\ run[n] \in EscSteps
  BY <1>0, <1>1 DEF ESTyped, EscrowOK
<1>3. ESTyped'
  BY <1>0, <1>1, <1>2 DEF ESTyped
<1>4. \A m \in Hosts : IF m = n THEN put'[m] = "stored" ELSE put'[m] = put[m]
  BY <1>0, <1>1 DEF ESTyped
<1>5. n \in RunCopies /\ RunCopies' \subseteq RunCopies \ {n} /\ Takers' \subseteq Takers
  BY <1>1, <1>2, <1>4 DEF RunCopies, Takers, Taken
<1>6. /\ Cardinality(RunCopies') \in Nat /\ Cardinality(RunCopies) \in Nat
      /\ Cardinality(RunCopies') + 1 <= Cardinality(RunCopies)
      /\ Cardinality(Takers') \in Nat /\ Cardinality(Takers) \in Nat
      /\ Cardinality(Takers') <= Cardinality(Takers)
  BY <1>5, CopiesFinite, OneLess, NoMore
<1>7. CountOK'
  BY <1>0, <1>1, <1>6 DEF CountOK, ESTyped
<1>8. EscrowOK'
  BY <1>0, <1>1, <1>2, <1>4 DEF EscrowOK, Engaged
<1>9. Possessed'
  BY <1>1, <1>2 DEF Possessed
<1> QED BY <1>3, <1>7, <1>8, <1>9 DEF ESInv

\* PutTaskInEscrow sets the status, and the answer reaches the worker or not.
LEMMA EscrowStatusInv == ASSUME ESInv, NEW n \in Hosts, EscrowStatus(n) PROVE ESInv'
<1>0. /\ ESTyped /\ EscrowOK /\ CountOK
      /\ jrn.act = "escrow" /\ ~ Ended(kept) => Possessed
  BY DEF ESInv
<1>1. /\ put[n] = "stored" /\ kept' = SetTaskStatus(kept, "escrow", FALSE)
      /\ UNCHANGED <<jrn, escTask, res, fails>>
  BY DEF EscrowStatus
<1>2. \/ /\ run' = [run EXCEPT ![n] = 0] /\ put' = [put EXCEPT ![n] = "none"] /\ forks' = forks
      \/ put' = [put EXCEPT ![n] = "refused"] /\ run' = run /\ forks' = forks + 1
  BY DEF EscrowStatus
<1>3. kept' \in EntryOf(EscSteps) /\ (Ended(kept) => Ended(kept'))
  BY <1>0, <1>1, SetTaskStatusEntry DEF ESTyped, TaskStatuses
<1>4. ESTyped'
  <2>1. /\ run' \in [Hosts -> {0} \cup EscSteps] /\ forks' \in Nat
        /\ put' \in [Hosts -> {"none", "checked", "persisted", "stored", "refused"}]
    BY <1>0, <1>2 DEF ESTyped
  <2> QED BY <1>0, <1>1, <1>3, <2>1 DEF ESTyped
<1>5. \A m \in Hosts : IF m = n THEN \/ run'[m] = 0 /\ put'[m] = "none"
                                     \/ run'[m] = run[m] /\ put'[m] = "refused"
                       ELSE run'[m] = run[m] /\ put'[m] = put[m]
  BY <1>0, <1>2 DEF ESTyped
<1>6. RunCopies' \subseteq RunCopies /\ Takers' \subseteq Takers
  BY <1>1, <1>5 DEF RunCopies, Takers, Taken
<1>7. CountOK'
  BY <1>0, <1>1, <1>2, <1>6, CountStays
<1>8. EscrowOK'
  BY <1>0, <1>1, <1>5 DEF EscrowOK, Engaged
<1>9. jrn'.act = "escrow" /\ ~ Ended(kept') => Possessed'
  BY <1>0, <1>1, <1>3, <1>5 DEF Possessed, Engaged
<1> QED BY <1>4, <1>7, <1>8, <1>9 DEF ESInv, Ended

TakenState(q) == q.pc \in {"taken", "ready", "back"} \/ (q.pc = "called" /\ ~ q.in)
EngagedState(q) == q.pc \notin {"idle", "found"}

\* Where the copies are when one resumer moves.
LEMMA ResumerMoves ==
  ASSUME ESTyped, NEW i \in Resumers, NEW q \in ResumerStates, res' = [res EXCEPT ![i] = q]
  PROVE  /\ res' \in [Resumers -> ResumerStates]
         /\ res'[i] = q /\ \A k \in Resumers \ {i} : res'[k] = res[k]
         /\ Takers' \subseteq Takers \cup {i}
         /\ ~ TakenState(q) => Takers' \subseteq Takers \ {i}
         /\ i \in Takers <=> TakenState(res[i])
         /\ i \in Takers => Takers' \subseteq Takers
<1>1. /\ res' \in [Resumers -> ResumerStates]
      /\ res'[i] = q /\ \A k \in Resumers \ {i} : res'[k] = res[k]
  BY DEF ESTyped
<1>2. \A k \in Resumers : /\ k \in Takers <=> TakenState(res[k])
                          /\ k \in Takers' <=> TakenState(res'[k])
  BY DEF Takers, Taken, TakenState
<1>3. Takers' \subseteq Resumers
  BY DEF Takers
<1> QED BY <1>1, <1>2, <1>3

\* A step of a resumer keeps the invariant when it leaves the task in somebody's
\* hands and the copies within their bound.
LEMMA ResumeKeeps ==
  ASSUME ESInv, NEW i \in Resumers, NEW q \in ResumerStates, res' = [res EXCEPT ![i] = q],
         kept' \in EntryOf(EscSteps), escTask' \in {0} \cup EscSteps,
         run' \in [Hosts -> {0} \cup EscSteps], forks' \in Nat, UNCHANGED <<jrn, put>>,
         \A n \in Hosts : run[n] # 0 => run'[n] # 0,
         EngagedState(q) => q.step # 0,
         CountOK',
         escTask' # 0 \/ EngagedState(q)
  PROVE  ESInv'
<1>0. ESTyped /\ EscrowOK
  BY DEF ESInv
<1>1. /\ res' \in [Resumers -> ResumerStates]
      /\ res'[i] = q /\ \A k \in Resumers \ {i} : res'[k] = res[k]
  BY <1>0, ResumerMoves
<1>2. ESTyped'
  BY <1>0, <1>1 DEF ESTyped
<1>3. EscrowOK'
  BY <1>0, <1>1 DEF EscrowOK, Engaged, EngagedState
<1>4. Possessed'
  BY <1>1 DEF Possessed, Engaged, EngagedState
<1> QED BY <1>2, <1>3, <1>4 DEF ESInv

\* A resumer that only moves its program counter.
LEMMA MovedResumer ==
  ASSUME NEW r \in ResumerStates,
         NEW p \in {"idle", "found", "taken", "ready", "called", "back", "sent", "marked"}
  PROVE  LET q == [r EXCEPT !.pc = p]
         IN q \in ResumerStates /\ q.pc = p /\ q.step = r.step /\ q.in = r.in /\ q.tgt = r.tgt
BY DEF ResumerStates

\* Copies counted for a step that moves one from a resumer to a host, or none.
LEMMA CountMoves ==
  ASSUME ESTyped, CountOK, escTask' = escTask, forks' = forks, NEW i \in Takers, NEW m,
         RunCopies' \subseteq RunCopies \cup {m}, Takers' \subseteq Takers \ {i}
  PROVE  CountOK'
<1>1. /\ Cardinality(RunCopies') \in Nat /\ Cardinality(RunCopies) \in Nat
      /\ Cardinality(RunCopies') <= Cardinality(RunCopies) + 1
  BY CopiesFinite, OneMore
<1>2. /\ Cardinality(Takers') \in Nat /\ Cardinality(Takers) \in Nat
      /\ Cardinality(Takers') + 1 <= Cardinality(Takers)
  BY CopiesFinite, OneLess
<1> QED BY <1>1, <1>2 DEF CountOK, ESTyped

\* ResumeEscrowTask reads the task.
LEMMA ResumeFindInv == ASSUME ESInv, NEW i \in Resumers, ResumeFind(i) PROVE ESInv'
<1>0. ESTyped /\ CountOK /\ res[i] \in ResumerStates
  BY DEF ESInv, ESTyped
<1> DEFINE q == [res[i] EXCEPT !.pc = "found"]
<1>1. /\ res' = [res EXCEPT ![i] = q] /\ escTask # 0
      /\ UNCHANGED <<kept, jrn, escTask, run, put, forks, fails>>
  BY <1>0 DEF ResumeFind
<1>2. q \in ResumerStates /\ q.pc = "found"
  BY <1>0, MovedResumer
<1> HIDE DEF q
<1>3. ~ TakenState(q) /\ ~ EngagedState(q)
  BY <1>2 DEF TakenState, EngagedState
<1>4. Takers' \subseteq Takers /\ RunCopies' \subseteq RunCopies
  BY <1>0, <1>1, <1>2, <1>3, ResumerMoves DEF RunCopies
<1>5. CountOK'
  BY <1>0, <1>1, <1>4, CountStays
<1> QED BY <1>0, <1>1, <1>2, <1>3, <1>5, ResumeKeeps DEF ESTyped

\* ResumeEscrowTask takes the entry out, if it is still there.
LEMMA ResumeTakeInv == ASSUME ESInv, NEW i \in Resumers, ResumeTake(i) PROVE ESInv'
<1>0. /\ ESTyped /\ CountOK /\ EscrowOK /\ res[i] \in ResumerStates
      /\ jrn.act = "escrow" /\ ~ Ended(kept) => Possessed
  BY DEF ESInv, ESTyped
<1>1. /\ res[i].pc = "found" /\ UNCHANGED <<kept, jrn, run, put, forks, fails>>
  BY DEF ResumeTake
<1>2. RunCopies' = RunCopies
  BY <1>1 DEF RunCopies
<1>3. CASE escTask = 0
  <2>1. res' = [res EXCEPT ![i] = IdleResumer] /\ escTask' = escTask
    BY <1>3 DEF ResumeTake
  <2>2. /\ IdleResumer \in ResumerStates /\ ~ TakenState(IdleResumer)
        /\ ~ EngagedState(IdleResumer)
    BY DEF IdleResumer, ResumerStates, TakenState, EngagedState
  <2>3. /\ res' \in [Resumers -> ResumerStates] /\ res'[i] = IdleResumer
        /\ \A k \in Resumers \ {i} : res'[k] = res[k]
        /\ Takers' \subseteq Takers
    BY <1>0, <2>1, <2>2, ResumerMoves
  <2>4. ESTyped'
    BY <1>0, <1>1, <2>1, <2>3 DEF ESTyped
  <2>5. CountOK'
    BY <1>0, <1>1, <1>2, <2>1, <2>3, CountStays
  <2>6. EscrowOK'
    BY <1>0, <1>1, <2>2, <2>3 DEF EscrowOK, Engaged, EngagedState
  <2>7. Possessed => Possessed'
    BY <1>1, <2>1, <2>3 DEF Possessed, Engaged
  <2> QED BY <1>0, <1>1, <2>4, <2>5, <2>6, <2>7 DEF ESInv, Ended
<1>4. CASE escTask # 0
  <2>1. PICK m \in Hosts :
          res' = [res EXCEPT ![i] = [pc |-> "taken", step |-> escTask, tgt |-> m,
                                     prev |-> kept.exp, in |-> FALSE]]
    BY <1>4 DEF ResumeTake
  <2> DEFINE q == [pc |-> "taken", step |-> escTask, tgt |-> m, prev |-> kept.exp, in |-> FALSE]
  <2>2. escTask' = 0
    BY <1>4 DEF ResumeTake
  <2>3. q \in ResumerStates
    BY <1>0 DEF ResumerStates, ESTyped, EntryOf
  <2>4. EngagedState(q) /\ q.step # 0
    BY <1>4 DEF EngagedState
  <2> HIDE DEF q
  <2>5. Takers' \subseteq Takers \cup {i}
    BY <1>0, <2>1, <2>3, ResumerMoves DEF q
  <2>6. /\ Cardinality(RunCopies) \in Nat
        /\ Cardinality(Takers') \in Nat /\ Cardinality(Takers) \in Nat
        /\ Cardinality(Takers') <= Cardinality(Takers) + 1
    BY <2>5, CopiesFinite, OneMore, FS_CardinalityType
  <2>7. CountOK'
    BY <1>0, <1>1, <1>2, <1>4, <2>2, <2>6 DEF CountOK, ESTyped
  <2> QED BY <1>0, <1>1, <2>1, <2>2, <2>3, <2>4, <2>7, ResumeKeeps DEF ESTyped, q
<1> QED BY <1>3, <1>4

\* The target becomes the expected producer.
LEMMA ResumeMetaInv == ASSUME ESInv, NEW i \in Resumers, ResumeMeta(i) PROVE ESInv'
<1>0. ESTyped /\ CountOK /\ EscrowOK /\ res[i] \in ResumerStates
  BY DEF ESInv, ESTyped
<1> DEFINE q == [res[i] EXCEPT !.pc = "ready"]
           x == res[i].tgt
           e == [Delegate(kept, {x}) EXCEPT !.exp = x]
<1>1. /\ res' = [res EXCEPT ![i] = q] /\ res[i].pc = "taken"
      /\ kept' = IF x = Keeper THEN e ELSE RegisterOutgoingTask(e, x, {x})
      /\ UNCHANGED <<jrn, escTask, run, put, forks, fails>>
  BY <1>0 DEF ResumeMeta
<1>2. /\ q \in ResumerStates /\ q.pc = "ready" /\ q.step = res[i].step
  BY <1>0, MovedResumer
<1>3. kept' \in EntryOf(EscSteps)
  <2>1. x \in Nodes \cup {NoNode}
    BY <1>0, EscrowAssumption DEF ResumerStates
  <2> HIDE DEF x
  <2>2. Delegate(kept, {x}) \in EntryOf(EscSteps)
    BY <1>0, <2>1, DelegateEntry DEF ESTyped
  <2>3. e \in EntryOf(EscSteps)
    BY <2>1, <2>2 DEF EntryOf
  <2> HIDE DEF e
  <2> QED BY <1>1, <2>1, <2>3, RegisterEntry
<1> HIDE DEF q, e, x
<1>4. TakenState(q) /\ TakenState(res[i]) /\ EngagedState(q) /\ q.step # 0
  BY <1>0, <1>1, <1>2 DEF TakenState, EngagedState, EscrowOK, Engaged
<1>5. Takers' \subseteq Takers /\ RunCopies' \subseteq RunCopies
  BY <1>0, <1>1, <1>2, <1>4, ResumerMoves DEF RunCopies
<1>6. CountOK'
  BY <1>0, <1>1, <1>5, CountStays
<1> QED BY <1>0, <1>1, <1>2, <1>3, <1>4, <1>6, ResumeKeeps DEF ESTyped

\* SubmitTask on the coordinator itself.
LEMMA ResumeLocalInv == ASSUME ESInv, NEW i \in Resumers, ResumeLocal(i) PROVE ESInv'
<1>0. ESTyped /\ CountOK /\ EscrowOK /\ res[i] \in ResumerStates /\ Keeper \in Hosts
  BY EscrowAssumption DEF ESInv, ESTyped
<1> DEFINE k == res[i].step
           e == [kept EXCEPT !.acc = NoReq]
           out == SubmitOutcome(e, k, FALSE, run[Keeper] # 0)
           p == IF SubmitOK(out) THEN "sent" ELSE "back"
           q == [res[i] EXCEPT !.pc = p]
<1>1. /\ res' = [res EXCEPT ![i] = q] /\ res[i].pc = "ready"
      /\ kept' = IF out = "queued" THEN [e EXCEPT !.acc = k] ELSE e
      /\ run' = IF out = "queued" THEN [run EXCEPT ![Keeper] = k] ELSE run
      /\ UNCHANGED <<jrn, escTask, put, forks, fails>>
  BY <1>0 DEF ResumeLocal
<1>3. k # 0 /\ k \in EscSteps
  BY <1>0, <1>1 DEF EscrowOK, Engaged, ResumerStates
<1>4. out = "queued" => p = "sent"
  BY DEF SubmitOK
<1>5. p \in {"sent", "back"}
  OBVIOUS
<1> HIDE DEF p
<1>2. /\ q \in ResumerStates /\ q.pc = p /\ q.step = k
  <2>1. p \in {"idle", "found", "taken", "ready", "called", "back", "sent", "marked"}
    BY <1>5
  <2> HIDE DEF e, out
  <2> QED BY <1>0, <2>1 DEF ResumerStates
<1> HIDE DEF q, k
<1>6. kept' \in EntryOf(EscSteps)
  <2>1. e \in EntryOf(EscSteps)
    BY <1>0 DEF ESTyped, EntryOf
  <2>2. [e EXCEPT !.acc = k] \in EntryOf(EscSteps)
    BY <1>3, <2>1 DEF EntryOf
  <2> HIDE DEF e, out
  <2> QED BY <1>1, <2>1, <2>2
<1> HIDE DEF e, out
<1>7. EngagedState(q) /\ TakenState(res[i])
  BY <1>1, <1>2, <1>5 DEF TakenState, EngagedState
<1>8. /\ run' \in [Hosts -> {0} \cup EscSteps]
      /\ \A n \in Hosts : n # Keeper => run'[n] = run[n]
      /\ \A n \in Hosts : run[n] # 0 => run'[n] # 0
  BY <1>0, <1>1, <1>3 DEF ESTyped
<1>9. CountOK'
  <2>1. CASE out = "queued"
    <3>1. ~ TakenState(q)
      BY <1>2, <1>4, <2>1 DEF TakenState
    <3>2. i \in Takers /\ Takers' \subseteq Takers \ {i}
      BY <1>0, <1>1, <1>2, <1>7, <3>1, ResumerMoves
    <3>3. RunCopies' \subseteq RunCopies \cup {Keeper}
      BY <1>1, <1>8 DEF RunCopies
    <3> QED BY <1>0, <1>1, <3>2, <3>3, CountMoves
  <2>2. CASE out # "queued"
    <3>1. RunCopies' \subseteq RunCopies /\ Takers' \subseteq Takers
      BY <1>0, <1>1, <1>2, <1>7, <2>2, ResumerMoves DEF RunCopies
    <3> QED BY <1>0, <1>1, <3>1, CountStays
  <2> QED BY <2>1, <2>2
<1> QED BY <1>0, <1>1, <1>2, <1>3, <1>6, <1>7, <1>8, <1>9, ResumeKeeps DEF ESTyped

\* The call of DispatchTask reaches the worker, or not.
LEMMA ResumeCallInv == ASSUME ESInv, NEW i \in Resumers, ResumeCall(i) PROVE ESInv'
<1>0. ESTyped /\ CountOK /\ EscrowOK /\ res[i] \in ResumerStates
  BY DEF ESInv, ESTyped
<1> DEFINE k == res[i].step
           m == res[i].tgt
<1>1. /\ res[i].pc = "ready"
      /\ UNCHANGED <<kept, jrn, escTask, put, forks>>
  BY DEF ResumeCall
<1>2. k # 0 /\ k \in EscSteps
  BY <1>0, <1>1 DEF EscrowOK, Engaged, ResumerStates
<1>3. TakenState(res[i])
  BY <1>1 DEF TakenState
<1>4. CASE run[m] = 0 /\ run' = [run EXCEPT ![m] = k]
           /\ res' = [res EXCEPT ![i].pc = "called", ![i].in = TRUE]
  <2> DEFINE q == [res[i] EXCEPT !.pc = "called", !.in = TRUE]
  <2>1. res' = [res EXCEPT ![i] = q]
    BY <1>0, <1>4 DEF ESTyped
  <2>2. q \in ResumerStates /\ q.pc = "called" /\ q.in /\ q.step = k
    BY <1>0 DEF ResumerStates
  <2> HIDE DEF q, k, m
  <2>3. EngagedState(q) /\ ~ TakenState(q)
    BY <2>2 DEF EngagedState, TakenState
  <2>4. /\ run' \in [Hosts -> {0} \cup EscSteps]
        /\ \A n \in Hosts : n # m => run'[n] = run[n]
        /\ \A n \in Hosts : run[n] # 0 => run'[n] # 0
    BY <1>0, <1>2, <1>4 DEF ESTyped
  <2>5. i \in Takers /\ Takers' \subseteq Takers \ {i}
    BY <1>0, <1>3, <2>1, <2>2, <2>3, ResumerMoves
  <2>6. RunCopies' \subseteq RunCopies \cup {m}
    BY <1>1, <2>4 DEF RunCopies
  <2>7. CountOK'
    BY <1>0, <1>1, <2>5, <2>6, CountMoves
  <2> QED BY <1>0, <1>1, <1>2, <2>1, <2>2, <2>3, <2>4, <2>7, ResumeKeeps DEF ESTyped
<1>5. CASE run' = run /\ res' = [res EXCEPT ![i].pc = "called"]
  <2> DEFINE q == [res[i] EXCEPT !.pc = "called"]
  <2>1. res' = [res EXCEPT ![i] = q]
    BY <1>0, <1>5 DEF ESTyped
  <2>2. q \in ResumerStates /\ q.pc = "called" /\ q.step = k
    BY <1>0, MovedResumer
  <2> HIDE DEF q, k, m
  <2>3. EngagedState(q)
    BY <2>2 DEF EngagedState
  <2>4. Takers' \subseteq Takers /\ RunCopies' \subseteq RunCopies
    BY <1>0, <1>1, <1>3, <1>5, <2>1, <2>2, ResumerMoves DEF RunCopies
  <2>5. CountOK'
    BY <1>0, <1>1, <2>4, CountStays
  <2>6. /\ run' \in [Hosts -> {0} \cup EscSteps]
        /\ \A n \in Hosts : run[n] # 0 => run'[n] # 0
    BY <1>0, <1>5 DEF ESTyped
  <2> QED BY <1>0, <1>1, <1>2, <2>1, <2>2, <2>3, <2>5, <2>6, ResumeKeeps DEF ESTyped
<1> QED BY <1>4, <1>5 DEF ResumeCall

\* The call returns, and MarkTaskAsFailed after an error: only an answer that
\* was lost makes another copy.
LEMMA ResumeReturnInv == ASSUME ESInv, NEW i \in Resumers, ResumeReturn(i) PROVE ESInv'
<1>0. ESTyped /\ CountOK /\ EscrowOK /\ res[i] \in ResumerStates
  BY DEF ESInv, ESTyped
<1>1. res[i].pc = "called" /\ UNCHANGED <<jrn, escTask, run, put, fails>>
  BY DEF ResumeReturn
<1>2. res[i].step # 0
  BY <1>0, <1>1 DEF EscrowOK, Engaged
<1>3. RunCopies' = RunCopies
  BY <1>1 DEF RunCopies
<1>4. CASE res[i].in /\ res' = [res EXCEPT ![i].pc = "sent"] /\ UNCHANGED <<kept, forks>>
  <2> DEFINE q == [res[i] EXCEPT !.pc = "sent"]
  <2>1. res' = [res EXCEPT ![i] = q]
    BY <1>0, <1>4 DEF ESTyped
  <2>2. q \in ResumerStates /\ q.pc = "sent" /\ q.step = res[i].step
    BY <1>0, MovedResumer
  <2> HIDE DEF q
  <2>3. EngagedState(q) /\ ~ TakenState(q)
    BY <2>2 DEF EngagedState, TakenState
  <2>4. Takers' \subseteq Takers /\ RunCopies' \subseteq RunCopies
    BY <1>0, <1>3, <2>1, <2>2, <2>3, ResumerMoves
  <2>5. CountOK'
    BY <1>0, <1>1, <1>4, <2>4, CountStays
  <2>6. kept' \in EntryOf(EscSteps) /\ forks' \in Nat
    BY <1>0, <1>4 DEF ESTyped
  <2> QED BY <1>0, <1>1, <1>2, <2>1, <2>2, <2>3, <2>5, <2>6, ResumeKeeps DEF ESTyped
<1>5. CASE /\ forks' = IF res[i].in THEN forks + 1 ELSE forks
           /\ kept' = SetTaskStatus(kept, "failed", FALSE)
           /\ res' = [res EXCEPT ![i].pc = "back"]
  <2> DEFINE q == [res[i] EXCEPT !.pc = "back"]
  <2>1. res' = [res EXCEPT ![i] = q]
    BY <1>0, <1>5 DEF ESTyped
  <2>2. q \in ResumerStates /\ q.pc = "back" /\ q.step = res[i].step
    BY <1>0, MovedResumer
  <2> HIDE DEF q
  <2>3. EngagedState(q)
    BY <2>2 DEF EngagedState
  <2>4. kept' \in EntryOf(EscSteps) /\ forks' \in Nat
    <3>1. "failed" \in TaskStatuses /\ kept \in EntryOf(EscSteps)
      BY <1>0 DEF ESTyped, TaskStatuses, TerminalStatus
    <3>2. forks' \in Nat
      BY <1>0, <1>5 DEF ESTyped
    <3> QED BY <1>5, <3>1, <3>2, SetTaskStatusEntry
  <2>5. /\ Takers' \subseteq Takers \cup {i}
        /\ ~ res[i].in => Takers' \subseteq Takers
    BY <1>0, <1>1, <2>1, <2>2, ResumerMoves DEF TakenState
  <2>8. CountOK'
    <3>1. CASE ~ res[i].in
      <4>1. forks' = forks
        BY <1>5, <3>1
      <4> QED BY <1>0, <1>1, <1>3, <2>5, <3>1, <4>1, CountStays
    <3>2. CASE res[i].in
      <4>1. /\ Cardinality(RunCopies) \in Nat
            /\ Cardinality(Takers') \in Nat /\ Cardinality(Takers) \in Nat
            /\ Cardinality(Takers') <= Cardinality(Takers) + 1
        BY <2>5, CopiesFinite, OneMore, FS_CardinalityType
      <4>2. forks' = forks + 1
        BY <1>5, <3>2
      <4> QED BY <1>0, <1>1, <1>3, <4>1, <4>2 DEF CountOK, ESTyped
    <3> QED BY <3>1, <3>2
  <2> QED BY <1>0, <1>1, <1>2, <2>1, <2>2, <2>3, <2>4, <2>8, ResumeKeeps DEF ESTyped
<1> QED BY <1>4, <1>5 DEF ResumeReturn

\* revertEscrow puts the entry back before it touches the status.
LEMMA ResumeRevertInv == ASSUME ESInv, NEW i \in Resumers, ResumeRevert(i) PROVE ESInv'
<1>0. ESTyped /\ CountOK /\ EscrowOK /\ res[i] \in ResumerStates
  BY DEF ESInv, ESTyped
<1> DEFINE e == [kept EXCEPT !.exp = IF kept.meta THEN res[i].prev ELSE @]
<1>1. /\ res[i].pc = "back" /\ escTask' = res[i].step
      /\ kept' = SetTaskStatus(e, "escrow", FALSE)
      /\ res' = [res EXCEPT ![i] = IdleResumer]
      /\ UNCHANGED <<jrn, run, put, forks, fails>>
  BY DEF ResumeRevert
<1>2. res[i].step # 0 /\ res[i].step \in EscSteps
  BY <1>0, <1>1 DEF EscrowOK, Engaged, ResumerStates
<1>3. kept' \in EntryOf(EscSteps)
  <2>1. e \in EntryOf(EscSteps)
    BY <1>0 DEF ESTyped, EntryOf, ResumerStates
  <2> HIDE DEF e
  <2> QED BY <1>1, <2>1, SetTaskStatusEntry DEF TaskStatuses
<1> HIDE DEF e
<1>4. /\ IdleResumer \in ResumerStates /\ ~ TakenState(IdleResumer)
      /\ ~ EngagedState(IdleResumer) /\ TakenState(res[i])
  BY <1>1 DEF IdleResumer, ResumerStates, TakenState, EngagedState
<1>5. i \in Takers /\ Takers' \subseteq Takers \ {i} /\ RunCopies' = RunCopies
  BY <1>0, <1>1, <1>4, ResumerMoves DEF RunCopies
<1>6. /\ Cardinality(RunCopies) \in Nat
      /\ Cardinality(Takers') \in Nat /\ Cardinality(Takers) \in Nat
      /\ Cardinality(Takers') + 1 <= Cardinality(Takers)
  BY <1>5, CopiesFinite, OneLess, FS_CardinalityType
<1>7. CountOK'
  BY <1>0, <1>1, <1>5, <1>6 DEF CountOK, ESTyped
<1> QED BY <1>0, <1>1, <1>2, <1>3, <1>4, <1>7, ResumeKeeps DEF ESTyped

\* After a success: the status.
LEMMA ResumeMarkInv == ASSUME ESInv, NEW i \in Resumers, ResumeMark(i) PROVE ESInv'
<1>0. ESTyped /\ CountOK /\ EscrowOK /\ res[i] \in ResumerStates
  BY DEF ESInv, ESTyped
<1> DEFINE e == [kept EXCEPT !.acc = IF res[i].tgt = Keeper THEN @ ELSE NoReq]
           q == [res[i] EXCEPT !.pc = "marked"]
<1>1. /\ res[i].pc = "sent" /\ kept' = SetTaskStatus(e, "running", FALSE)
      /\ res' = [res EXCEPT ![i] = q]
      /\ UNCHANGED <<jrn, escTask, run, put, forks, fails>>
  BY <1>0 DEF ResumeMark
<1>2. kept' \in EntryOf(EscSteps)
  <2>1. e \in EntryOf(EscSteps)
    BY <1>0 DEF ESTyped, EntryOf
  <2> HIDE DEF e
  <2> QED BY <1>1, <2>1, SetTaskStatusEntry DEF TaskStatuses
<1>3. q \in ResumerStates /\ q.pc = "marked" /\ q.step = res[i].step
  BY <1>0, MovedResumer
<1> HIDE DEF e, q
<1>4. EngagedState(q) /\ ~ TakenState(q) /\ q.step # 0
  BY <1>0, <1>1, <1>3 DEF TakenState, EngagedState, EscrowOK, Engaged
<1>5. Takers' \subseteq Takers /\ RunCopies' \subseteq RunCopies
  BY <1>0, <1>1, <1>3, <1>4, ResumerMoves DEF RunCopies
<1>6. CountOK'
  BY <1>0, <1>1, <1>5, CountStays
<1> QED BY <1>0, <1>1, <1>2, <1>3, <1>4, <1>6, ResumeKeeps DEF ESTyped

\* After a success: the checkpoint, and the record no longer says escrow.
LEMMA ResumeRecordInv == ASSUME ESInv, NEW i \in Resumers, ResumeRecord(i) PROVE ESInv'
<1>0. ESTyped /\ CountOK /\ EscrowOK /\ res[i] \in ResumerStates /\ Keeper \in Hosts
  BY EscrowAssumption DEF ESInv, ESTyped
<1> DEFINE j == Checkpoint(jrn, "running", res[i].step, Keeper)
<1>1. /\ res[i].pc = "marked" /\ jrn' = j /\ res' = [res EXCEPT ![i] = IdleResumer]
      /\ UNCHANGED <<kept, escTask, run, put, forks, fails>>
  BY DEF ResumeRecord
<1>2. res[i].step \in EscSteps
  BY <1>0, <1>1 DEF EscrowOK, Engaged, ResumerStates
<1>3. /\ j \in [act : {"none", "running", "escrow"}, step : {0} \cup EscSteps,
                node : Hosts \cup {NoNode}, hist : {"none"} \cup TerminalStatus]
      /\ j.hist # "none" => j.act = "none"
      /\ j.act # "escrow"
  BY <1>0, <1>2, CheckpointJournal
<1> HIDE DEF j
<1>4. /\ IdleResumer \in ResumerStates /\ ~ TakenState(IdleResumer)
      /\ ~ EngagedState(IdleResumer)
  BY DEF IdleResumer, ResumerStates, TakenState, EngagedState
<1>5. /\ res' \in [Resumers -> ResumerStates] /\ res'[i] = IdleResumer
      /\ \A k \in Resumers \ {i} : res'[k] = res[k]
      /\ Takers' \subseteq Takers
  BY <1>0, <1>1, <1>4, ResumerMoves
<1>6. ESTyped'
  BY <1>0, <1>1, <1>3, <1>5 DEF ESTyped
<1>7. RunCopies' \subseteq RunCopies
  BY <1>1 DEF RunCopies
<1>8. CountOK'
  BY <1>0, <1>1, <1>5, <1>7, CountStays
<1>9. EscrowOK'
  BY <1>0, <1>1, <1>3, <1>4, <1>5 DEF EscrowOK, Engaged, EngagedState
<1> QED BY <1>1, <1>3, <1>6, <1>8, <1>9 DEF ESInv

\* The status expires, and with it the wait for the task.
LEMMA ExpireInv == ASSUME ESInv, Expire PROVE ESInv'
<1>0. ESTyped /\ CountOK /\ EscrowOK
  BY DEF ESInv
<1>1. kept' = Retire(kept) /\ UNCHANGED <<jrn, escTask, run, put, res, forks, fails>>
  BY DEF Expire
<1>2. kept' = [st |-> "none", ret |-> TRUE, meta |-> FALSE, exp |-> NoNode, del |-> {},
               acc |-> NoReq]
  BY <1>1 DEF Retire, NoTaskEntry
<1>3. kept' \in EntryOf(EscSteps) /\ Ended(kept')
  BY <1>2 DEF EntryOf, TaskStatuses, Ended, Observed, TerminalStatus
<1>4. ESTyped'
  BY <1>0, <1>1, <1>3 DEF ESTyped
<1>5. CountOK' /\ EscrowOK'
  BY <1>0, <1>1 DEF CountOK, RunCopies, Takers, Taken, EscrowOK, Engaged
<1> QED BY <1>3, <1>4, <1>5 DEF ESInv, Ended

\* The coordinator restarts from its journal.
LEMMA RestartInv == ASSUME ESInv, Restart PROVE ESInv'
<1>0. ESTyped /\ CountOK /\ EscrowOK /\ Keeper \in Hosts
  BY EscrowAssumption DEF ESInv
<1>1. /\ forks' = forks + 1
      /\ escTask' = IF jrn.act = "escrow" THEN jrn.step ELSE 0
      /\ kept' = IF jrn.act = "escrow" THEN RestoreEscrowTask(jrn) ELSE NoTaskEntry
      /\ jrn' = IF jrn.act = "running" THEN Checkpoint(jrn, "failed", jrn.step, jrn.node) ELSE jrn
      /\ run' = [run EXCEPT ![Keeper] = 0]
      /\ put' = [n \in Hosts |-> IF n = Keeper \/ put[n] = "none" THEN "none" ELSE "refused"]
      /\ res' = [i \in Resumers |-> IdleResumer]
  BY DEF Restart
<1>2. kept' \in EntryOf(EscSteps)
  <2>1. NoTaskEntry \in EntryOf(EscSteps)
    BY DEF NoTaskEntry, EntryOf, TaskStatuses
  <2>2. SetTaskStatus(NoTaskEntry, "escrow", FALSE) \in EntryOf(EscSteps)
    BY <2>1, SetTaskStatusEntry DEF TaskStatuses
  <2>3. {jrn.node} \in SUBSET (Nodes \cup {NoNode})
    BY <1>0, EscrowAssumption DEF ESTyped
  <2>4. RestoreEscrowTask(jrn) \in EntryOf(EscSteps)
    BY <2>2, <2>3, DelegateEntry DEF RestoreEscrowTask
  <2> QED BY <1>1, <2>1, <2>4
<1>3. /\ jrn' \in [act : {"none", "running", "escrow"}, step : {0} \cup EscSteps,
                   node : Hosts \cup {NoNode}, hist : {"none"} \cup TerminalStatus]
      /\ jrn'.hist # "none" => jrn'.act = "none"
      /\ jrn'.act = "escrow" => jrn' = jrn
  <2>1. CASE jrn.act = "running"
    <3>1. jrn.hist = "none"
      BY <1>0, <2>1 DEF EscrowOK
    <3>2. jrn' = [act |-> "none", step |-> jrn.step, node |-> jrn.node, hist |-> "failed"]
      BY <1>1, <2>1, <3>1 DEF Checkpoint, CheckpointOK, TerminalStatus
    <3> QED BY <1>0, <3>2 DEF ESTyped, TerminalStatus
  <2>2. CASE jrn.act # "running"
    BY <1>0, <1>1, <2>2 DEF ESTyped, EscrowOK
  <2> QED BY <2>1, <2>2
<1>4. /\ IdleResumer \in ResumerStates /\ ~ TakenState(IdleResumer)
      /\ ~ EngagedState(IdleResumer)
  BY DEF IdleResumer, ResumerStates, TakenState, EngagedState
<1>5. ESTyped'
  <2>1. escTask' \in {0} \cup EscSteps /\ forks' \in Nat
    BY <1>0, <1>1 DEF ESTyped
  <2>2. /\ run' \in [Hosts -> {0} \cup EscSteps]
        /\ put' \in [Hosts -> {"none", "checked", "persisted", "stored", "refused"}]
    BY <1>0, <1>1 DEF ESTyped
  <2>3. res' \in [Resumers -> ResumerStates]
    BY <1>1, <1>4
  <2> QED BY <1>2, <1>3, <2>1, <2>2, <2>3 DEF ESTyped
<1>6. \A n \in Hosts : IF n = Keeper \/ put[n] = "none"
                       THEN put'[n] = "none" /\ (n # Keeper => run'[n] = run[n])
                            /\ (n = Keeper => run'[n] = 0)
                       ELSE put'[n] = "refused" /\ run'[n] = run[n]
  BY <1>0, <1>1 DEF ESTyped
<1>7. RunCopies' \subseteq RunCopies
  BY <1>6 DEF RunCopies
<1>8. Takers' \subseteq Takers /\ \A i \in Resumers : ~ Engaged(i)'
  BY <1>1, <1>4 DEF Takers, Taken, TakenState, Engaged, EngagedState
<1>9. /\ Cardinality(RunCopies') \in Nat /\ Cardinality(RunCopies) \in Nat
      /\ Cardinality(RunCopies') <= Cardinality(RunCopies)
      /\ Cardinality(Takers') \in Nat /\ Cardinality(Takers) \in Nat
      /\ Cardinality(Takers') <= Cardinality(Takers)
  BY <1>7, <1>8, CopiesFinite, NoMore
<1>10. CountOK'
  BY <1>0, <1>1, <1>9 DEF CountOK, ESTyped
<1>11. EscrowOK'
  BY <1>0, <1>3, <1>6, <1>8 DEF EscrowOK
<1>12. jrn'.act = "escrow" => Possessed'
  BY <1>0, <1>1, <1>3 DEF EscrowOK, Possessed
<1> QED BY <1>5, <1>10, <1>11, <1>12 DEF ESInv

\* Every step keeps the invariant.
LEMMA ESNextInv == ESInv /\ [ESNext]_esVars => ESInv'
<1> SUFFICES ASSUME ESInv, [ESNext]_esVars PROVE ESInv'
  OBVIOUS
<1>1. CASE UNCHANGED esVars
  BY <1>1 DEF esVars, ESInv, ESTyped, CountOK, RunCopies, Takers, Taken, EscrowOK, Engaged,
              Possessed, Ended
<1>2. ASSUME NEW n \in Hosts,
             \/ RunEnds(n) \/ EscrowCheck(n) \/ EscrowPersist(n)
             \/ EscrowStore(n) \/ EscrowStatus(n)
      PROVE  ESInv'
  BY <1>2, RunEndsInv, EscrowCheckInv, EscrowPersistInv, EscrowStoreInv, EscrowStatusInv
<1>3. ASSUME NEW i \in Resumers,
             \/ ResumeFind(i) \/ ResumeTake(i) \/ ResumeMeta(i) \/ ResumeLocal(i)
             \/ ResumeCall(i) \/ ResumeReturn(i) \/ ResumeRevert(i)
             \/ ResumeMark(i) \/ ResumeRecord(i)
      PROVE  ESInv'
  BY <1>3, ResumeFindInv, ResumeTakeInv, ResumeMetaInv, ResumeLocalInv, ResumeCallInv,
     ResumeReturnInv, ResumeRevertInv, ResumeMarkInv, ResumeRecordInv
<1> QED BY <1>1, <1>2, <1>3, ExpireInv, RestartInv DEF ESNext

\* A task in escrow is dispatched once per escalation, but for calls whose
\* answer was lost and restarts, and it is never forgotten while its record says
\* escrow and it is open (ResumeEscrowTask, PutTaskInEscrow, revertEscrow).
THEOREM EscrowIsKept == ESSpec => []EscrowKept
<1>1. ESInit => ESInv
  BY ESInitInv
<1>2. ESInv /\ [ESNext]_esVars => ESInv'
  BY ESNextInv
<1>3. ESInv => EscrowKept
  BY ESInvImplies
<1> QED BY <1>1, <1>2, <1>3, PTL DEF ESSpec
=============================================================================
