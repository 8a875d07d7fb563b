---------------------------- MODULE PipelineProofs ----------------------------
(***************************************************************************)
(* What the hand-overs of a pipeline guarantee: the task is neither forked *)
(* nor dropped, and no completed step loses its output, for any nodes,     *)
(* deployments, schemas and revisions.                                     *)
(***************************************************************************)
EXTENDS WorkProofs

\* The time a leaf may take, by default.
USE ZenonT(3), SMTT(50)

AnyRequests ==
  [step : Nat, sch : DOMAIN Revisions, prod : [IDs -> MaybeNode],
   sel : [IDs -> MaybeNode], exp : MaybeNode]
RevisionSteps == UNION {{Revisions[i].steps[k] : k \in DOMAIN Revisions[i].steps}
                         : i \in DOMAIN Revisions}
WorkerPCs == {"idle", "exec", "advance", "route", "dispatch", "failover", "escalate",
              "failed", "completed"}
WorkerStates == [pc : WorkerPCs, req : AnyRequests \cup {NoReq}, st : AllSteps,
                 tgt : MaybeNode, tried : SUBSET Nodes]

\* A request has no more completed steps than its snapshot, each with its producer.
RequestOK(r) ==
  /\ r \in AnyRequests
  /\ r.step <= Len(Snapshot(r).steps)
  /\ \A i \in 1 .. r.step : r.prod[Snapshot(r).steps[i].id] # NoNode

MaybeOK(r) == r # NoReq => RequestOK(r)

WorkerOK(w) ==
  /\ w \in WorkerStates
  /\ w.pc # "idle" => w.req # NoReq
  /\ MaybeOK(w.req)
  /\ w.pc = "exec" => /\ w.req.step < Len(Snapshot(w.req).steps)
                      /\ w.st = Snapshot(w.req).steps[w.req.step + 1]
  /\ w.pc \in {"exec", "route", "dispatch", "failover"} => w.st \in RevisionSteps
  /\ w.pc \in {"dispatch", "failover"} => w.tgt \in Nodes

PRTyped ==
  /\ ent \in [Nodes -> EntryOf(AnyRequests)]
  /\ inbox \in [Nodes -> AnyRequests \cup {NoReq}]
  /\ work \in [Nodes -> WorkerStates]
  /\ cat \in [Nodes -> {0} \cup DOMAIN Revisions]
  /\ lost \in Nat

RequestsOK ==
  /\ \A n \in Nodes : WorkerOK(work[n]) /\ MaybeOK(inbox[n])
  /\ MaybeOK(esc)

Holders == {n \in Nodes : Holds(n)}
Inboxes == {n \in Nodes : inbox[n] # NoReq}
CopiesOK ==
  Cardinality(Holders) + Cardinality(Inboxes) + (IF esc = NoReq THEN 0 ELSE 1) <= 1 + lost

\* What a node's entry says of its worker and its queue.
NodeOK(n) ==
  /\ ~ ent[n].ret /\ ent[n].st # "ingesting"
  /\ ent[n].acc # NoReq /\ ent[n].st \notin TerminalStatus => Holds(n) \/ inbox[n] # NoReq
  /\ work[n].pc \in TerminalStatus => ent[n].st \in TerminalStatus
  /\ ent[n].st \in TerminalStatus =>
       \/ work[n].pc \in TerminalStatus
       \/ refused # {}
       \/ ent[Coord].st \in TerminalStatus

\* Before it is registered the task is nowhere.
Quiet == ~ ent[Coord].meta => /\ esc = NoReq
                              /\ \A n \in Nodes : work[n].pc = "idle" /\ inbox[n] = NoReq

\* While the requester waits, somebody has the task or reports on it.
Somewhere == \/ esc # NoReq \/ refused # {}
             \/ \E n \in Nodes : work[n].pc # "idle" \/ inbox[n] # NoReq

Waited == ent[Coord].st \in {"pending", "running", "escrow"} => Somewhere

PRInv ==
  /\ PRTyped /\ RequestsOK /\ CopiesOK
  /\ \A n \in Nodes : NodeOK(n)
  /\ Quiet /\ Waited

(* ------------------------------- requests -------------------------------- *)

\* What the steps of a revision are.
LEMMA RevisionFacts ==
  ASSUME NEW i \in DOMAIN Revisions
  PROVE  LET s == Revisions[i].steps
         IN /\ Len(s) \in Nat /\ Len(s) > 0 /\ DOMAIN s = 1 .. Len(s)
            /\ \A k \in 1 .. Len(s) : /\ s[k] \in StepRecords /\ s[k] \in RevisionSteps
                                      /\ s[k].id \in IDs
<1> DEFINE s == Revisions[i].steps
<1>1. s \in Seq(StepRecords) /\ s # <<>>
  BY PipelineRunAssumption DEF ValidatePipelineSchema
<1>2. Len(s) \in Nat /\ DOMAIN s = 1 .. Len(s) /\ \A k \in 1 .. Len(s) : s[k] \in StepRecords
  BY <1>1
<1>3. Len(s) > 0
  BY <1>1
<1>4. \A k \in 1 .. Len(s) : s[k] \in RevisionSteps /\ s[k].id \in IDs
  BY <1>2 DEF RevisionSteps, IDs, StepIDs
<1> QED BY <1>2, <1>3, <1>4

\* The steps that exist are records, with identifiers among the known ones.
LEMMA StepFacts ==
  ASSUME NEW s \in RevisionSteps
  PROVE  s \in StepRecords /\ s.id \in IDs /\ s.tgt \in MaybeNode
<1>1. PICK i \in DOMAIN Revisions : \E k \in DOMAIN Revisions[i].steps : s = Revisions[i].steps[k]
  BY DEF RevisionSteps
<1>2. s \in StepRecords /\ s.id \in IDs
  BY <1>1, RevisionFacts
<1> QED BY <1>2 DEF StepRecords, MaybeNode

\* Changing one value of a function.
LEMMA OneChange ==
  ASSUME NEW A, NEW B, NEW f \in [A -> B], NEW a, NEW b \in B
  PROVE  [f EXCEPT ![a] = b] \in [A -> B]
OBVIOUS

\* A request is not the absence of one.
LEMMA RequestIsNot == ASSUME NEW r, RequestOK(r) PROVE r # NoReq /\ r \in AnyRequests
BY NoReqAssumption DEF RequestOK, AnyRequests

\* Other targets do not change what a request has completed.
LEMMA SelectionKeeps ==
  ASSUME NEW r, RequestOK(r), NEW x \in [IDs -> MaybeNode]
  PROVE  RequestOK([r EXCEPT !.sel = x])
<1> DEFINE q == [r EXCEPT !.sel = x]
<1>1. q \in AnyRequests /\ q.step = r.step /\ q.sch = r.sch /\ q.prod = r.prod
  BY DEF RequestOK, AnyRequests
<1> HIDE DEF q
<1>2. RequestOK(q)
  BY <1>1 DEF RequestOK, Snapshot
<1> QED BY <1>2 DEF q

\* Nor does another expected producer.
LEMMA ProducerKeeps ==
  ASSUME NEW r, RequestOK(r), NEW v \in MaybeNode
  PROVE  RequestOK([r EXCEPT !.exp = v])
<1> DEFINE q == [r EXCEPT !.exp = v]
<1>1. q \in AnyRequests /\ q.step = r.step /\ q.sch = r.sch /\ q.prod = r.prod
  BY DEF RequestOK, AnyRequests
<1> HIDE DEF q
<1>2. RequestOK(q)
  BY <1>1 DEF RequestOK, Snapshot
<1> QED BY <1>2 DEF q

\* A new target for one step, which need not be one of the known ones.
LEMMA TargetKeeps ==
  ASSUME NEW r, RequestOK(r), NEW id, NEW m \in MaybeNode
  PROVE  RequestOK([r EXCEPT !.sel[id] = m])
<1> DEFINE x == [r.sel EXCEPT ![id] = m]
<1>1. x \in [IDs -> MaybeNode]
  BY DEF RequestOK, AnyRequests
<1>2. [r EXCEPT !.sel[id] = m] = [r EXCEPT !.sel = x]
  OBVIOUS
<1> QED BY <1>1, <1>2, SelectionKeeps

\* tryDynamicSchemaMigration keeps the completed prefix and its producers.
LEMMA MigrateKeeps ==
  ASSUME NEW n \in Nodes, NEW r, RequestOK(r), PRTyped, NEW q \in Migrate(n, r)
  PROVE  RequestOK(q) /\ q.step = r.step
<1>1. CASE q = r
  BY <1>1
<1>2. CASE q # r
  <2> DEFINE u == Revisions[cat[n]]
  <2>1. PICK x \in MigratedSelections(n, u, r.step + 1, r.sel) :
          q = [r EXCEPT !.sch = cat[n], !.sel = x]
    BY <1>2 DEF Migrate
  <2>2. Live(n) /\ ValidatePrefixMigration(Done(r), Outs(r), Snapshot(r), u)
    BY <1>2 DEF Migrate
  <2>3. cat[n] \in DOMAIN Revisions
    BY <2>2 DEF Live, PRTyped
  <2>4. x \in [IDs -> MaybeNode]
    BY <2>1 DEF MigratedSelections, Selections
  <2>5. /\ q \in AnyRequests /\ q.step = r.step /\ q.sch = cat[n] /\ q.prod = r.prod
        /\ r.step \in Nat
    BY <2>1, <2>3, <2>4 DEF RequestOK, AnyRequests
  <2>6. Done(r) \in Seq(IDs) /\ Len(Done(r)) = r.step /\ DOMAIN Done(r) = 1 .. r.step
    <3>1. /\ r.sch \in DOMAIN Revisions /\ r.step <= Len(Snapshot(r).steps)
      BY DEF RequestOK, AnyRequests
    <3>2. \A i \in 1 .. r.step : Snapshot(r).steps[i].id \in IDs
      BY <2>5, <3>1, RevisionFacts DEF Snapshot
    <3> QED BY <2>5, <3>2 DEF Done
  <2>7. /\ r.step <= Len(u.steps)
        /\ \A i \in 1 .. r.step : u.steps[i].id = Snapshot(r).steps[i].id
    BY <2>2, <2>6 DEF ValidatePrefixMigration, Done
  <2>8. \A i \in 1 .. r.step : r.prod[Snapshot(r).steps[i].id] # NoNode
    BY DEF RequestOK
  <2> QED BY <2>5, <2>7, <2>8 DEF RequestOK, Snapshot
<1> QED BY <1>1, <1>2

\* Running a step records its producer.
LEMMA ExecuteKeeps ==
  ASSUME NEW n \in Nodes, NEW r, RequestOK(r), r.step < Len(Snapshot(r).steps),
         NEW s, s = Snapshot(r).steps[r.step + 1]
  PROVE  RequestOK([r EXCEPT !.step = @ + 1, !.prod[s.id] = n])
<1> DEFINE q == [r EXCEPT !.step = @ + 1, !.prod[s.id] = n]
<1>1. /\ r \in AnyRequests /\ r.sch \in DOMAIN Revisions /\ r.step \in Nat
      /\ r.prod \in [IDs -> MaybeNode]
  BY DEF RequestOK, AnyRequests
<1>2. n \in MaybeNode /\ n # NoNode
  BY TaskTableAssumption DEF MaybeNode
<1>3. /\ q \in AnyRequests /\ q.step = r.step + 1 /\ q.sch = r.sch
      /\ q.prod = [r.prod EXCEPT ![s.id] = n]
  <2> DEFINE x == [r.prod EXCEPT ![s.id] = n]
  <2>1. x \in [IDs -> MaybeNode] /\ r.step + 1 \in Nat
    BY <1>1, <1>2, OneChange
  <2>2. q = [r EXCEPT !.step = r.step + 1, !.prod = x]
    BY <1>1 DEF AnyRequests
  <2> HIDE DEF x, q
  <2>3. q \in AnyRequests /\ q.step = r.step + 1 /\ q.sch = r.sch /\ q.prod = x
    BY <1>1, <2>1, <2>2 DEF AnyRequests
  <2> QED BY <2>3 DEF x
<1> HIDE DEF q
<1>4. /\ Len(Snapshot(r).steps) \in Nat
      /\ \A k \in 1 .. Len(Snapshot(r).steps) : Snapshot(r).steps[k].id \in IDs
  BY <1>1, RevisionFacts DEF Snapshot
<1>5. \A i \in 1 .. r.step + 1 : q.prod[Snapshot(r).steps[i].id] # NoNode
  <2> SUFFICES ASSUME NEW i \in 1 .. r.step + 1 PROVE q.prod[Snapshot(r).steps[i].id] # NoNode
    OBVIOUS
  <2>1. Snapshot(r).steps[i].id \in IDs
    BY <1>1, <1>4
  <2>2. CASE i = r.step + 1
    BY <1>1, <1>2, <1>3, <2>1, <2>2
  <2>3. CASE i # r.step + 1
    <3>1. r.prod[Snapshot(r).steps[i].id] # NoNode
      BY <1>1, <2>3 DEF RequestOK
    <3> QED BY <1>1, <1>2, <1>3, <2>1, <3>1
  <2> QED BY <2>2, <2>3
<1>6. q.step <= Len(Snapshot(q).steps) /\ Snapshot(q) = Snapshot(r)
  BY <1>1, <1>3, <1>4 DEF Snapshot
<1>7. RequestOK(q)
  BY <1>3, <1>5, <1>6 DEF RequestOK
<1> QED BY <1>7 DEF q

(* ------------------------------ the invariant ---------------------------- *)

\* The worker that has nothing to do.
LEMMA IdleOK ==
  /\ IdleWorker \in WorkerStates /\ IdleWorker.pc = "idle" /\ IdleWorker.req = NoReq
  /\ WorkerOK(IdleWorker)
<1>1. NoStep \in AllSteps /\ NoNode \in MaybeNode
  BY DEF AllSteps, MaybeNode
<1>2. IdleWorker \in WorkerStates /\ IdleWorker.pc = "idle" /\ IdleWorker.req = NoReq
  BY <1>1 DEF IdleWorker, WorkerStates, WorkerPCs
<1> QED BY <1>2 DEF WorkerOK, MaybeOK

\* Nothing has started.
LEMMA PRInitInv == PRInit => PRInv
<1> SUFFICES ASSUME PRInit PROVE PRInv
  OBVIOUS
<1>2. /\ IdleWorker \in WorkerStates /\ IdleWorker.pc = "idle" /\ IdleWorker.req = NoReq
      /\ WorkerOK(IdleWorker)
  BY IdleOK
<1>3. NoTaskEntry \in EntryOf(AnyRequests)
  BY DEF NoTaskEntry, EntryOf, TaskStatuses
<1>4. PRTyped
  BY <1>2, <1>3, PipelineRunAssumption DEF PRInit, PRTyped
<1>5. RequestsOK
  BY <1>2 DEF PRInit, RequestsOK, MaybeOK
<1>6. CopiesOK
  <2>1. \A n \in Nodes : ~ Holds(n) /\ inbox[n] = NoReq
    BY <1>2 DEF PRInit, Holds
  <2>2. Holders = {} /\ Inboxes = {}
    BY <2>1 DEF Holders, Inboxes
  <2> QED BY <2>2, FS_EmptySet DEF CopiesOK, PRInit
<1>7. \A n \in Nodes : ent[n] = NoTaskEntry /\ work[n].pc = "idle" /\ inbox[n] = NoReq
  BY <1>2 DEF PRInit
<1>8. \A n \in Nodes : NodeOK(n)
  <2>1. /\ ~ NoTaskEntry.ret /\ NoTaskEntry.st = "none" /\ NoTaskEntry.acc = NoReq
    BY DEF NoTaskEntry
  <2>2. "none" \notin TerminalStatus /\ "idle" \notin TerminalStatus
    BY DEF TerminalStatus
  <2> QED BY <1>7, <2>1, <2>2 DEF NodeOK
<1>9. Quiet /\ Waited
  BY <1>7, PipelineRunAssumption DEF PRInit, Quiet, Waited, NoTaskEntry
<1> QED BY <1>4, <1>5, <1>6, <1>8, <1>9 DEF PRInv

\* The nodes that have a copy are finitely many.
LEMMA HoldersFinite == IsFiniteSet(Holders) /\ IsFiniteSet(Inboxes)
BY PipelineRunAssumption, FS_Subset DEF Holders, Inboxes

\* Under the invariant the property holds.
LEMMA PRInvKept == PRInv => TaskKept
<1> SUFFICES ASSUME PRInv PROVE TaskKept
  OBVIOUS
<1> USE HoldersFinite
<1>1. Copies = Cardinality(Holders) + Cardinality(Inboxes) + (IF esc = NoReq THEN 0 ELSE 1)
  BY DEF Copies, Holders, Inboxes
<1>2. Copies <= 1 + lost
  BY <1>1 DEF PRInv, CopiesOK
<1>3. Cardinality(Holders) \in Nat /\ Cardinality(Inboxes) \in Nat
  BY FS_CardinalityType
<1>4. ASSUME NEW n \in Nodes, Holds(n) \/ inbox[n] # NoReq PROVE Copies > 0
  <2>1. Holders # {} \/ Inboxes # {}
    BY <1>4 DEF Holders, Inboxes
  <2>2. Cardinality(Holders) # 0 \/ Cardinality(Inboxes) # 0
    BY <2>1, FS_EmptySet
  <2> QED BY <1>1, <1>3, <2>2
<1>5. esc # NoReq => Copies > 0
  BY <1>1, <1>3
<1>6. \A n \in Nodes : work[n].pc # "idle" => Holds(n) \/ work[n].pc \in TerminalStatus
  BY DEF Holds, TerminalStatus
<1>7. ent[Coord].st \in {"pending", "running", "escrow"} =>
        Copies > 0 \/ refused # {} \/ \E n \in Nodes : work[n].pc \in TerminalStatus
  BY <1>4, <1>5, <1>6 DEF PRInv, Waited, Somewhere
<1> QED BY <1>2, <1>7 DEF TaskKept

\* What the invariant says of a node, of its entry and of its worker.
LEMMA NodeFacts ==
  ASSUME PRInv, NEW n \in Nodes
  PROVE  /\ ent[n] \in EntryOf(AnyRequests) /\ ~ ent[n].ret /\ ent[n].st # "ingesting"
         /\ WorkerOK(work[n]) /\ MaybeOK(inbox[n]) /\ MaybeOK(esc)
         /\ work[n].pc # "idle" => RequestOK(work[n].req)
         /\ inbox[n] # NoReq => RequestOK(inbox[n])
         /\ work[n].pc # "idle" \/ inbox[n] # NoReq => ent[Coord].meta
BY DEF PRInv, PRTyped, RequestsOK, NodeOK, Quiet, MaybeOK, WorkerOK

\* What a handler may make of an entry: the end of a task is final.
EntryStep(e, f) ==
  /\ f \in EntryOf(AnyRequests) /\ ~ f.ret /\ f.st # "ingesting"
  /\ e.meta => f.meta
  /\ e.st \in TerminalStatus => f.st \in TerminalStatus

\* A node that has the task goes on with it, or ends it: the shape of most steps.
LEMMA WorkerStep ==
  ASSUME PRInv, NEW n \in Nodes, NEW w, NEW e, NEW i \in {inbox[n], NoReq},
         work' = [work EXCEPT ![n] = w], ent' = [ent EXCEPT ![n] = e],
         inbox' = [inbox EXCEPT ![n] = i], UNCHANGED <<cat, esc, lost, refused>>,
         Holds(n) \/ (work[n].pc = "idle" /\ inbox[n] # NoReq /\ i = NoReq),
         WorkerOK(w), w.pc # "idle", EntryStep(ent[n], e),
         w.pc \in TerminalStatus => e.st \in TerminalStatus,
         w.pc \notin TerminalStatus => e.st = ent[n].st
  PROVE  PRInv'
<1>1. /\ \A k \in Nodes \ {n} : work'[k] = work[k] /\ ent'[k] = ent[k] /\ inbox'[k] = inbox[k]
      /\ work'[n] = w /\ ent'[n] = e /\ inbox'[n] = i
      /\ MaybeOK(i) /\ i \in AnyRequests \cup {NoReq}
  BY DEF PRInv, PRTyped, RequestsOK, MaybeOK
<1>2. PRTyped'
  BY <1>1 DEF PRInv, PRTyped, WorkerOK, EntryStep
<1>3. RequestsOK'
  BY <1>1 DEF PRInv, RequestsOK
<1>4. CopiesOK'
  <2> USE HoldersFinite
  <2>1. lost \in Nat /\ lost' = lost /\ esc' = esc
    BY DEF PRInv, PRTyped
  <2>2. CopiesOK
    BY DEF PRInv
  <2>3. Inboxes' \subseteq Inboxes
    BY <1>1 DEF Inboxes
  <2>4. CASE Holds(n)
    <3>1. Holders' \subseteq Holders
      BY <1>1, <2>4 DEF Holders, Holds
    <3>2. /\ Cardinality(Holders') \in Nat /\ Cardinality(Holders) \in Nat
          /\ Cardinality(Holders') <= Cardinality(Holders)
      BY <3>1, NoMore
    <3>3. /\ Cardinality(Inboxes') \in Nat /\ Cardinality(Inboxes) \in Nat
          /\ Cardinality(Inboxes') <= Cardinality(Inboxes)
      BY <2>3, NoMore
    <3> QED BY <2>1, <2>2, <3>2, <3>3 DEF CopiesOK
  <2>5. CASE inbox[n] # NoReq /\ i = NoReq
    <3>1. Holders' \subseteq Holders \cup {n}
      BY <1>1 DEF Holders, Holds
    <3>2. Inboxes' \subseteq Inboxes \ {n} /\ n \in Inboxes
      BY <1>1, <2>5 DEF Inboxes
    <3>3. /\ Cardinality(Holders') \in Nat /\ Cardinality(Holders) \in Nat
          /\ Cardinality(Holders') <= Cardinality(Holders) + 1
      BY <3>1, OneMore
    <3>4. /\ Cardinality(Inboxes') \in Nat /\ Cardinality(Inboxes) \in Nat
          /\ Cardinality(Inboxes') + 1 <= Cardinality(Inboxes)
      BY <3>2, OneLess
    <3> QED BY <2>1, <2>2, <3>3, <3>4 DEF CopiesOK
  <2> QED BY <2>4, <2>5
<1>5. ent[Coord].st \in TerminalStatus => ent'[Coord].st \in TerminalStatus
  BY <1>1, PipelineRunAssumption DEF EntryStep
<1>6. ASSUME NEW k \in Nodes PROVE NodeOK(k)'
  <2>1. NodeOK(k) /\ NodeOK(n) /\ work[n].pc \notin TerminalStatus /\ refused' = refused
    BY DEF PRInv, Holds, TerminalStatus
  <2>2. CASE k = n
    BY <1>1, <1>5, <2>1, <2>2 DEF NodeOK, Holds, EntryStep, TerminalStatus
  <2>3. CASE k # n
    BY <1>1, <1>5, <2>1, <2>3 DEF NodeOK, Holds
  <2> QED BY <2>2, <2>3
<1>7. Quiet'
  <2>1. ent[Coord].meta
    BY NodeFacts DEF Holds
  <2> QED BY <1>1, <2>1, PipelineRunAssumption DEF EntryStep, Quiet
<1>8. Waited'
  BY <1>1 DEF Waited, Somewhere
<1> QED BY <1>2, <1>3, <1>4, <1>6, <1>7, <1>8 DEF PRInv

\* A place of the worker's loop suits the request and the step it is about.
StartOK(pc, r, s) ==
  /\ pc \in {"exec", "advance", "route", "completed"}
  /\ RequestOK(r) /\ s \in AllSteps
  /\ pc \in {"exec", "route"} => s \in RevisionSteps
  /\ pc = "exec" => r.step < Len(Snapshot(r).steps) /\ s = Snapshot(r).steps[r.step + 1]

\* The worker of a node that starts a step or ends the task.
LEMMA GotoOK ==
  ASSUME NEW pc, NEW r, NEW s, StartOK(pc, r, s)
  PROVE  LET w == [IdleWorker EXCEPT !.pc = pc, !.req = r, !.st = s]
         IN WorkerOK(w) /\ w.pc = pc
<1> DEFINE w == [IdleWorker EXCEPT !.pc = pc, !.req = r, !.st = s]
<1>1. r # NoReq /\ r \in AnyRequests
  BY RequestIsNot DEF StartOK
<1>2. w \in WorkerStates /\ w.pc = pc /\ w.req = r /\ w.st = s
  BY <1>1, IdleOK DEF WorkerStates, WorkerPCs, StartOK
<1> HIDE DEF w
<1>5. WorkerOK(w)
  BY <1>1, <1>2 DEF WorkerOK, MaybeOK, StartOK
<1> QED BY <1>2, <1>5 DEF w

\* The worker that has failed the task and will report it.
LEMMA FailedOK ==
  ASSUME NEW r, RequestOK(r)
  PROVE  LET w == [IdleWorker EXCEPT !.pc = "failed", !.req = r]
         IN WorkerOK(w) /\ w.pc = "failed"
<1> DEFINE w == [IdleWorker EXCEPT !.pc = "failed", !.req = r]
<1>1. r # NoReq /\ r \in AnyRequests
  BY RequestIsNot
<1>2. w \in WorkerStates /\ w.pc = "failed" /\ w.req = r
  BY <1>1, IdleOK DEF WorkerStates, WorkerPCs
<1> HIDE DEF w
<1>5. WorkerOK(w)
  BY <1>1, <1>2 DEF WorkerOK, MaybeOK
<1> QED BY <1>2, <1>5 DEF w

\* An entry that is not retired takes a status unless it has ended.
LEMMA StatusStep ==
  ASSUME NEW e \in EntryOf(AnyRequests), ~ e.ret, e.st # "ingesting",
         NEW s \in {"failed", "completed", "escrow"}
  PROVE  LET f == SetTaskStatus(e, s, FALSE)
         IN /\ EntryStep(e, f)
            /\ s \in TerminalStatus => f.st \in TerminalStatus
            /\ f.acc \in {e.acc, NoReq}
            /\ e.st \notin TerminalStatus => f.st = s
<1> DEFINE f == SetTaskStatus(e, s, FALSE)
<1>1. s \in TaskStatuses /\ s # "ingesting"
  BY DEF TaskStatuses, TerminalStatus
<1>2. /\ f \in EntryOf(AnyRequests) /\ f.ret = e.ret /\ f.exp = e.exp
      /\ IF e.ret \/ e.st \in TerminalStatus THEN f = e
         ELSE f.st = s /\ f.meta /\ f.acc = IF s \in TerminalStatus THEN NoReq ELSE e.acc
      /\ Ended(e) => Ended(f)
  BY <1>1, SetTaskStatusEntry
<1> HIDE DEF f
<1>3. /\ EntryStep(e, f)
      /\ s \in TerminalStatus => f.st \in TerminalStatus
      /\ f.acc \in {e.acc, NoReq}
      /\ e.st \notin TerminalStatus => f.st = s
  BY <1>1, <1>2 DEF EntryStep
<1> QED BY <1>3 DEF f

\* A migration only adds producers to the entry.
LEMMA MigratedStep ==
  ASSUME PRInv, NEW n \in Nodes, NEW r, RequestOK(r), NEW q \in Migrate(n, r)
  PROVE  LET f == Migrated(n, r, q)
         IN EntryStep(ent[n], f) /\ f.st = ent[n].st /\ f.acc = ent[n].acc
<1>0. ent[n] \in EntryOf(AnyRequests) /\ ~ ent[n].ret /\ ent[n].st # "ingesting"
  BY NodeFacts
<1>1. CASE q.sch = r.sch
  BY <1>0, <1>1 DEF Migrated, EntryStep
<1>2. CASE q.sch # r.sch
  <2> DEFINE ns == {q.sel[id] : id \in IDs}
             f  == Delegate(ent[n], ns)
  <2>1. q.sel \in [IDs -> MaybeNode]
    BY MigrateKeeps DEF RequestOK, AnyRequests, PRInv
  <2>2. ns \in SUBSET (Nodes \cup {NoNode})
    BY <2>1 DEF MaybeNode
  <2> HIDE DEF ns
  <2>3. /\ f \in EntryOf(AnyRequests) /\ f.st = ent[n].st /\ f.ret = ent[n].ret
        /\ f.acc = ent[n].acc /\ f.meta
    BY <1>0, <2>2, DelegateEntry
  <2>4. Migrated(n, r, q) = f
    BY <1>2 DEF Migrated, ns
  <2> HIDE DEF f
  <2> QED BY <1>0, <2>3, <2>4 DEF EntryStep
<1> QED BY <1>1, <1>2

\* Delegating a step to a target.
LEMMA DelegateStep ==
  ASSUME PRInv, NEW n \in Nodes, NEW m \in MaybeNode
  PROVE  LET f == Delegate(ent[n], {m})
         IN EntryStep(ent[n], f) /\ f.st = ent[n].st /\ f.acc = ent[n].acc
<1> DEFINE f == Delegate(ent[n], {m})
<1>0. ent[n] \in EntryOf(AnyRequests) /\ ~ ent[n].ret /\ ent[n].st # "ingesting"
  BY NodeFacts
<1>1. {m} \in SUBSET (Nodes \cup {NoNode})
  BY DEF MaybeNode
<1>2. /\ f \in EntryOf(AnyRequests) /\ f.st = ent[n].st /\ f.ret = ent[n].ret
      /\ f.acc = ent[n].acc /\ f.meta
  BY <1>0, <1>1, DelegateEntry
<1> HIDE DEF f
<1>3. EntryStep(ent[n], f) /\ f.st = ent[n].st /\ f.acc = ent[n].acc
  BY <1>0, <1>2 DEF EntryStep
<1> QED BY <1>3 DEF f

\* A variable that a step leaves alone is the same function.
LEMMA Same ==
  ASSUME PRInv, NEW n \in Nodes
  PROVE  /\ inbox = [inbox EXCEPT ![n] = inbox[n]]
         /\ ent = [ent EXCEPT ![n] = ent[n]]
         /\ EntryStep(ent[n], ent[n])
<1>1. inbox = [inbox EXCEPT ![n] = inbox[n]] /\ ent = [ent EXCEPT ![n] = ent[n]]
  BY DEF PRInv, PRTyped
<1> QED BY <1>1, NodeFacts DEF EntryStep

\* sendPipelineError on a node that has the task.
LEMMA FailInv ==
  ASSUME PRInv, NEW n \in Nodes, NEW r, RequestOK(r), Fail(n, r),
         NEW i \in {inbox[n], NoReq}, inbox' = [inbox EXCEPT ![n] = i],
         UNCHANGED <<cat, esc, lost, refused>>,
         Holds(n) \/ (work[n].pc = "idle" /\ inbox[n] # NoReq /\ i = NoReq)
  PROVE  PRInv'
<1> DEFINE w == [IdleWorker EXCEPT !.pc = "failed", !.req = r]
           e == SetTaskStatus(ent[n], "failed", FALSE)
<1>1. work' = [work EXCEPT ![n] = w] /\ ent' = [ent EXCEPT ![n] = e]
  BY DEF Fail, PRInv, PRTyped
<1>2. WorkerOK(w) /\ w.pc = "failed"
  BY FailedOK
<1>3. EntryStep(ent[n], e) /\ e.st \in TerminalStatus
  <2>1. "failed" \in TerminalStatus
    BY DEF TerminalStatus
  <2> QED BY <2>1, NodeFacts, StatusStep
<1> HIDE DEF w, e
<1>4. w.pc # "idle" /\ w.pc \in TerminalStatus
  BY <1>2 DEF TerminalStatus
<1> QED BY <1>1, <1>2, <1>3, <1>4, WorkerStep

(* ------------------------------ the actions ------------------------------ *)

\* The next step of a request that has one.
LEMMA NextStep ==
  ASSUME NEW r, RequestOK(r), r.step < Len(Snapshot(r).steps)
  PROVE  Snapshot(r).steps[r.step + 1] \in RevisionSteps
<1>1. r.sch \in DOMAIN Revisions /\ r.step \in Nat
  BY DEF RequestOK, AnyRequests
<1>2. /\ Len(Snapshot(r).steps) \in Nat
      /\ \A k \in 1 .. Len(Snapshot(r).steps) : Snapshot(r).steps[k] \in RevisionSteps
  BY <1>1, RevisionFacts DEF Snapshot
<1> QED BY <1>1, <1>2

\* The worker of a node goes on to another place of its loop, with its entry as it was
\* but for the producers.
LEMMA GoesOn ==
  ASSUME PRInv, NEW n \in Nodes, NEW w, NEW e, Holds(n),
         work' = [work EXCEPT ![n] = w], ent' = [ent EXCEPT ![n] = e],
         UNCHANGED <<inbox, cat, esc, lost, refused>>,
         WorkerOK(w), w.pc \notin {"idle", "failed", "completed"},
         EntryStep(ent[n], e), e.st = ent[n].st
  PROVE  PRInv'
<1>1. inbox' = [inbox EXCEPT ![n] = inbox[n]]
  BY Same
<1>2. w.pc # "idle" /\ w.pc \notin TerminalStatus
  BY DEF TerminalStatus
<1> QED BY <1>1, <1>2, WorkerStep

\* Taking a request from the queue: its step starts, or the task is failed.
LEMMA ProcessInv == ASSUME PRInv, NEW n \in Nodes, Process(n) PROVE PRInv'
<1>1. /\ work[n].pc = "idle" /\ inbox[n] # NoReq
      /\ inbox' = [inbox EXCEPT ![n] = NoReq] /\ UNCHANGED <<cat, esc, lost, refused>>
  BY DEF Process
<1>2. RequestOK(inbox[n]) /\ PRTyped
  BY <1>1, NodeFacts DEF PRInv
<1>3. PICK q \in Migrate(n, inbox[n]) :
        IF Bindable(q) /\ q.step < Len(Snapshot(q).steps)
        THEN /\ work' = Goto(n, IF RunsHere(n, q) THEN "exec" ELSE "route", q,
                             Snapshot(q).steps[q.step + 1])
             /\ ent' = [ent EXCEPT ![n] = Migrated(n, inbox[n], q)]
        ELSE Fail(n, q)
  BY DEF Process
<1>4. RequestOK(q)
  BY <1>2, MigrateKeeps
<1>5. CASE Bindable(q) /\ q.step < Len(Snapshot(q).steps)
  <2> DEFINE pc == IF RunsHere(n, q) THEN "exec" ELSE "route"
             s  == Snapshot(q).steps[q.step + 1]
             w  == [IdleWorker EXCEPT !.pc = pc, !.req = q, !.st = s]
             e  == Migrated(n, inbox[n], q)
  <2>1. work' = [work EXCEPT ![n] = w] /\ ent' = [ent EXCEPT ![n] = e]
    BY <1>3, <1>5 DEF Goto
  <2>2. s \in RevisionSteps /\ s \in AllSteps
    BY <1>4, <1>5, NextStep DEF AllSteps, RevisionSteps
  <2>3. pc \in {"exec", "advance", "route", "completed"} /\ pc \in {"exec", "route"}
    OBVIOUS
  <2>4. EntryStep(ent[n], e) /\ e.st = ent[n].st
    BY <1>2, MigratedStep
  <2>7. pc = "exec" => q.step < Len(Snapshot(q).steps) /\ s = Snapshot(q).steps[q.step + 1]
    BY <1>5
  <2> HIDE DEF pc, e, s
  <2>8. StartOK(pc, q, s)
    BY <1>4, <2>2, <2>3, <2>7 DEF StartOK
  <2>5. WorkerOK(w) /\ w.pc = pc
    BY <2>8, GotoOK
  <2> HIDE DEF w
  <2>6. w.pc # "idle" /\ w.pc \notin TerminalStatus
    BY <2>3, <2>5 DEF TerminalStatus
  <2> QED BY <1>1, <2>1, <2>4, <2>5, <2>6, WorkerStep
<1>6. CASE ~ (Bindable(q) /\ q.step < Len(Snapshot(q).steps))
  <2>1. Fail(n, q)
    BY <1>3, <1>6
  <2> QED BY <1>1, <1>4, <2>1, FailInv
<1> QED BY <1>5, <1>6

\* Running the handler.
LEMMA ExecuteInv == ASSUME PRInv, NEW n \in Nodes, Execute(n) PROVE PRInv'
<1>1. work[n].pc = "exec" /\ UNCHANGED <<cat, inbox, esc, lost, refused>>
  BY DEF Execute
<1> DEFINE r == work[n].req
           s == work[n].st
           q == [r EXCEPT !.step = @ + 1, !.prod[s.id] = n]
<1>2. /\ RequestOK(r) /\ r.step < Len(Snapshot(r).steps)
      /\ s = Snapshot(r).steps[r.step + 1]
  BY <1>1, NodeFacts DEF WorkerOK
<1>3. Holds(n)
  BY <1>1 DEF Holds
<1>4. CASE Fail(n, r)
  BY <1>1, <1>2, <1>3, <1>4, FailInv, Same
<1>5. CASE work' = Goto(n, "advance", q, NoStep) /\ UNCHANGED ent
  <2> DEFINE w == [IdleWorker EXCEPT !.pc = "advance", !.req = q, !.st = NoStep]
  <2>1. RequestOK(q)
    BY <1>2, ExecuteKeeps
  <2> HIDE DEF q
  <2>2. NoStep \in AllSteps
    BY DEF AllSteps
  <2>3. WorkerOK(w) /\ w.pc = "advance"
    <3>1. StartOK("advance", q, NoStep)
      BY <2>1, <2>2 DEF StartOK
    <3> QED BY <3>1, GotoOK
  <2>4. work' = [work EXCEPT ![n] = w]
    BY <1>5 DEF Goto
  <2>5. ent' = [ent EXCEPT ![n] = ent[n]] /\ EntryStep(ent[n], ent[n])
    BY <1>5, Same
  <2> HIDE DEF w
  <2>6. w.pc \notin {"idle", "failed", "completed"}
    BY <2>3
  <2> QED BY <1>1, <1>3, <2>3, <2>4, <2>5, <2>6, GoesOn
<1> QED BY <1>4, <1>5 DEF Execute

\* Routing the next step, or completing the task.
LEMMA AdvanceInv == ASSUME PRInv, NEW n \in Nodes, Advance(n) PROVE PRInv'
<1>1. work[n].pc = "advance" /\ UNCHANGED <<cat, inbox, esc, lost, refused>>
  BY DEF Advance
<1>2. RequestOK(work[n].req) /\ PRTyped /\ Holds(n)
  BY <1>1, NodeFacts DEF PRInv, Holds
<1>3. PICK q \in Migrate(n, work[n].req) :
        IF q.step < Len(Snapshot(q).steps)
        THEN /\ work' = Goto(n, "route", q, Snapshot(q).steps[q.step + 1])
             /\ ent' = [ent EXCEPT ![n] = Migrated(n, work[n].req, q)]
        ELSE /\ work' = Goto(n, "completed", q, NoStep)
             /\ ent' = [ent EXCEPT ![n] =
                          SetTaskStatus(Migrated(n, work[n].req, q), "completed", FALSE)]
  BY DEF Advance
<1>4. RequestOK(q)
  BY <1>2, MigrateKeeps
<1> DEFINE e == Migrated(n, work[n].req, q)
<1>5. EntryStep(ent[n], e) /\ e.st = ent[n].st
  BY <1>2, MigratedStep
<1>6. CASE q.step < Len(Snapshot(q).steps)
  <2> DEFINE s == Snapshot(q).steps[q.step + 1]
             w == [IdleWorker EXCEPT !.pc = "route", !.req = q, !.st = s]
  <2>1. work' = [work EXCEPT ![n] = w] /\ ent' = [ent EXCEPT ![n] = e]
    BY <1>3, <1>6 DEF Goto
  <2>2. s \in RevisionSteps /\ s \in AllSteps
    BY <1>4, <1>6, NextStep DEF AllSteps, RevisionSteps
  <2> HIDE DEF e, s
  <2>3. WorkerOK(w) /\ w.pc = "route"
    <3>1. StartOK("route", q, s)
      BY <1>4, <2>2 DEF StartOK
    <3> QED BY <3>1, GotoOK
  <2> HIDE DEF w
  <2>4. w.pc \notin {"idle", "failed", "completed"}
    BY <2>3
  <2> QED BY <1>1, <1>2, <1>5, <2>1, <2>3, <2>4, GoesOn
<1>7. CASE ~ (q.step < Len(Snapshot(q).steps))
  <2> DEFINE w == [IdleWorker EXCEPT !.pc = "completed", !.req = q, !.st = NoStep]
             f == SetTaskStatus(e, "completed", FALSE)
  <2>1. work' = [work EXCEPT ![n] = w] /\ ent' = [ent EXCEPT ![n] = f]
    BY <1>3, <1>7 DEF Goto
  <2> HIDE DEF e
  <2>2. NoStep \in AllSteps /\ "completed" \in TerminalStatus
    BY DEF AllSteps, TerminalStatus
  <2>3. WorkerOK(w) /\ w.pc = "completed"
    <3>1. StartOK("completed", q, NoStep)
      BY <1>4, <2>2 DEF StartOK
    <3> QED BY <3>1, GotoOK
  <2>4. EntryStep(e, f) /\ f.st \in TerminalStatus
    <3>1. e \in EntryOf(AnyRequests) /\ ~ e.ret /\ e.st # "ingesting"
      BY <1>5 DEF EntryStep
    <3> QED BY <2>2, <3>1, StatusStep
  <2> HIDE DEF w, f
  <2>5. EntryStep(ent[n], f)
    BY <1>5, <2>4 DEF EntryStep
  <2>6. w.pc # "idle" /\ w.pc \in TerminalStatus
    BY <2>2, <2>3
  <2> QED BY <1>1, <1>2, <2>1, <2>3, <2>4, <2>5, <2>6, Same, WorkerStep
<1> QED BY <1>6, <1>7

\* The worker v may change its place, its request, its target and the nodes it has tried.
MoveOK(v, pc, r, m, ts) ==
  /\ WorkerOK(v) /\ v.pc \in {"route", "dispatch", "failover"}
  /\ pc \in {"dispatch", "failover", "escalate"}
  /\ RequestOK(r) /\ m \in MaybeNode /\ ts \in SUBSET Nodes
  /\ pc # "escalate" => m \in Nodes

MoveTo(v, pc, r, m, ts) == [v EXCEPT !.pc = pc, !.req = r, !.tgt = m, !.tried = ts]

\* The worker that has changed them.
LEMMA MovedWorker ==
  ASSUME NEW v, NEW pc, NEW r, NEW m, NEW ts, MoveOK(v, pc, r, m, ts)
  PROVE  WorkerOK(MoveTo(v, pc, r, m, ts)) /\ MoveTo(v, pc, r, m, ts).pc = pc
<1> DEFINE w == MoveTo(v, pc, r, m, ts)
<1>1. r # NoReq /\ r \in AnyRequests /\ v \in WorkerStates /\ v.st \in RevisionSteps
  BY RequestIsNot DEF WorkerOK, MoveOK
<1>2. w \in WorkerStates /\ w.pc = pc /\ w.req = r /\ w.st = v.st /\ w.tgt = m
  BY <1>1 DEF WorkerStates, WorkerPCs, MoveOK, MoveTo
<1> HIDE DEF w
<1>3. WorkerOK(w)
  BY <1>1, <1>2 DEF WorkerOK, MaybeOK, MoveOK
<1> QED BY <1>2, <1>3 DEF w

\* The parts of a worker.
LEMMA WorkerFacts ==
  ASSUME PRInv, NEW n \in Nodes, work[n].pc \in {"route", "dispatch", "failover"}
  PROVE  /\ WorkerOK(work[n]) /\ work[n] \in WorkerStates /\ RequestOK(work[n].req) /\ Holds(n)
         /\ work[n].st \in RevisionSteps /\ work[n].st.id \in IDs
         /\ work[n].tgt \in MaybeNode /\ work[n].tried \in SUBSET Nodes
         /\ work[n].pc \in {"dispatch", "failover"} => work[n].tgt \in Nodes
         /\ work[n].req.sel \in [IDs -> MaybeNode]
<1>1. WorkerOK(work[n]) /\ RequestOK(work[n].req) /\ Holds(n)
  BY NodeFacts DEF Holds
<1>2. work[n].st \in RevisionSteps /\ work[n].st.id \in IDs
  BY <1>1, StepFacts DEF WorkerOK
<1> QED BY <1>1, <1>2 DEF WorkerOK, WorkerStates, RequestOK, AnyRequests

\* Choosing the target of the next step.
LEMMA RouteInv == ASSUME PRInv, NEW n \in Nodes, Route(n) PROVE PRInv'
<1> DEFINE v == work[n]
           r == work[n].req
           s == work[n].st
<1>1. v.pc = "route" /\ UNCHANGED <<cat, inbox, esc, lost, refused>>
  BY DEF Route
<1>2. /\ WorkerOK(v) /\ v \in WorkerStates /\ RequestOK(r) /\ Holds(n)
      /\ s \in RevisionSteps /\ s.id \in IDs /\ v.tgt \in MaybeNode /\ v.tried \in SUBSET Nodes
      /\ r.sel \in [IDs -> MaybeNode]
  BY <1>1, WorkerFacts
<1>3. PICK m \in IF r.sel[s.id] # NoNode THEN {r.sel[s.id]} ELSE Select(n, s) :
        IF m # NoNode
        THEN /\ work' = [work EXCEPT ![n].pc = "dispatch", ![n].req.sel[s.id] = m, ![n].tgt = m]
             /\ ent' = [ent EXCEPT ![n] = Delegate(@, {m})]
        ELSE IF r.step > 0
        THEN work' = [work EXCEPT ![n].pc = "escalate"] /\ UNCHANGED ent
        ELSE Fail(n, r)
  BY DEF Route
<1>4. m \in MaybeNode
  <2>1. s.tgt \in MaybeNode /\ n \in MaybeNode
    BY <1>2, StepFacts DEF MaybeNode
  <2>2. Select(n, s) \subseteq MaybeNode
    BY <2>1 DEF Select, Offers, MaybeNode
  <2> QED BY <1>2, <1>3, <2>2
<1>5. work \in [Nodes -> WorkerStates] /\ ent \in [Nodes -> EntryOf(AnyRequests)]
  BY DEF PRInv, PRTyped
<1>6. CASE m # NoNode
  <2> DEFINE q == [r EXCEPT !.sel[s.id] = m]
             w == MoveTo(v, "dispatch", q, m, v.tried)
             e == Delegate(ent[n], {m})
  <2>1. RequestOK(q)
    BY <1>2, <1>4, TargetKeeps
  <2>2. work' = [work EXCEPT ![n] = [v EXCEPT !.pc = "dispatch", !.req = q, !.tgt = m]]
    <3>1. work' = [work EXCEPT ![n].pc = "dispatch", ![n].req.sel[s.id] = m, ![n].tgt = m]
      BY <1>3, <1>6
    <3> QED BY <1>2, <1>5, <3>1 DEF WorkerStates
  <2>3. [v EXCEPT !.pc = "dispatch", !.req = q, !.tgt = m] = w
    <3> HIDE DEF q
    <3> QED BY <1>2 DEF WorkerStates, MoveTo
  <2>4. m \in Nodes
    BY <1>4, <1>6 DEF MaybeNode
  <2>5. ent' = [ent EXCEPT ![n] = e]
    BY <1>3, <1>5, <1>6
  <2> HIDE DEF q
  <2>6. WorkerOK(w) /\ w.pc = "dispatch"
    <3>1. MoveOK(v, "dispatch", q, m, v.tried)
      BY <1>1, <1>2, <1>4, <2>1, <2>4 DEF MoveOK
    <3> QED BY <3>1, MovedWorker
  <2>7. EntryStep(ent[n], e) /\ e.st = ent[n].st
    BY <1>4, DelegateStep
  <2>8. work' = [work EXCEPT ![n] = w]
    BY <2>2, <2>3
  <2> HIDE DEF w, e
  <2>9. w.pc \notin {"idle", "failed", "completed"}
    BY <2>6
  <2> QED BY <1>1, <1>2, <2>5, <2>6, <2>7, <2>8, <2>9, GoesOn
<1>7. CASE m = NoNode /\ r.step > 0
  <2> DEFINE w == MoveTo(v, "escalate", r, v.tgt, v.tried)
  <2>1. work' = [work EXCEPT ![n] = [v EXCEPT !.pc = "escalate"]] /\ UNCHANGED ent
    BY <1>3, <1>5, <1>7
  <2>2. [v EXCEPT !.pc = "escalate"] = w
    BY <1>2 DEF WorkerStates, MoveTo
  <2>3. WorkerOK(w) /\ w.pc = "escalate"
    <3>1. MoveOK(v, "escalate", r, v.tgt, v.tried)
      BY <1>1, <1>2 DEF MoveOK
    <3> QED BY <3>1, MovedWorker
  <2>4. work' = [work EXCEPT ![n] = w]
    BY <2>1, <2>2
  <2>5. ent' = [ent EXCEPT ![n] = ent[n]] /\ EntryStep(ent[n], ent[n])
    BY <2>1, Same
  <2> HIDE DEF w
  <2>6. w.pc \notin {"idle", "failed", "completed"}
    BY <2>3
  <2> QED BY <1>1, <1>2, <2>3, <2>4, <2>5, <2>6, GoesOn
<1>8. CASE m = NoNode /\ ~ (r.step > 0)
  <2>1. Fail(n, r)
    BY <1>3, <1>8
  <2> QED BY <1>1, <1>2, <2>1, FailInv, Same
<1> QED BY <1>6, <1>7, <1>8

\* DispatchTask gives up before the call: the worker looks for another candidate.
LEMMA DispatchRefusedInv == ASSUME PRInv, NEW n \in Nodes, DispatchRefused(n) PROVE PRInv'
<1> DEFINE v == work[n]
<1>1. v.pc = "dispatch" /\ UNCHANGED <<cat, inbox, esc, lost, refused>>
  BY DEF DispatchRefused
<1>2. /\ WorkerOK(v) /\ v \in WorkerStates /\ RequestOK(v.req) /\ Holds(n)
      /\ v.tgt \in MaybeNode /\ v.tgt \in Nodes /\ v.tried \in SUBSET Nodes
  BY <1>1, WorkerFacts
<1>3. PICK q \in Migrate(n, v.req) :
        /\ work' = [work EXCEPT ![n].pc = "failover", ![n].req = q]
        /\ ent' = [ent EXCEPT ![n] = Migrated(n, v.req, q)]
  BY DEF DispatchRefused
<1>4. RequestOK(q)
  BY <1>2, MigrateKeeps DEF PRInv
<1> DEFINE w == MoveTo(v, "failover", q, v.tgt, v.tried)
           e == Migrated(n, v.req, q)
<1>5. EntryStep(ent[n], e) /\ e.st = ent[n].st
  BY <1>2, MigratedStep
<1>6. work' = [work EXCEPT ![n] = w]
  <2>1. work' = [work EXCEPT ![n] = [v EXCEPT !.pc = "failover", !.req = q]]
    BY <1>3 DEF PRInv, PRTyped
  <2>2. [v EXCEPT !.pc = "failover", !.req = q] = w
    BY <1>2 DEF WorkerStates, MoveTo
  <2> QED BY <2>1, <2>2
<1>7. WorkerOK(w) /\ w.pc = "failover"
  <2>1. MoveOK(v, "failover", q, v.tgt, v.tried)
    BY <1>1, <1>2, <1>4 DEF MoveOK
  <2> QED BY <2>1, MovedWorker
<1> HIDE DEF w, e
<1>8. w.pc \notin {"idle", "failed", "completed"} /\ ent' = [ent EXCEPT ![n] = e]
  BY <1>3, <1>7 DEF e
<1> QED BY <1>1, <1>2, <1>5, <1>6, <1>7, <1>8, GoesOn

\* Taking the next candidate, or giving up on them.
LEMMA FailoverInv == ASSUME PRInv, NEW n \in Nodes, Failover(n) PROVE PRInv'
<1> DEFINE v == work[n]
           r == work[n].req
           s == work[n].st
           tried == v.tried \cup {v.tgt}
<1>1. v.pc = "failover" /\ UNCHANGED <<cat, inbox, esc, lost, refused>>
  BY DEF Failover
<1>2. /\ WorkerOK(v) /\ v \in WorkerStates /\ RequestOK(r) /\ Holds(n)
      /\ v.tgt \in MaybeNode /\ v.tgt \in Nodes /\ v.tried \in SUBSET Nodes
  BY <1>1, WorkerFacts
<1>3. work \in [Nodes -> WorkerStates] /\ ent \in [Nodes -> EntryOf(AnyRequests)]
  BY DEF PRInv, PRTyped
<1>4. ASSUME NEW m \in Nodes,
             work' = [work EXCEPT ![n] = [v EXCEPT !.pc = "dispatch", !.tgt = m,
                                                   !.tried = tried, !.req.sel[s.id] = m]],
             ent' = [ent EXCEPT ![n] = Delegate(@, {m})]
      PROVE  PRInv'
  <2> DEFINE q == [r EXCEPT !.sel[s.id] = m]
             w == MoveTo(v, "dispatch", q, m, tried)
             e == Delegate(ent[n], {m})
  <2>1. m \in MaybeNode /\ tried \in SUBSET Nodes
    BY <1>2 DEF MaybeNode
  <2>2. RequestOK(q)
    BY <1>2, <2>1, TargetKeeps
  <2> HIDE DEF tried
  <2>3. work' = [work EXCEPT ![n] = w]
    <3>1. [v EXCEPT !.pc = "dispatch", !.tgt = m, !.tried = tried, !.req.sel[s.id] = m]
          = [v EXCEPT !.pc = "dispatch", !.tgt = m, !.tried = tried, !.req = q]
      BY <1>2 DEF WorkerStates
    <3> HIDE DEF q
    <3>2. [v EXCEPT !.pc = "dispatch", !.tgt = m, !.tried = tried, !.req = q] = w
      BY <1>2 DEF WorkerStates, MoveTo
    <3> QED BY <1>4, <3>1, <3>2
  <2> HIDE DEF q
  <2>4. ent' = [ent EXCEPT ![n] = e]
    BY <1>3, <1>4
  <2>5. WorkerOK(w) /\ w.pc = "dispatch"
    <3>1. MoveOK(v, "dispatch", q, m, tried)
      BY <1>1, <1>2, <2>1, <2>2 DEF MoveOK
    <3> QED BY <3>1, MovedWorker
  <2>6. EntryStep(ent[n], e) /\ e.st = ent[n].st
    BY <2>1, DelegateStep
  <2> HIDE DEF w, e
  <2>7. w.pc \notin {"idle", "failed", "completed"}
    BY <2>5
  <2> QED BY <1>1, <1>2, <2>3, <2>4, <2>5, <2>6, <2>7, GoesOn
<1>5. ASSUME work' = [work EXCEPT ![n].pc = "escalate"], UNCHANGED ent PROVE PRInv'
  <2> DEFINE w == MoveTo(v, "escalate", r, v.tgt, v.tried)
  <2>1. work' = [work EXCEPT ![n] = [v EXCEPT !.pc = "escalate"]]
    BY <1>3, <1>5
  <2>2. [v EXCEPT !.pc = "escalate"] = w
    BY <1>2 DEF WorkerStates, MoveTo
  <2>3. WorkerOK(w) /\ w.pc = "escalate"
    <3>1. MoveOK(v, "escalate", r, v.tgt, v.tried)
      BY <1>1, <1>2 DEF MoveOK
    <3> QED BY <3>1, MovedWorker
  <2>4. work' = [work EXCEPT ![n] = w]
    BY <2>1, <2>2
  <2>5. ent' = [ent EXCEPT ![n] = ent[n]] /\ EntryStep(ent[n], ent[n])
    BY <1>5, Same
  <2> HIDE DEF w
  <2>6. w.pc \notin {"idle", "failed", "completed"}
    BY <2>3
  <2> QED BY <1>1, <1>2, <2>3, <2>4, <2>5, <2>6, GoesOn
<1>6. ASSUME Fail(n, r) PROVE PRInv'
  BY <1>1, <1>2, <1>6, FailInv, Same
<1>7. \/ \E m \in Nodes :
           /\ work' = [work EXCEPT ![n] = [v EXCEPT !.pc = "dispatch", !.tgt = m,
                                                    !.tried = tried, !.req.sel[s.id] = m]]
           /\ ent' = [ent EXCEPT ![n] = Delegate(@, {m})]
      \/ work' = [work EXCEPT ![n].pc = "escalate"] /\ UNCHANGED ent
      \/ Fail(n, r)
  BY DEF Failover
<1> QED BY <1>4, <1>5, <1>6, <1>7

\* What SubmitTask found when it queued a request, or returned nil without.
LEMMA SubmitFacts ==
  ASSUME NEW e \in EntryOf(AnyRequests), ~ e.ret, NEW r, NEW full \in BOOLEAN
  PROVE  LET out == SubmitOutcome(e, r, FALSE, full)
         IN /\ out = "queued" => ~ full /\ e.st \notin TerminalStatus
            /\ SubmitOK(out) /\ out # "queued" => e.st \in TerminalStatus \/ e.acc # NoReq
<1>1. CASE e.st \in TerminalStatus
  <2>1. SubmitOutcome(e, r, FALSE, full) = "known"
    BY <1>1 DEF SubmitOutcome
  <2> QED BY <1>1, <2>1
<1>2. CASE e.st \notin TerminalStatus /\ e.acc # NoReq
  <2>1. SubmitOutcome(e, r, FALSE, full) = IF e.acc = r THEN "same" ELSE "duplicate"
    BY <1>2 DEF SubmitOutcome
  <2> QED BY <1>2, <2>1
<1>3. CASE e.st \notin TerminalStatus /\ e.acc = NoReq
  <2>1. SubmitOutcome(e, r, FALSE, full) = IF full THEN "full" ELSE "queued"
    BY <1>3 DEF SubmitOutcome
  <2> QED BY <1>3, <2>1 DEF SubmitOK
<1> QED BY <1>1, <1>2, <1>3

\* A worker is done with the task: it is in the node's own queue, or it has ended here.
LEMMA IdleStep ==
  ASSUME PRInv, NEW n \in Nodes, NEW e, NEW i, Holds(n),
         work' = [work EXCEPT ![n] = IdleWorker], ent' = [ent EXCEPT ![n] = e],
         inbox' = [inbox EXCEPT ![n] = i], UNCHANGED <<cat, esc, lost, refused>>,
         EntryStep(ent[n], e), e.st = ent[n].st, MaybeOK(i),
         inbox[n] = NoReq \/ i = inbox[n], i # NoReq \/ e.st \in TerminalStatus
  PROVE  PRInv'
<1>1. /\ \A k \in Nodes \ {n} : work'[k] = work[k] /\ ent'[k] = ent[k] /\ inbox'[k] = inbox[k]
      /\ work'[n] = IdleWorker /\ ent'[n] = e /\ inbox'[n] = i
      /\ i \in AnyRequests \cup {NoReq}
  BY DEF PRInv, PRTyped, MaybeOK, RequestOK
<1>2. PRTyped'
  BY <1>1, IdleOK DEF PRInv, PRTyped, EntryStep
<1>3. RequestsOK'
  BY <1>1, IdleOK DEF PRInv, RequestsOK
<1>4. CopiesOK'
  <2> USE HoldersFinite
  <2>1. lost \in Nat /\ lost' = lost /\ esc' = esc
    BY DEF PRInv, PRTyped
  <2>2. CopiesOK
    BY DEF PRInv
  <2>3. Inboxes' \subseteq Inboxes \cup {n}
    BY <1>1 DEF Inboxes
  <2>4. Holders' \subseteq Holders \ {n} /\ n \in Holders
    BY <1>1, IdleOK DEF Holders, Holds
  <2>5. /\ Cardinality(Inboxes') \in Nat /\ Cardinality(Inboxes) \in Nat
        /\ Cardinality(Inboxes') <= Cardinality(Inboxes) + 1
    BY <2>3, OneMore
  <2>6. /\ Cardinality(Holders') \in Nat /\ Cardinality(Holders) \in Nat
        /\ Cardinality(Holders') + 1 <= Cardinality(Holders)
    BY <2>4, OneLess
  <2> QED BY <2>1, <2>2, <2>5, <2>6 DEF CopiesOK
<1>5. /\ ent[Coord].st \in TerminalStatus => ent'[Coord].st \in TerminalStatus
      /\ ent'[Coord].st = ent[Coord].st
  BY <1>1, PipelineRunAssumption
<1>6. NodeOK(n) /\ work[n].pc \notin TerminalStatus /\ refused' = refused
  BY DEF PRInv, Holds, TerminalStatus
<1>7. ASSUME NEW k \in Nodes PROVE NodeOK(k)'
  <2>1. NodeOK(k)
    BY DEF PRInv
  <2>2. CASE k = n
    <3>1. IdleWorker.pc \notin TerminalStatus
      BY IdleOK DEF TerminalStatus
    <3> QED BY <1>1, <1>5, <1>6, <2>2, <3>1 DEF NodeOK, EntryStep
  <2>3. CASE k # n
    BY <1>1, <1>5, <1>6, <2>1, <2>3 DEF NodeOK, Holds
  <2> QED BY <2>2, <2>3
<1>8. Quiet'
  <2>1. ent[Coord].meta
    BY NodeFacts DEF Holds
  <2> QED BY <1>1, <2>1, PipelineRunAssumption DEF EntryStep, Quiet
<1>9. Waited'
  <2>1. CASE i # NoReq
    BY <1>1, <2>1 DEF Waited, Somewhere
  <2>2. CASE e.st \in TerminalStatus
    <3>1. refused # {} \/ ent[Coord].st \in TerminalStatus
      BY <1>6, <2>2 DEF NodeOK
    <3> QED BY <1>5, <1>6, <3>1 DEF Waited, Somewhere, TerminalStatus
  <2> QED BY <2>1, <2>2
<1> QED BY <1>2, <1>3, <1>4, <1>7, <1>8, <1>9 DEF PRInv

\* Submitting the step to the node's own queue.
LEMMA DispatchHereInv == ASSUME PRInv, NEW n \in Nodes, DispatchHere(n) PROVE PRInv'
<1> DEFINE v    == work[n]
           r    == [v.req EXCEPT !.exp = n]
           e    == [ent[n] EXCEPT !.acc = NoReq]
           full == inbox[n] # NoReq
           out  == SubmitOutcome(e, r, FALSE, full)
<1>1. v.pc = "dispatch" /\ UNCHANGED <<cat, esc, lost, refused>>
  BY DEF DispatchHere
<1>2. /\ WorkerOK(v) /\ v \in WorkerStates /\ RequestOK(v.req) /\ Holds(n)
      /\ v.tgt \in MaybeNode /\ v.tgt \in Nodes /\ v.tried \in SUBSET Nodes
  BY <1>1, WorkerFacts
<1>3. n \in MaybeNode /\ full \in BOOLEAN
  BY DEF MaybeNode
<1>4. RequestOK(r)
  BY <1>2, <1>3, ProducerKeeps
<1>5. /\ e \in EntryOf(AnyRequests) /\ e.st = ent[n].st /\ e.acc = NoReq /\ ~ e.ret
      /\ EntryStep(ent[n], e)
  <2>1. ent[n] \in EntryOf(AnyRequests) /\ ~ ent[n].ret /\ ent[n].st # "ingesting"
    BY NodeFacts
  <2>2. /\ e \in EntryOf(AnyRequests) /\ e.st = ent[n].st /\ e.acc = NoReq
        /\ e.ret = ent[n].ret /\ e.meta = ent[n].meta
    BY <2>1 DEF EntryOf
  <2> HIDE DEF e
  <2> QED BY <2>1, <2>2 DEF EntryStep
<1>6. /\ out = "queued" => ~ full
      /\ SubmitOK(out) /\ out # "queued" => e.st \in TerminalStatus \/ e.acc # NoReq
  <2> HIDE DEF e, r, full
  <2> QED BY <1>3, <1>5, SubmitFacts
<1>7. IF out = "queued"
      THEN /\ inbox' = [inbox EXCEPT ![n] = r]
           /\ ent' = [ent EXCEPT ![n] = [e EXCEPT !.acc = r]]
           /\ work' = [work EXCEPT ![n] = IdleWorker]
      ELSE /\ ent' = [ent EXCEPT ![n] = e]
           /\ work' = IF SubmitOK(out) THEN [work EXCEPT ![n] = IdleWorker]
                      ELSE [work EXCEPT ![n].pc = "failover"]
           /\ UNCHANGED inbox
  BY DEF DispatchHere
<1>8. r # NoReq /\ r \in AnyRequests
  BY <1>4, RequestIsNot
<1> HIDE DEF e, r, out
<1>9. CASE out = "queued"
  <2> DEFINE f == [e EXCEPT !.acc = r]
  <2>1. /\ f \in EntryOf(AnyRequests) /\ f.st = e.st /\ f.ret = e.ret /\ f.meta = e.meta
    BY <1>5, <1>8 DEF EntryOf
  <2> HIDE DEF f
  <2>2. EntryStep(ent[n], f) /\ f.st = ent[n].st
    BY <1>5, <2>1 DEF EntryStep
  <2>3. inbox[n] = NoReq /\ MaybeOK(r)
    BY <1>4, <1>6, <1>9 DEF MaybeOK
  <2>4. /\ inbox' = [inbox EXCEPT ![n] = r] /\ ent' = [ent EXCEPT ![n] = f]
        /\ work' = [work EXCEPT ![n] = IdleWorker]
    BY <1>7, <1>9 DEF f
  <2> QED BY <1>1, <1>2, <1>8, <2>2, <2>3, <2>4, IdleStep
<1>10. CASE out # "queued" /\ SubmitOK(out)
  <2>1. e.st \in TerminalStatus /\ MaybeOK(inbox[n])
    BY <1>5, <1>6, <1>10, NodeFacts
  <2>2. /\ inbox' = [inbox EXCEPT ![n] = inbox[n]] /\ ent' = [ent EXCEPT ![n] = e]
        /\ work' = [work EXCEPT ![n] = IdleWorker]
    BY <1>7, <1>10, Same
  <2> QED BY <1>1, <1>2, <1>5, <2>1, <2>2, IdleStep
<1>11. CASE out # "queued" /\ ~ SubmitOK(out)
  <2> DEFINE w == MoveTo(v, "failover", v.req, v.tgt, v.tried)
  <2>1. work' = [work EXCEPT ![n].pc = "failover"] /\ ent' = [ent EXCEPT ![n] = e]
    BY <1>7, <1>11
  <2>2. work' = [work EXCEPT ![n] = [v EXCEPT !.pc = "failover"]]
    BY <2>1 DEF PRInv, PRTyped
  <2>3. [v EXCEPT !.pc = "failover"] = w
    BY <1>2 DEF WorkerStates, MoveTo
  <2>4. WorkerOK(w) /\ w.pc = "failover"
    <3>1. MoveOK(v, "failover", v.req, v.tgt, v.tried)
      BY <1>1, <1>2 DEF MoveOK
    <3> QED BY <3>1, MovedWorker
  <2>5. work' = [work EXCEPT ![n] = w]
    BY <2>2, <2>3
  <2> HIDE DEF w
  <2>6. w.pc \notin {"idle", "failed", "completed"} /\ UNCHANGED inbox
    BY <1>7, <1>11, <2>4
  <2> QED BY <1>1, <1>2, <1>5, <2>1, <2>4, <2>5, <2>6, GoesOn
<1> QED BY <1>9, <1>10, <1>11

\* A node calls another one, m: the request i may have entered its queue, and the caller
\* is done with the task (w is idle) or takes the call for failed.
RemoteCall(n, m, w, e, f, i, in) ==
  /\ work' = [work EXCEPT ![n] = w]
  /\ ent' = [ent EXCEPT ![m] = f, ![n] = e]
  /\ inbox' = [inbox EXCEPT ![m] = i]
  /\ lost' = IF in /\ w.pc # "idle" THEN lost + 1 ELSE lost
  /\ UNCHANGED <<cat, esc, refused>>
  /\ WorkerOK(w) /\ w.pc \in {"idle", "failover"}
  /\ EntryStep(ent[m], f) /\ f.st = ent[m].st
  /\ IF in THEN inbox[m] = NoReq /\ RequestOK(i) ELSE i = inbox[m] /\ f = ent[m]
  /\ EntryStep(ent[n], e)
  /\ w.pc = "idle" => e.acc = NoReq
  /\ e.st \in TerminalStatus => ent[n].st \in TerminalStatus \/ n = Coord
  /\ w.pc # "idle" /\ n = Coord => e.st \in TerminalStatus
  /\ w.pc = "idle" /\ ~ in => ent[m].st \in TerminalStatus \/ ent[m].acc # NoReq

\* Such a call keeps the invariant.
LEMMA RemoteStep ==
  ASSUME PRInv, NEW n \in Nodes, NEW m \in Nodes \ {n}, NEW w, NEW e, NEW f, NEW i,
         NEW in \in BOOLEAN, Holds(n), RemoteCall(n, m, w, e, f, i, in)
  PROVE  PRInv'
<1>0. /\ WorkerOK(w) /\ w.pc \in {"idle", "failover"} /\ EntryStep(ent[m], f)
      /\ EntryStep(ent[n], e) /\ f.st = ent[m].st
      /\ cat' = cat /\ esc' = esc /\ refused' = refused
      /\ lost' = IF in /\ w.pc # "idle" THEN lost + 1 ELSE lost
  BY DEF RemoteCall
<1>1. /\ \A k \in Nodes \ {n} : work'[k] = work[k]
      /\ \A k \in Nodes \ {m, n} : ent'[k] = ent[k]
      /\ \A k \in Nodes \ {m} : inbox'[k] = inbox[k]
      /\ work'[n] = w /\ ent'[n] = e /\ ent'[m] = f /\ inbox'[m] = i
  BY DEF PRInv, PRTyped, RemoteCall
<1>2. /\ in => inbox[m] = NoReq /\ i # NoReq
      /\ ~ in => i = inbox[m] /\ f = ent[m]
      /\ MaybeOK(i) /\ i \in AnyRequests \cup {NoReq}
  <2>1. CASE in
    <3>1. inbox[m] = NoReq /\ RequestOK(i)
      BY <2>1 DEF RemoteCall
    <3> QED BY <2>1, <3>1, RequestIsNot DEF MaybeOK
  <2>2. CASE ~ in
    <3>1. i = inbox[m] /\ f = ent[m]
      BY <2>2 DEF RemoteCall
    <3> QED BY <2>2, <3>1 DEF PRInv, PRTyped, RequestsOK
  <2> QED BY <2>1, <2>2
<1>3. PRTyped'
  <2>1. work' \in [Nodes -> WorkerStates]
    BY <1>0 DEF RemoteCall, PRInv, PRTyped, WorkerOK
  <2>2. ent' \in [Nodes -> EntryOf(AnyRequests)]
    BY <1>0 DEF RemoteCall, PRInv, PRTyped, EntryStep
  <2>3. inbox' \in [Nodes -> AnyRequests \cup {NoReq}]
    BY <1>2 DEF RemoteCall, PRInv, PRTyped
  <2>4. lost' \in Nat /\ cat' \in [Nodes -> {0} \cup DOMAIN Revisions]
    BY <1>0 DEF PRInv, PRTyped
  <2> QED BY <2>1, <2>2, <2>3, <2>4 DEF PRTyped
<1>4. RequestsOK'
  BY <1>0, <1>1, <1>2 DEF PRInv, RequestsOK
<1>5. CopiesOK'
  <2> USE HoldersFinite
  <2>1. lost \in Nat
    BY DEF PRInv, PRTyped
  <2>2. CopiesOK /\ n \in Holders
    BY DEF PRInv, Holders
  <2>3. /\ Cardinality(Inboxes') \in Nat /\ Cardinality(Inboxes) \in Nat
        /\ Cardinality(Inboxes') <= Cardinality(Inboxes) + (IF in THEN 1 ELSE 0)
    <3>1. CASE in
      <4>1. Inboxes' \subseteq Inboxes \cup {m}
        BY <1>1 DEF Inboxes
      <4>2. /\ Cardinality(Inboxes') \in Nat /\ Cardinality(Inboxes) \in Nat
            /\ Cardinality(Inboxes') <= Cardinality(Inboxes) + 1
        BY <4>1, OneMore
      <4> QED BY <3>1, <4>2
    <3>2. CASE ~ in
      <4>1. Inboxes' \subseteq Inboxes
        BY <1>1, <1>2, <3>2 DEF Inboxes
      <4>2. /\ Cardinality(Inboxes') \in Nat /\ Cardinality(Inboxes) \in Nat
            /\ Cardinality(Inboxes') <= Cardinality(Inboxes)
        BY <4>1, NoMore
      <4> QED BY <3>2, <4>2
    <3> QED BY <3>1, <3>2
  <2>4. CASE w.pc = "idle"
    <3>1. Holders' \subseteq Holders \ {n}
      BY <1>1, <2>4 DEF Holders, Holds
    <3>2. /\ Cardinality(Holders') \in Nat /\ Cardinality(Holders) \in Nat
          /\ Cardinality(Holders') + 1 <= Cardinality(Holders)
      BY <2>2, <3>1, OneLess
    <3> QED BY <1>0, <2>1, <2>2, <2>3, <2>4, <3>2 DEF CopiesOK
  <2>5. CASE w.pc # "idle"
    <3>1. Holders' \subseteq Holders
      BY <1>1, <2>2 DEF Holders, Holds
    <3>2. /\ Cardinality(Holders') \in Nat /\ Cardinality(Holders) \in Nat
          /\ Cardinality(Holders') <= Cardinality(Holders)
      BY <3>1, NoMore
    <3> QED BY <1>0, <2>1, <2>2, <2>3, <2>5, <3>2 DEF CopiesOK
  <2> QED BY <2>4, <2>5
<1>6. /\ ent[Coord].st \in TerminalStatus => ent'[Coord].st \in TerminalStatus
      /\ ent[Coord].meta => ent'[Coord].meta
  BY <1>0, <1>1, PipelineRunAssumption DEF EntryStep
<1>7. NodeOK(n) /\ NodeOK(m) /\ work[n].pc \notin TerminalStatus
  BY DEF PRInv, Holds, TerminalStatus
<1>8. ASSUME NEW k \in Nodes PROVE NodeOK(k)'
  <2>1. CASE k = n
    <3>1. /\ w.pc = "idle" => e.acc = NoReq
          /\ e.st \in TerminalStatus => ent[n].st \in TerminalStatus \/ n = Coord
      BY DEF RemoteCall
    <3>2. w.pc \notin TerminalStatus /\ (w.pc # "idle" => Holds(n)')
      BY <1>0, <1>1 DEF TerminalStatus, Holds
    <3> QED BY <1>0, <1>1, <1>6, <1>7, <2>1, <3>1, <3>2 DEF NodeOK, EntryStep
  <2>2. CASE k = m
    <3>1. work'[m] = work[m] /\ (Holds(m)' <=> Holds(m))
      BY <1>1 DEF Holds
    <3> QED BY <1>0, <1>1, <1>2, <1>6, <1>7, <2>2, <3>1 DEF NodeOK, EntryStep
  <2>3. CASE k \notin {m, n}
    <3>1. NodeOK(k)
      BY DEF PRInv
    <3> QED BY <1>0, <1>1, <1>6, <2>3, <3>1 DEF NodeOK, Holds
  <2> QED BY <2>1, <2>2, <2>3
<1>9. Quiet'
  <2>1. ent[Coord].meta
    BY NodeFacts DEF Holds
  <2> QED BY <1>6, <2>1 DEF Quiet
<1>10. Waited'
  <2>1. CASE in \/ w.pc # "idle"
    BY <1>0, <1>1, <1>2, <2>1 DEF Waited, Somewhere
  <2>2. CASE ~ in /\ w.pc = "idle"
    <3>1. ent[m].st \in TerminalStatus \/ ent[m].acc # NoReq
      BY <2>2 DEF RemoteCall
    <3>2. CASE ent[m].st \notin TerminalStatus
      <4>1. work[m].pc # "idle" \/ inbox[m] # NoReq
        BY <1>7, <3>1, <3>2 DEF NodeOK, Holds
      <4> QED BY <1>1, <1>2, <2>2, <4>1 DEF Waited, Somewhere
    <3>3. CASE ent[m].st \in TerminalStatus
      <4>1. work[m].pc # "idle" \/ refused # {} \/ ent[Coord].st \in TerminalStatus
        BY <1>7, <3>3 DEF NodeOK, TerminalStatus
      <4> QED BY <1>0, <1>1, <1>6, <4>1 DEF Waited, Somewhere, TerminalStatus
    <3> QED BY <3>2, <3>3
  <2> QED BY <2>1, <2>2
<1> QED BY <1>3, <1>4, <1>5, <1>8, <1>9, <1>10 DEF PRInv

\* The targets that RegisterOutgoingTask is given are nodes or empty.
LEMMA TargetsAreNodes ==
  ASSUME PRTyped, NEW n \in Nodes, NEW r, RequestOK(r)
  PROVE  Targets(n, r) \in SUBSET (Nodes \cup {NoNode})
<1>1. r.sel \in [IDs -> MaybeNode] /\ r.sch \in DOMAIN Revisions
  BY DEF RequestOK, AnyRequests
<1>2. PICK j \in DOMAIN Revisions : SchemaAt(n, r) = Revisions[j]
  BY <1>1 DEF SchemaAt, Live, Snapshot, PRTyped
<1>3. \A k \in DOMAIN Revisions[j].steps : Revisions[j].steps[k].tgt \in MaybeNode
  <2> SUFFICES ASSUME NEW k \in DOMAIN Revisions[j].steps
               PROVE  Revisions[j].steps[k].tgt \in MaybeNode
    OBVIOUS
  <2>1. Revisions[j].steps[k] \in RevisionSteps
    BY DEF RevisionSteps
  <2> QED BY <2>1, StepFacts
<1>4. \A id \in IDs : r.sel[id] \in MaybeNode
  BY <1>1
<1>5. ASSUME NEW t \in Targets(n, r) PROVE t \in MaybeNode
  <2> DEFINE A == {r.sel[id] : id \in IDs}
             K == {k \in DOMAIN SchemaAt(n, r).steps : r.sel[SchemaAt(n, r).steps[k].id] = NoNode}
             B == {SchemaAt(n, r).steps[i].tgt : i \in K}
  <2>1. t \in A \/ t \in B
    BY DEF Targets
  <2>2. CASE t \in A
    BY <1>4, <2>2
  <2>3. CASE t \in B
    BY <1>2, <1>3, <2>3
  <2> QED BY <2>1, <2>2, <2>3
<1> QED BY <1>5 DEF MaybeNode

\* The request on the wire is as far as the one it was made from.
LEMMA SentKeeps ==
  ASSUME NEW n \in Nodes, NEW m \in Nodes, NEW q, RequestOK(q), NEW p \in Prepared(n, q)
  PROVE  RequestOK(Sent(n, m, p))
<1>1. RequestOK(p)
  <2>1. CASE n # Coord
    BY <2>1 DEF Prepared
  <2>2. CASE n = Coord
    <3>1. PICK x \in Selections(n, SchemaAt(n, q), 1, q.sel) : p = [q EXCEPT !.sel = x]
      BY <2>2 DEF Prepared
    <3>2. x \in [IDs -> MaybeNode]
      BY <3>1 DEF Selections
    <3> QED BY <3>1, <3>2, SelectionKeeps
  <2> QED BY <2>1, <2>2
<1> DEFINE id == SchemaAt(n, p).steps[p.step + 1].id
           a  == [p EXCEPT !.exp = NoNode]
<1>2. m \in MaybeNode /\ NoNode \in MaybeNode
  BY DEF MaybeNode
<1>3. RequestOK(a)
  BY <1>1, <1>2, ProducerKeeps
<1> HIDE DEF id
<1>4. [p EXCEPT !.exp = NoNode, !.sel[id] = m] = [a EXCEPT !.sel[id] = m]
  BY <1>1 DEF RequestOK, AnyRequests
<1> HIDE DEF a
<1>5. RequestOK([a EXCEPT !.sel[id] = m])
  BY <1>2, <1>3, TargetKeeps
<1> QED BY <1>4, <1>5 DEF Sent, id

\* The call of DispatchTask for given choices.
Called(n, q, p, arrives, ok) ==
  LET m  == work[n].tgt
      r  == Sent(n, m, p)
      e  == IF n = Coord
            THEN RegisterOutgoingTask(Migrated(n, work[n].req, q), m, Targets(n, r))
            ELSE Migrated(n, work[n].req, q)
      in == arrives /\ Admits(m, n, r) /\ Queued(m, r)
  IN /\ Bindable(q) /\ TargetBinds(n, m, q)
     /\ p.sel[SchemaAt(n, q).steps[1].id] # NoNode \/ n # Coord
     /\ ok => arrives /\ Admits(m, n, r)
     /\ lost' = IF in /\ ~ok THEN lost + 1 ELSE lost
     /\ lost' <= MaxLost
     /\ inbox' = [inbox EXCEPT ![m] = IF in THEN r ELSE @]
     /\ work' = IF ok THEN [work EXCEPT ![n] = IdleWorker]
                ELSE [work EXCEPT ![n].pc = "failover", ![n].req = q]
     /\ ent' = [ent EXCEPT
                  ![m].acc = IF in THEN r ELSE @,
                  ![n] = IF ok THEN [e EXCEPT !.acc = NoReq]
                         ELSE IF n = Coord THEN SetTaskStatus(e, "failed", FALSE) ELSE e]

\* The call of DispatchTask.
LEMMA DispatchRemoteInv == ASSUME PRInv, NEW n \in Nodes, DispatchRemote(n) PROVE PRInv'
<1> DEFINE v == work[n]
           m == work[n].tgt
<1>1. v.pc = "dispatch" /\ m # n /\ UNCHANGED <<cat, esc, refused>>
  BY DEF DispatchRemote
<1>2. /\ WorkerOK(v) /\ v \in WorkerStates /\ RequestOK(v.req) /\ Holds(n)
      /\ m \in MaybeNode /\ m \in Nodes /\ v.tried \in SUBSET Nodes
  BY <1>1, WorkerFacts
<1>3. PICK q \in Migrate(n, v.req) : \E p \in Prepared(n, q), arrives, ok \in BOOLEAN :
        Called(n, q, p, arrives, ok)
  BY DEF DispatchRemote, Called
<1>4. PICK p \in Prepared(n, q), arrives \in BOOLEAN, ok \in BOOLEAN :
        Called(n, q, p, arrives, ok)
  BY <1>3
<1> DEFINE r  == Sent(n, m, p)
           c  == Migrated(n, v.req, q)
           e  == IF n = Coord THEN RegisterOutgoingTask(c, m, Targets(n, r)) ELSE c
           in == arrives /\ Admits(m, n, r) /\ Queued(m, r)
           E  == IF ok THEN [e EXCEPT !.acc = NoReq]
                 ELSE IF n = Coord THEN SetTaskStatus(e, "failed", FALSE) ELSE e
           f  == [ent[m] EXCEPT !.acc = IF in THEN r ELSE @]
           i  == IF in THEN r ELSE inbox[m]
           w  == IF ok THEN IdleWorker ELSE MoveTo(v, "failover", q, m, v.tried)
<1>5. RequestOK(q)
  BY <1>2, MigrateKeeps DEF PRInv
<1>6. RequestOK(r) /\ r \in AnyRequests
  BY <1>2, <1>5, SentKeeps, RequestIsNot
<1>7. EntryStep(ent[n], c) /\ c.st = ent[n].st
  BY <1>2, MigratedStep
<1>8. Targets(n, r) \in SUBSET (Nodes \cup {NoNode})
  BY <1>6, TargetsAreNodes DEF PRInv
<1>9. work \in [Nodes -> WorkerStates] /\ ent \in [Nodes -> EntryOf(AnyRequests)]
      /\ inbox \in [Nodes -> AnyRequests \cup {NoReq}]
  BY DEF PRInv, PRTyped
<1>10. /\ work' = [work EXCEPT ![n] = w]
       /\ lost' = IF in /\ ~ok THEN lost + 1 ELSE lost
       /\ inbox' = [inbox EXCEPT ![m] = i]
       /\ ok => arrives /\ Admits(m, n, r)
       /\ ent' = [ent EXCEPT ![m].acc = IF in THEN r ELSE @, ![n] = E]
  <2>1. /\ work' = IF ok THEN [work EXCEPT ![n] = IdleWorker]
                   ELSE [work EXCEPT ![n].pc = "failover", ![n].req = q]
        /\ lost' = IF in /\ ~ok THEN lost + 1 ELSE lost
        /\ inbox' = [inbox EXCEPT ![m] = IF in THEN r ELSE @]
        /\ ok => arrives /\ Admits(m, n, r)
        /\ ent' = [ent EXCEPT ![m].acc = IF in THEN r ELSE @, ![n] = E]
    BY <1>4 DEF Called
  <2>2. work' = [work EXCEPT ![n] = w]
    <3>1. CASE ok
      BY <2>1, <3>1
    <3>2. CASE ~ ok
      <4>1. work' = [work EXCEPT ![n] = [v EXCEPT !.pc = "failover", !.req = q]]
        BY <1>9, <2>1, <3>2
      <4>2. [v EXCEPT !.pc = "failover", !.req = q] = MoveTo(v, "failover", q, m, v.tried)
        BY <1>2 DEF WorkerStates, MoveTo
      <4> QED BY <3>2, <4>1, <4>2
    <3> QED BY <3>1, <3>2
  <2> HIDE DEF in, r, w, E
  <2>3. inbox' = [inbox EXCEPT ![m] = i]
    BY <1>2, <1>9, <2>1
  <2> QED BY <2>1, <2>2, <2>3
<1>11. ent' = [ent EXCEPT ![m] = f, ![n] = E]
  <2> HIDE DEF in, r, E
  <2> QED BY <1>1, <1>2, <1>9, <1>10
<1>12. WorkerOK(w) /\ w.pc = IF ok THEN "idle" ELSE "failover"
  <2>1. MoveOK(v, "failover", q, m, v.tried)
    BY <1>1, <1>2, <1>5 DEF MoveOK
  <2>2. /\ WorkerOK(MoveTo(v, "failover", q, m, v.tried))
        /\ MoveTo(v, "failover", q, m, v.tried).pc = "failover"
    BY <2>1, MovedWorker
  <2> QED BY <2>2, IdleOK
<1>13. /\ EntryStep(ent[n], e)
       /\ e.st # ent[n].st => n = Coord
       /\ e.st \in TerminalStatus => ent[n].st \in TerminalStatus
  <2>1. CASE n # Coord
    BY <1>7, <2>1
  <2>2. CASE n = Coord
    <3> DEFINE g == RegisterOutgoingTask(c, m, Targets(n, r))
    <3> HIDE DEF c, r
    <3>1. c \in EntryOf(AnyRequests) /\ ~ c.ret /\ c.st # "ingesting"
      BY <1>7 DEF EntryStep
    <3>2. m \in Nodes \cup {NoNode}
      BY <1>2
    <3>3. /\ g \in EntryOf(AnyRequests) /\ g.ret = c.ret /\ g.acc = c.acc /\ g.meta
          /\ g.st = IF c.st # "none" THEN c.st ELSE "pending"
      BY <1>8, <3>1, <3>2, RegisterEntry
    <3>4. e = g
      BY <2>2
    <3> HIDE DEF g, e
    <3>5. EntryStep(ent[n], g)
      BY <1>7, <3>1, <3>3 DEF EntryStep, TerminalStatus
    <3>6. g.st \in TerminalStatus => ent[n].st \in TerminalStatus
      BY <1>7, <3>3 DEF TerminalStatus
    <3> QED BY <2>2, <3>4, <3>5, <3>6
  <2> QED BY <2>1, <2>2
<1> HIDE DEF c, e, r, w
<1>14. /\ EntryStep(ent[n], E)
       /\ ok => E.acc = NoReq
       /\ E.st \in TerminalStatus => ent[n].st \in TerminalStatus \/ n = Coord
       /\ ~ok /\ n = Coord => E.st \in TerminalStatus
  <2>0. e \in EntryOf(AnyRequests) /\ ~ e.ret /\ e.st # "ingesting"
    BY <1>13 DEF EntryStep
  <2>1. CASE ok
    <3> DEFINE g == [e EXCEPT !.acc = NoReq]
    <3>1. /\ g \in EntryOf(AnyRequests) /\ g.st = e.st /\ g.acc = NoReq /\ g.ret = e.ret
          /\ g.meta = e.meta
      BY <2>0 DEF EntryOf
    <3>2. E = g
      BY <2>1
    <3> HIDE DEF g, E
    <3> QED BY <1>13, <2>0, <2>1, <3>1, <3>2 DEF EntryStep
  <2>2. CASE ~ ok /\ n = Coord
    <3> DEFINE g == SetTaskStatus(e, "failed", FALSE)
    <3>1. "failed" \in TerminalStatus
      BY DEF TerminalStatus
    <3>2. EntryStep(e, g) /\ g.st \in TerminalStatus
      BY <2>0, <3>1, StatusStep
    <3>3. E = g
      BY <2>2
    <3> HIDE DEF g, E
    <3>4. EntryStep(ent[n], g)
      BY <1>13, <3>2 DEF EntryStep
    <3> QED BY <2>2, <3>2, <3>3, <3>4
  <2>3. CASE ~ ok /\ n # Coord
    <3>1. E = e
      BY <2>3
    <3> QED BY <1>13, <2>3, <3>1
  <2> QED BY <2>1, <2>2, <2>3
<1>15. ent[m] \in EntryOf(AnyRequests) /\ ~ ent[m].ret /\ ent[m].st # "ingesting"
  BY <1>2, NodeFacts
<1>16. EntryStep(ent[m], f) /\ f.st = ent[m].st /\ (~ in => f = ent[m])
  <2> HIDE DEF in
  <2>1. CASE in
    <3>1. /\ f \in EntryOf(AnyRequests) /\ f.st = ent[m].st /\ f.ret = ent[m].ret
          /\ f.meta = ent[m].meta
      BY <1>6, <1>15, <2>1 DEF EntryOf
    <3> HIDE DEF f
    <3> QED BY <1>15, <2>1, <3>1 DEF EntryStep
  <2>2. CASE ~ in
    <3>1. f = ent[m]
      BY <1>15, <2>2 DEF EntryOf
    <3> HIDE DEF f
    <3> QED BY <1>15, <3>1 DEF EntryStep
  <2> QED BY <2>1, <2>2
<1>17. /\ in => inbox[m] = NoReq
       /\ ok /\ ~ in => ent[m].st \in TerminalStatus \/ ent[m].acc # NoReq
  <2> DEFINE full == inbox[m] # NoReq
             out  == SubmitOutcome(ent[m], r, FALSE, full)
  <2>1. full \in BOOLEAN
    OBVIOUS
  <2>2. /\ in => out = "queued"
        /\ ok /\ ~ in => SubmitOK(out) /\ out # "queued"
    BY <1>10 DEF Admits, Queued
  <2>3. /\ out = "queued" => ~ full /\ ent[m].st \notin TerminalStatus
        /\ SubmitOK(out) /\ out # "queued" => ent[m].st \in TerminalStatus \/ ent[m].acc # NoReq
    <3> HIDE DEF full
    <3> QED BY <1>15, <2>1, SubmitFacts
  <2> QED BY <2>2, <2>3
<1>18. in \in BOOLEAN
  BY DEF Admits
<1> HIDE DEF in, E, f
<1>19. RemoteCall(n, m, w, E, f, i, in)
  <2>1. IF in THEN inbox[m] = NoReq /\ RequestOK(i) ELSE i = inbox[m] /\ f = ent[m]
    BY <1>6, <1>16, <1>17
  <2>2. lost' = IF in /\ w.pc # "idle" THEN lost + 1 ELSE lost
    BY <1>10, <1>12
  <2>3. w.pc \in {"idle", "failover"} /\ (w.pc = "idle" <=> ok)
    BY <1>12
  <2> HIDE DEF i
  <2> QED BY <1>1, <1>10, <1>11, <1>12, <1>14, <1>16, <1>17, <2>1, <2>2, <2>3 DEF RemoteCall
<1>20. m \in Nodes \ {n}
  BY <1>1, <1>2
<1> HIDE DEF i, m
<1> QED BY <1>2, <1>18, <1>19, <1>20, RemoteStep

\* The task goes to the escrow of the requester: the sender is done with it, or takes the
\* call for failed and reports that.
EscrowCall(n, w, e, c) ==
  /\ work' = [work EXCEPT ![n] = w]
  /\ ent' = [ent EXCEPT ![Coord] = c, ![n] = e]
  /\ esc' = work[n].req
  /\ lost' \in {lost, lost + 1}
  /\ UNCHANGED <<inbox, cat, refused>>
  /\ WorkerOK(w) /\ w.pc \in {"idle", "failed"}
  /\ n = Coord => c = e
  /\ EntryStep(ent[n], e) /\ EntryStep(ent[Coord], c)
  /\ n # Coord => c.acc = ent[Coord].acc
  /\ c.st \in TerminalStatus => ent[Coord].st \in TerminalStatus
  /\ w.pc = "idle" => e.acc = NoReq /\ (e.st \in TerminalStatus => ent[n].st \in TerminalStatus)
  /\ w.pc = "failed" => e.st \in TerminalStatus

\* Such a call keeps the invariant.
LEMMA EscrowStep ==
  ASSUME PRInv, NEW n \in Nodes, NEW w, NEW e, NEW c, work[n].pc = "escalate",
         EscrowCall(n, w, e, c)
  PROVE  PRInv'
<1>0. /\ WorkerOK(w) /\ w.pc \in {"idle", "failed"} /\ EntryStep(ent[n], e)
      /\ EntryStep(ent[Coord], c) /\ lost' \in {lost, lost + 1} /\ esc' = work[n].req
      /\ inbox' = inbox /\ cat' = cat /\ refused' = refused /\ (n = Coord => c = e)
      /\ n # Coord => c.acc = ent[Coord].acc
      /\ c.st \in TerminalStatus => ent[Coord].st \in TerminalStatus
      /\ w.pc = "idle" => e.acc = NoReq /\ (e.st \in TerminalStatus => ent[n].st \in TerminalStatus)
      /\ w.pc = "failed" => e.st \in TerminalStatus
  BY DEF EscrowCall
<1>1. /\ \A k \in Nodes \ {n} : work'[k] = work[k]
      /\ \A k \in Nodes \ {n, Coord} : ent'[k] = ent[k]
      /\ work'[n] = w /\ ent'[n] = e /\ ent'[Coord] = c /\ Coord \in Nodes
  BY <1>0, PipelineRunAssumption DEF PRInv, PRTyped, EscrowCall
<1>2. RequestOK(esc') /\ esc' # NoReq /\ Holds(n)
  BY <1>0, NodeFacts, RequestIsNot DEF Holds
<1>3. PRTyped'
  <2>1. work' \in [Nodes -> WorkerStates]
    BY <1>0 DEF EscrowCall, PRInv, PRTyped, WorkerOK
  <2>2. ent' \in [Nodes -> EntryOf(AnyRequests)]
    BY <1>0 DEF EscrowCall, PRInv, PRTyped, EntryStep
  <2>3. lost' \in Nat
    BY <1>0 DEF PRInv, PRTyped
  <2> QED BY <1>0, <2>1, <2>2, <2>3 DEF PRTyped, PRInv
<1>4. RequestsOK'
  <2>1. \A k \in Nodes : WorkerOK(work'[k]) /\ MaybeOK(inbox'[k])
    BY <1>0, <1>1 DEF PRInv, RequestsOK
  <2>2. MaybeOK(esc')
    BY <1>2 DEF MaybeOK
  <2> QED BY <2>1, <2>2 DEF RequestsOK
<1>5. CopiesOK'
  <2> USE HoldersFinite
  <2>1. lost \in Nat /\ lost' \in Nat /\ lost <= lost' /\ CopiesOK /\ Inboxes' = Inboxes
    BY <1>0 DEF PRInv, PRTyped, Inboxes
  <2>2. Holders' \subseteq Holders \ {n} /\ n \in Holders
    BY <1>0, <1>1, <1>2 DEF Holders, Holds
  <2>3. /\ Cardinality(Holders') \in Nat /\ Cardinality(Holders) \in Nat
        /\ Cardinality(Holders') + 1 <= Cardinality(Holders)
    BY <2>2, OneLess
  <2>4. Cardinality(Inboxes) \in Nat /\ Cardinality(Inboxes') = Cardinality(Inboxes)
    BY <2>1, FS_CardinalityType
  <2>5. (IF esc' = NoReq THEN 0 ELSE 1) = 1 /\ (IF esc = NoReq THEN 0 ELSE 1) \in {0, 1}
    BY <1>2
  <2> QED BY <2>1, <2>3, <2>4, <2>5 DEF CopiesOK
<1>6. /\ ent[Coord].st \in TerminalStatus => ent'[Coord].st \in TerminalStatus
      /\ ent[Coord].meta => ent'[Coord].meta
  BY <1>0, <1>1 DEF EntryStep
<1>7. ASSUME NEW k \in Nodes PROVE NodeOK(k)'
  <2>0. NodeOK(k) /\ "idle" \notin TerminalStatus /\ "escalate" \notin TerminalStatus
    BY DEF PRInv, TerminalStatus
  <2>1. CASE k = n
    <3>1. /\ ~ e.ret /\ e.st # "ingesting"
          /\ ent[n].st \in TerminalStatus => refused # {} \/ ent[Coord].st \in TerminalStatus
      BY <1>0, <2>0, <2>1 DEF EntryStep, NodeOK
    <3>2. w.pc \in TerminalStatus => w.pc = "failed"
      BY <1>0, <2>0
    <3>3. w.pc = "failed" => w.pc \in TerminalStatus
      BY DEF TerminalStatus
    <3> QED BY <1>0, <1>1, <1>6, <2>1, <3>1, <3>2, <3>3 DEF NodeOK
  <2>2. CASE k = Coord /\ k # n
    <3>1. work'[k] = work[k] /\ (Holds(k)' <=> Holds(k)) /\ ent'[k] = c
      BY <1>1, <2>2 DEF Holds
    <3>2. /\ ~ c.ret /\ c.st # "ingesting" /\ c.acc = ent[k].acc
          /\ c.st \in TerminalStatus <=> ent[k].st \in TerminalStatus
      BY <1>0, <2>2 DEF EntryStep
    <3> QED BY <1>0, <2>0, <2>2, <3>1, <3>2 DEF NodeOK
  <2>3. CASE k # Coord /\ k # n
    <3>1. work'[k] = work[k] /\ (Holds(k)' <=> Holds(k)) /\ ent'[k] = ent[k]
      BY <1>1, <2>3 DEF Holds
    <3> QED BY <1>0, <1>6, <2>0, <3>1 DEF NodeOK
  <2> QED BY <2>1, <2>2, <2>3
<1>8. Quiet'
  <2>1. ent[Coord].meta
    BY NodeFacts
  <2> QED BY <1>6, <2>1 DEF Quiet
<1>9. Waited'
  BY <1>2 DEF Waited, Somewhere
<1> QED BY <1>3, <1>4, <1>5, <1>7, <1>8, <1>9 DEF PRInv

\* An entry that gives up its accepted request and takes the status "escrow".
LEMMA EscrowedEntry ==
  ASSUME NEW a \in EntryOf(AnyRequests), ~ a.ret, a.st # "ingesting"
  PROVE  LET b == SetTaskStatus([a EXCEPT !.acc = NoReq], "escrow", FALSE)
             d == SetTaskStatus(a, "escrow", FALSE)
         IN /\ EntryStep(a, b) /\ b.acc = NoReq
            /\ b.st \in TerminalStatus => a.st \in TerminalStatus
            /\ EntryStep(a, d) /\ d.acc = a.acc
            /\ d.st \in TerminalStatus => a.st \in TerminalStatus
<1> DEFINE x == [a EXCEPT !.acc = NoReq]
           b == SetTaskStatus(x, "escrow", FALSE)
           d == SetTaskStatus(a, "escrow", FALSE)
<1>1. x \in EntryOf(AnyRequests) /\ x.st = a.st /\ x.acc = NoReq /\ x.ret = a.ret /\ x.meta = a.meta
  BY DEF EntryOf
<1>2. "escrow" \notin TerminalStatus /\ "escrow" # "ingesting"
  BY DEF TerminalStatus
<1>3. /\ EntryStep(a, d)
      /\ a.st \notin TerminalStatus => d.st = "escrow"
  BY StatusStep
<1>4. d.acc = a.acc
  <2>1. d = a \/ d = Store(a, "escrow")
    BY DEF SetTaskStatus
  <2>2. Store(a, "escrow").acc = a.acc
    BY <1>2 DEF Store, EntryOf
  <2> QED BY <2>1, <2>2
<1> HIDE DEF x
<1>5. /\ EntryStep(x, b)
      /\ b.acc \in {x.acc, NoReq}
      /\ x.st \notin TerminalStatus => b.st = "escrow"
  BY <1>1, StatusStep
<1> HIDE DEF b, d
<1>6. EntryStep(a, b)
  BY <1>1, <1>5 DEF EntryStep
<1>7. /\ EntryStep(a, b) /\ b.acc = NoReq
      /\ b.st \in TerminalStatus => a.st \in TerminalStatus
      /\ EntryStep(a, d) /\ d.acc = a.acc
      /\ d.st \in TerminalStatus => a.st \in TerminalStatus
  BY <1>1, <1>2, <1>3, <1>4, <1>5, <1>6
<1> QED BY <1>7 DEF b, d, x

\* Sending the task to escrow.
LEMMA EscalateInv == ASSUME PRInv, NEW n \in Nodes, Escalate(n) PROVE PRInv'
<1> DEFINE r == work[n].req
           b == SetTaskStatus([ent[n] EXCEPT !.acc = NoReq], "escrow", FALSE)
           g == SetTaskStatus(ent[n], "failed", FALSE)
           c == SetTaskStatus(ent[Coord], "escrow", FALSE)
           x == [IdleWorker EXCEPT !.pc = "failed", !.req = r]
<1>1. /\ work[n].pc = "escalate" /\ UNCHANGED <<cat, inbox, refused>>
  BY DEF Escalate
<1>2. RequestOK(r) /\ Holds(n) /\ Coord \in Nodes
  BY <1>1, NodeFacts, PipelineRunAssumption DEF Holds
<1>3. /\ ent[n] \in EntryOf(AnyRequests) /\ ~ ent[n].ret /\ ent[n].st # "ingesting"
      /\ ent[Coord] \in EntryOf(AnyRequests) /\ ~ ent[Coord].ret /\ ent[Coord].st # "ingesting"
  BY <1>2, NodeFacts
<1>4. ent \in [Nodes -> EntryOf(AnyRequests)] /\ lost \in Nat
  BY DEF PRInv, PRTyped
<1>5. WorkerOK(x) /\ x.pc = "failed" /\ WorkerOK(IdleWorker) /\ IdleWorker.pc = "idle"
  BY <1>2, FailedOK, IdleOK
<1>6. /\ EntryStep(ent[n], b) /\ b.acc = NoReq
      /\ b.st \in TerminalStatus => ent[n].st \in TerminalStatus
  BY <1>3, EscrowedEntry
<1>7. /\ EntryStep(ent[Coord], c) /\ c.acc = ent[Coord].acc
      /\ c.st \in TerminalStatus => ent[Coord].st \in TerminalStatus
  BY <1>3, EscrowedEntry
<1>8. EntryStep(ent[n], g) /\ g.st \in TerminalStatus
  <2>1. "failed" \in TerminalStatus
    BY DEF TerminalStatus
  <2> QED BY <1>3, <2>1, StatusStep
<1>9. CASE /\ n = Coord /\ esc' = r
           /\ ent' = [ent EXCEPT ![n] = SetTaskStatus([@ EXCEPT !.acc = NoReq], "escrow", FALSE)]
           /\ work' = [work EXCEPT ![n] = IdleWorker] /\ UNCHANGED lost
  <2>1. ent' = [ent EXCEPT ![n] = b]
    BY <1>4, <1>9
  <2> HIDE DEF b
  <2>2. ent' = [ent EXCEPT ![Coord] = b, ![n] = b]
    BY <1>2, <1>4, <1>9, <2>1
  <2>3. EntryStep(ent[Coord], b) /\ (b.st \in TerminalStatus => ent[Coord].st \in TerminalStatus)
    BY <1>6, <1>9
  <2>4. EscrowCall(n, IdleWorker, b, b)
    BY <1>1, <1>5, <1>6, <1>9, <2>2, <2>3 DEF EscrowCall
  <2> QED BY <1>1, <2>4, EscrowStep
<1>10. ASSUME NEW ok \in BOOLEAN, n # Coord, esc' = r,
              lost' = IF ok THEN lost ELSE lost + 1,
              work' = [work EXCEPT ![n] = IF ok THEN IdleWorker
                         ELSE [IdleWorker EXCEPT !.pc = "failed", !.req = work[n].req]],
              ent' = [ent EXCEPT
                   ![Coord] = SetTaskStatus(@, "escrow", FALSE),
                   ![n] = IF ok THEN SetTaskStatus([@ EXCEPT !.acc = NoReq], "escrow", FALSE)
                          ELSE SetTaskStatus(@, "failed", FALSE)]
       PROVE  PRInv'
  <2> DEFINE e == IF ok THEN b ELSE g
             w == IF ok THEN IdleWorker ELSE x
  <2>1. work' = [work EXCEPT ![n] = w]
    BY <1>10
  <2>2. ent' = [ent EXCEPT ![Coord] = c, ![n] = e]
    BY <1>2, <1>4, <1>10
  <2> HIDE DEF b, c, g, x
  <2>3. EscrowCall(n, w, e, c)
    <3>1. CASE ok
      BY <1>1, <1>5, <1>6, <1>7, <1>10, <2>1, <2>2, <3>1 DEF EscrowCall
    <3>2. CASE ~ ok
      BY <1>1, <1>5, <1>7, <1>8, <1>10, <2>1, <2>2, <3>2 DEF EscrowCall
    <3> QED BY <3>1, <3>2
  <2> HIDE DEF e, w
  <2> QED BY <1>1, <2>3, EscrowStep
<1>11. CASE Fail(n, r) /\ UNCHANGED <<esc, lost>>
  BY <1>1, <1>2, <1>11, FailInv, Same
<1>12. \/ /\ n = Coord /\ esc' = r
          /\ ent' = [ent EXCEPT ![n] = SetTaskStatus([@ EXCEPT !.acc = NoReq], "escrow", FALSE)]
          /\ work' = [work EXCEPT ![n] = IdleWorker] /\ UNCHANGED lost
       \/ /\ n # Coord /\ esc' = r
          /\ \E ok \in BOOLEAN :
               /\ lost' = IF ok THEN lost ELSE lost + 1
               /\ work' = [work EXCEPT ![n] = IF ok THEN IdleWorker
                             ELSE [IdleWorker EXCEPT !.pc = "failed", !.req = work[n].req]]
               /\ ent' = [ent EXCEPT
                    ![Coord] = SetTaskStatus(@, "escrow", FALSE),
                    ![n] = IF ok THEN SetTaskStatus([@ EXCEPT !.acc = NoReq], "escrow", FALSE)
                           ELSE SetTaskStatus(@, "failed", FALSE)]
       \/ Fail(n, r) /\ UNCHANGED <<esc, lost>>
  BY DEF Escalate
<1> HIDE DEF b, c, g, x
<1> QED BY <1>9, <1>10, <1>11, <1>12

\* The final report reaches the requester's table, or is refused or lost.
LEMMA ReportInv == ASSUME PRInv, NEW n \in Nodes, Report(n) PROVE PRInv'
<1> DEFINE s == work[n].pc
           f == AcceptTaskCallback(ent[Coord], n, s, FALSE)
<1>1. /\ s \in TerminalStatus /\ work' = [work EXCEPT ![n] = IdleWorker]
      /\ cat' = cat /\ inbox' = inbox /\ esc' = esc /\ lost' = lost
  BY DEF Report
<1>2. /\ Coord \in Nodes /\ ent \in [Nodes -> EntryOf(AnyRequests)]
      /\ ent[Coord] \in EntryOf(AnyRequests) /\ ~ ent[Coord].ret /\ ent[Coord].st # "ingesting"
      /\ NodeOK(n) /\ ent[Coord].meta
  <2>1. "idle" \notin TerminalStatus
    BY DEF TerminalStatus
  <2> QED BY <1>1, <2>1, PipelineRunAssumption, NodeFacts DEF PRInv, PRTyped
<1>3. /\ f \in EntryOf(AnyRequests) /\ f.ret = ent[Coord].ret /\ (ent[Coord].meta => f.meta)
      /\ Ended(ent[Coord]) => Ended(f)
      /\ ent[Coord].st \in TerminalStatus => f.st = ent[Coord].st
      /\ f.acc \in {ent[Coord].acc, NoReq}
      /\ f.acc # ent[Coord].acc => f.st \in TerminalStatus
      /\ ~ AcceptsCallback(ent[Coord], n) => f = ent[Coord]
      /\ AcceptsCallback(ent[Coord], n) /\ ent[Coord].st # "ingesting" => f.st \in TerminalStatus
      /\ f.st # ent[Coord].st => f.st \in TerminalStatus
  BY <1>1, <1>2, CallbackEntry
<1>4. PICK c : /\ ent' = [ent EXCEPT ![Coord] = c] /\ EntryStep(ent[Coord], c)
               /\ c.acc \in {ent[Coord].acc, NoReq}
               /\ c.st # ent[Coord].st => c.st \in TerminalStatus
               /\ c.st \in TerminalStatus \/ refused' # {}
               /\ refused # {} => refused' # {}
  <2> HIDE DEF f
  <2>0. "ingesting" \notin TerminalStatus
    BY DEF TerminalStatus
  <2>1. CASE /\ n = Coord \/ AcceptsCallback(ent[Coord], n)
             /\ ent' = [ent EXCEPT ![Coord] = f] /\ UNCHANGED refused
    <3>1. f.st \in TerminalStatus
      <4>1. CASE AcceptsCallback(ent[Coord], n)
        BY <1>2, <1>3, <4>1
      <4>2. CASE n = Coord
        BY <1>1, <1>2, <1>3, <4>2 DEF NodeOK
      <4> QED BY <2>1, <4>1, <4>2
    <3>2. EntryStep(ent[Coord], f)
      BY <1>2, <1>3, <2>0, <3>1 DEF EntryStep
    <3> QED BY <1>3, <2>1, <3>1, <3>2
  <2>2. CASE UNCHANGED ent /\ refused' # {}
    <3>1. ent' = [ent EXCEPT ![Coord] = ent[Coord]]
      BY <1>2, <2>2
    <3> QED BY <1>2, <2>2, <3>1, Same
  <2>3. \/ /\ n = Coord \/ AcceptsCallback(ent[Coord], n)
           /\ ent' = [ent EXCEPT ![Coord] = AcceptTaskCallback(@, n, s, FALSE)]
           /\ UNCHANGED refused
        \/ UNCHANGED ent /\ refused' # {}
    BY DEF Report
  <2>4. [ent EXCEPT ![Coord] = AcceptTaskCallback(@, n, s, FALSE)] = [ent EXCEPT ![Coord] = f]
    BY <1>2 DEF f
  <2> QED BY <2>1, <2>2, <2>3, <2>4
<1> HIDE DEF f
<1>5. /\ \A k \in Nodes \ {n} : work'[k] = work[k]
      /\ \A k \in Nodes \ {Coord} : ent'[k] = ent[k]
      /\ work'[n] = IdleWorker /\ ent'[Coord] = c
  BY <1>1, <1>2, <1>4 DEF PRInv, PRTyped
<1>6. PRTyped'
  BY <1>1, <1>2, <1>4, IdleOK DEF PRInv, PRTyped, EntryStep
<1>7. RequestsOK'
  BY <1>1, <1>5, IdleOK DEF PRInv, RequestsOK
<1>8. \A k \in Nodes : Holds(k)' <=> Holds(k)
  BY <1>1, <1>5, IdleOK DEF Holds, TerminalStatus
<1>9. CopiesOK'
  <2>1. Holders' = Holders /\ Inboxes' = Inboxes
    BY <1>1, <1>8 DEF Holders, Inboxes
  <2> QED BY <1>1, <2>1 DEF PRInv, CopiesOK
<1>10. ent[Coord].st \in TerminalStatus => ent'[Coord].st \in TerminalStatus
  BY <1>4, <1>5 DEF EntryStep
<1>11. ASSUME NEW k \in Nodes PROVE NodeOK(k)'
  <2>0. NodeOK(k) /\ IdleWorker.pc \notin TerminalStatus
    BY IdleOK DEF PRInv, TerminalStatus
  <2>1. CASE k = Coord
    <3>1. work[k].pc \in TerminalStatus => c.st \in TerminalStatus
      BY <1>4, <2>0, <2>1 DEF NodeOK, EntryStep
    <3>2. ~ c.ret /\ c.st # "ingesting"
      BY <1>4 DEF EntryStep
    <3>3. c.acc # NoReq /\ c.st \notin TerminalStatus => Holds(k) \/ inbox[k] # NoReq
      BY <1>4, <2>0, <2>1 DEF NodeOK
    <3>4. work'[k].pc \in TerminalStatus => work[k].pc \in TerminalStatus
      BY <1>5, <2>0
    <3> QED BY <1>1, <1>5, <1>8, <2>1, <3>1, <3>2, <3>3, <3>4 DEF NodeOK
  <2>2. CASE k # Coord
    <3>1. ent'[k] = ent[k]
      BY <1>5, <2>2
    <3>2. work'[k].pc \in TerminalStatus => work[k].pc \in TerminalStatus
      BY <1>5, <2>0
    <3>3. ent[k].st \in TerminalStatus =>
            \/ work'[k].pc \in TerminalStatus \/ refused' # {} \/ ent'[Coord].st \in TerminalStatus
      <4>1. CASE k = n
        BY <1>4, <1>5, <4>1
      <4>2. CASE k # n
        BY <1>4, <1>5, <1>10, <2>0, <4>2 DEF NodeOK
      <4> QED BY <4>1, <4>2
    <3> QED BY <1>1, <1>8, <2>0, <3>1, <3>2, <3>3 DEF NodeOK
  <2> QED BY <2>1, <2>2
<1>12. Quiet'
  BY <1>2, <1>4, <1>5 DEF Quiet, EntryStep
<1>13. Waited'
  BY <1>4, <1>5 DEF Waited, Somewhere, TerminalStatus
<1> QED BY <1>6, <1>7, <1>9, <1>11, <1>12, <1>13 DEF PRInv

\* Installing a revision concerns no task.
LEMMA ApplyRevisionInv == ASSUME PRInv, NEW n \in Nodes, ApplyRevision(n) PROVE PRInv'
<1>1. PICK i \in DOMAIN Revisions : cat' = [cat EXCEPT ![n] = i]
  BY DEF ApplyRevision
<1>2. /\ ent' = ent /\ inbox' = inbox /\ work' = work /\ esc' = esc /\ lost' = lost
      /\ refused' = refused
  BY DEF ApplyRevision
<1>3. PRTyped'
  BY <1>1, <1>2 DEF PRInv, PRTyped
<1>4. RequestsOK' /\ Quiet' /\ Waited' /\ \A k \in Nodes : NodeOK(k)' /\ (Holds(k)' <=> Holds(k))
  BY <1>2 DEF PRInv, RequestsOK, Quiet, Waited, Somewhere, NodeOK, Holds
<1>5. Holders' = Holders /\ Inboxes' = Inboxes
  BY <1>2, <1>4 DEF Holders, Inboxes
<1>6. CopiesOK'
  BY <1>2, <1>5 DEF PRInv, CopiesOK
<1> QED BY <1>3, <1>4, <1>6 DEF PRInv

\* The requester registers the task and puts its only copy in its own queue.
LEMMA StartTaskInv == ASSUME PRInv, StartTask PROVE PRInv'
<1> DEFINE none == [id \in IDs |-> NoNode]
           req(x) == [step |-> 0, sch |-> cat[Coord], prod |-> none, sel |-> x, exp |-> Coord]
<1>1. PICK x \in Selections(Coord, Revisions[cat[Coord]], 1, none) :
        /\ inbox' = [inbox EXCEPT ![Coord] = req(x)]
        /\ ent' = [ent EXCEPT ![Coord] =
                     [RegisterOutgoingTask(@, Coord, Targets(Coord, req(x))) EXCEPT !.acc = req(x)]]
  BY DEF StartTask
<1>2. /\ ent[Coord] = NoTaskEntry /\ Live(Coord)
      /\ cat' = cat /\ work' = work /\ esc' = esc /\ lost' = lost /\ refused' = refused
  BY DEF StartTask
<1>3. /\ Coord \in Nodes /\ NoNode \in MaybeNode /\ Coord \in MaybeNode
      /\ ent \in [Nodes -> EntryOf(AnyRequests)] /\ lost \in Nat
      /\ ent[Coord] \in EntryOf(AnyRequests) /\ ~ ent[Coord].ret
      /\ ent[Coord].st = "none" /\ ~ ent[Coord].meta
      /\ inbox \in [Nodes -> AnyRequests \cup {NoReq}]
  <2>1. Coord \in Nodes /\ NoNode \in MaybeNode /\ Coord \in MaybeNode
    BY PipelineRunAssumption DEF MaybeNode
  <2>2. /\ ent \in [Nodes -> EntryOf(AnyRequests)] /\ lost \in Nat
        /\ inbox \in [Nodes -> AnyRequests \cup {NoReq}]
    BY DEF PRInv, PRTyped
  <2>3. ~ NoTaskEntry.ret /\ NoTaskEntry.st = "none" /\ ~ NoTaskEntry.meta
    BY DEF NoTaskEntry
  <2> QED BY <1>2, <2>1, <2>2, <2>3
<1>4. cat[Coord] \in DOMAIN Revisions /\ x \in [IDs -> MaybeNode]
  BY <1>1, <1>2, <1>3 DEF Live, Selections, PRInv, PRTyped
<1> DEFINE r == req(x)
           f == RegisterOutgoingTask(ent[Coord], Coord, Targets(Coord, r))
           e == [f EXCEPT !.acc = r]
<1>5. r \in AnyRequests /\ r.step = 0 /\ r.sel = x /\ r.sch = cat[Coord]
  BY <1>3, <1>4 DEF AnyRequests
<1> HIDE DEF r, req
<1>6. RequestOK(r)
  <2>1. Len(Snapshot(r).steps) \in Nat
    BY <1>4, <1>5, RevisionFacts DEF Snapshot
  <2> QED BY <1>5, <2>1 DEF RequestOK
<1>7. Targets(Coord, r) \in SUBSET MaybeNode
  <2>1. SchemaAt(Coord, r) = Revisions[cat[Coord]]
    BY <1>2 DEF SchemaAt
  <2>2. \A k \in DOMAIN Revisions[cat[Coord]].steps :
          Revisions[cat[Coord]].steps[k].tgt \in MaybeNode
    BY <1>4, RevisionFacts DEF StepRecords, MaybeNode
  <2> QED BY <1>4, <1>5, <2>1, <2>2 DEF Targets
<1>8. f \in EntryOf(AnyRequests) /\ ~ f.ret /\ f.meta /\ f.st = "pending"
  BY <1>3, <1>7, RegisterEntry DEF MaybeNode
<1>9. ent' = [ent EXCEPT ![Coord] = e] /\ inbox' = [inbox EXCEPT ![Coord] = r]
  BY <1>1, <1>3 DEF r
<1> HIDE DEF f
<1>10. e \in EntryOf(AnyRequests) /\ ~ e.ret /\ e.meta /\ e.st = "pending"
  BY <1>5, <1>8 DEF EntryOf
<1> HIDE DEF e
<1>11. /\ ent'[Coord] = e /\ inbox'[Coord] = r /\ r # NoReq
       /\ \A k \in Nodes \ {Coord} : ent'[k] = ent[k] /\ inbox'[k] = inbox[k]
  BY <1>3, <1>6, <1>9, RequestIsNot
<1>12. esc = NoReq /\ \A k \in Nodes : work[k].pc = "idle" /\ inbox[k] = NoReq
  BY <1>3 DEF PRInv, Quiet
<1>13. PRTyped'
  BY <1>2, <1>3, <1>5, <1>9, <1>10 DEF PRInv, PRTyped
<1>14. RequestsOK'
  BY <1>2, <1>6, <1>11 DEF PRInv, RequestsOK, MaybeOK
<1>15. CopiesOK'
  <2>1. \A k \in Nodes : ~ Holds(k)' /\ (inbox'[k] # NoReq <=> k = Coord)
    BY <1>2, <1>11, <1>12 DEF Holds
  <2>2. Holders' = {} /\ Inboxes' = {Coord}
    BY <1>3, <2>1 DEF Holders, Inboxes
  <2>3. Cardinality({}) = 0 /\ Cardinality({Coord}) = 1
    BY FS_EmptySet, FS_Singleton
  <2> QED BY <1>2, <1>3, <1>12, <2>2, <2>3 DEF CopiesOK
<1>16. "pending" \notin TerminalStatus /\ "idle" \notin TerminalStatus
  BY DEF TerminalStatus
<1>17. ASSUME NEW k \in Nodes PROVE NodeOK(k)'
  <2>1. CASE k = Coord
    BY <1>2, <1>10, <1>11, <1>12, <1>16, <2>1 DEF NodeOK
  <2>2. CASE k # Coord
    <3>1. NodeOK(k) /\ "none" \notin TerminalStatus
      BY DEF PRInv, TerminalStatus
    <3>2. ent[k].st \notin TerminalStatus \/ refused # {}
      BY <1>3, <1>12, <1>16, <3>1 DEF NodeOK
    <3>3. ent[k].acc # NoReq => ent[k].st \in TerminalStatus
      BY <1>12, <3>1 DEF NodeOK, Holds
    <3> QED BY <1>2, <1>11, <1>12, <1>16, <2>2, <3>1, <3>2, <3>3 DEF NodeOK
  <2> QED BY <2>1, <2>2
<1>18. Quiet' /\ Waited'
  BY <1>3, <1>10, <1>11 DEF Quiet, Waited, Somewhere
<1> QED BY <1>13, <1>14, <1>15, <1>17, <1>18 DEF PRInv

\* Every step keeps the invariant.
LEMMA PRNextInv == PRInv /\ [PRNext]_prVars => PRInv'
<1> SUFFICES ASSUME PRInv, [PRNext]_prVars PROVE PRInv'
  OBVIOUS
<1>1. CASE UNCHANGED prVars
  <2>1. /\ ent' = ent /\ inbox' = inbox /\ work' = work /\ esc' = esc /\ lost' = lost
        /\ refused' = refused /\ cat' = cat
    BY <1>1 DEF prVars
  <2>2. PRTyped' /\ RequestsOK' /\ Quiet' /\ Waited'
    BY <2>1 DEF PRInv, PRTyped, RequestsOK, Quiet, Waited, Somewhere
  <2>3. \A k \in Nodes : NodeOK(k)' /\ (Holds(k)' <=> Holds(k))
    BY <2>1 DEF PRInv, NodeOK, Holds
  <2>4. Holders' = Holders /\ Inboxes' = Inboxes
    BY <2>1, <2>3 DEF Holders, Inboxes
  <2> QED BY <2>1, <2>2, <2>3, <2>4 DEF PRInv, CopiesOK
<1>2. CASE StartTask
  BY <1>2, StartTaskInv
<1>3. ASSUME NEW n \in Nodes,
             \/ Process(n) \/ Execute(n) \/ Advance(n) \/ Route(n)
             \/ DispatchHere(n) \/ DispatchRefused(n) \/ DispatchRemote(n) \/ Failover(n)
             \/ Escalate(n) \/ Report(n) \/ ApplyRevision(n)
      PROVE PRInv'
  BY <1>3, ProcessInv, ExecuteInv, AdvanceInv, RouteInv, DispatchHereInv, DispatchRefusedInv,
     DispatchRemoteInv, FailoverInv, EscalateInv, ReportInv, ApplyRevisionInv
<1> QED BY <1>1, <1>2, <1>3 DEF PRNext

\* The task is never forked beyond the calls that took effect and reported an
\* error, and while the requester waits for it somebody has it, has its end to
\* report, or could not report it (DispatchTask, EscalateToEscrow, processTask).
THEOREM TaskIsKept == PRSpec => []TaskKept
<1>1. PRSpec => []PRInv
  BY PRInitInv, PRNextInv, PTL DEF PRSpec
<1> QED BY <1>1, PRInvKept, PTL

(* --------------------------- inputs of a step ---------------------------- *)

\* In a schema with unique identifiers each step is at its own position.
LEMMA PositionUnique ==
  ASSUME NEW i \in DOMAIN Revisions, NEW k \in 1 .. Len(Revisions[i].steps)
  PROVE  Pos(Revisions[i], Revisions[i].steps[k].id) = k
<1> DEFINE s == Revisions[i].steps
           N == Len(s)
           f == [j \in 1 .. N |-> s[j].id]
<1>1. N \in Nat /\ DOMAIN s = 1 .. N
  BY RevisionFacts
<1>2. StepIDs(Revisions[i]) = {s[j].id : j \in 1 .. N} /\ UniqueIDs(Revisions[i])
  BY <1>1, PipelineRunAssumption DEF StepIDs, ValidatePipelineSchema
<1> DEFINE S == StepIDs(Revisions[i])
<1>3. IsFiniteSet(1 .. N) /\ Cardinality(1 .. N) = N
  BY <1>1, FS_Interval
<1>4. Cardinality(S) = N
  BY <1>2 DEF UniqueIDs
<1>5. f \in Surjection(1 .. N, S)
  BY <1>2 DEF Surjection
<1>6. f \in Injection(1 .. N, S)
  BY <1>3, <1>4, <1>5, FS_SurjSameCardinalityImpliesInj
<1>7. \A j \in 1 .. N : s[j].id = s[k].id => j = k
  BY <1>6 DEF Injection, IsInjective
<1> QED BY <1>1, <1>7 DEF Pos

\* Under the invariant no completed step lacks its producer, and the worker
\* finds the inputs of the step it runs.
LEMMA PRInvProduced == PortsDeclared /\ PRInv => PrefixProduced
<1> SUFFICES ASSUME PortsDeclared, PRInv PROVE PrefixProduced
  OBVIOUS
<1>1. ASSUME NEW r \in Carried
      PROVE  /\ r.step <= Len(Snapshot(r).steps)
             /\ \A i \in 1 .. r.step : r.prod[Snapshot(r).steps[i].id] # NoNode
  <2>1. RequestOK(r)
    BY <1>1 DEF Carried, PRInv, RequestsOK, WorkerOK, MaybeOK
  <2> QED BY <2>1 DEF RequestOK
<1>2. ASSUME NEW n \in Nodes, work[n].pc = "exec",
             NEW c \in Snapshot(work[n].req).conns, c.to = work[n].st.id, c.from # Initial
      PROVE  /\ c.from \in DOMAIN Outs(work[n].req)
             /\ c.fp \in Outs(work[n].req)[c.from]
  <2> DEFINE r == work[n].req
             S == Revisions[r.sch]
  <2>1. /\ RequestOK(r) /\ r.step < Len(Snapshot(r).steps)
        /\ work[n].st = Snapshot(r).steps[r.step + 1]
    BY <1>2, NodeFacts DEF WorkerOK
  <2>2. r.sch \in DOMAIN Revisions /\ r.step \in Nat /\ Snapshot(r) = S
    BY <2>1 DEF RequestOK, AnyRequests, Snapshot
  <2>3. Len(S.steps) \in Nat /\ DOMAIN S.steps = 1 .. Len(S.steps)
    BY <2>2, RevisionFacts
  <2>4. c \in S.conns /\ c.from \in StepIDs(S) /\ Pos(S, c.from) < Pos(S, c.to)
    BY <1>2, <2>2, PipelineRunAssumption DEF ValidatePipelineSchema
  <2>5. Pos(S, c.to) = r.step + 1
    <3>1. r.step + 1 \in 1 .. Len(S.steps)
      BY <2>1, <2>2, <2>3
    <3>2. c.to = S.steps[r.step + 1].id
      BY <1>2, <2>1, <2>2
    <3> QED BY <2>2, <3>1, <3>2, PositionUnique
  <2>6. PICK k \in 1 .. Len(S.steps) : c.from = S.steps[k].id
    BY <2>3, <2>4 DEF StepIDs
  <2>7. Pos(S, c.from) = k
    BY <2>2, <2>6, PositionUnique
  <2>8. r.prod[c.from] # NoNode
    <3>1. k \in 1 .. r.step
      BY <2>2, <2>4, <2>5, <2>7
    <3> QED BY <2>1, <2>2, <2>6, <3>1 DEF RequestOK
  <2>9. c.fp \in Ports[S.steps[Pos(S, c.from)].svc]
    BY <1>2, <2>2, <2>4 DEF PortsDeclared
  <2> QED BY <2>2, <2>4, <2>8, <2>9 DEF Outs
<1> QED BY <1>1, <1>2 DEF PrefixProduced

\* With schemas that connect declared ports, whatever hand-overs and migrations
\* a request goes through: every completed step of its snapshot has the producer
\* of its output, and a worker that runs a step has all its inputs
\* (executePipelineStep, tryDynamicSchemaMigration).
THEOREM PrefixIsProduced == PortsDeclared => (PRSpec => []PrefixProduced)
<1> SUFFICES ASSUME PortsDeclared PROVE PRSpec => []PrefixProduced
  OBVIOUS
<1>1. PRInv => PrefixProduced
  BY PRInvProduced
<1>2. PRSpec => []PRInv
  BY PRInitInv, PRNextInv, PTL DEF PRSpec
<1> QED BY <1>1, <1>2, PTL

\* A migration that ValidatePrefixMigration accepts leaves a schema whose
\* remaining steps are all fed: by a recorded output or by a step still to run.
THEOREM MigrationRuns ==
  ASSUME NEW done, NEW outs, NEW cur, NEW upd, Len(done) \in Nat,
         DOMAIN done = 1 .. Len(done), DOMAIN upd.steps = 1 .. Len(upd.steps),
         ValidatePrefixMigration(done, outs, cur, upd)
  PROVE  RunsFrom(upd, Len(done) + 1, outs)
<1> SUFFICES ASSUME NEW c \in upd.conns, c.from # Initial, c.to \in StepIDs(upd)
             PROVE  /\ c.from \in StepIDs(upd) /\ Pos(upd, c.from) < Pos(upd, c.to)
                    /\ Pos(upd, c.from) < Len(done) + 1 =>
                         c.from \in DOMAIN outs /\ c.fp \in outs[c.from]
  BY DEF RunsFrom
<1>1. c.from \in StepIDs(upd) /\ Pos(upd, c.from) < Pos(upd, c.to)
  BY DEF ValidatePrefixMigration
<1>2. ASSUME Pos(upd, c.from) < Len(done) + 1
      PROVE  c.from \in DOMAIN outs /\ c.fp \in outs[c.from]
  <2> DEFINE k == Pos(upd, c.from)
  <2>1. k \in DOMAIN upd.steps /\ upd.steps[k].id = c.from
    BY <1>1 DEF Pos, StepIDs
  <2>2. k \in DOMAIN done /\ done[k] = c.from
    <3>1. k \in DOMAIN done
      BY <1>2, <2>1
    <3> QED BY <2>1, <3>1 DEF ValidatePrefixMigration
  <2> QED BY <2>2 DEF ValidatePrefixMigration
<1> QED BY <1>1, <1>2
=============================================================================
