----------------------------- MODULE PipelineRun -----------------------------
(***************************************************************************)
(* One pipeline task on several nodes (internal/compute/compute.go,        *)
(* coordinator.go, handlers.go and internal/server/compute_bridge.go): the *)
(* requester submits it to its own engine, each node runs the steps it can *)
(* and hands the request to the next node, with failover, migration to a   *)
(* newer schema revision, escalation to the requester's escrow, and the    *)
(* final callback.  Calls may fail, and may fail after they took effect.   *)
(*                                                                         *)
(* A request carries the index sch of its snapshot in Revisions, the       *)
(* number step of completed steps, the producer prod of each step's output *)
(* (and with it the output), the selected targets sel, and the local field *)
(* exp (ExpectedProducerNodeID).                                           *)
(***************************************************************************)
EXTENDS TaskTable, Pipelines

CONSTANTS
  Coord,        \* the requester, which is also the coordinator
  Revisions,    \* a sequence of schemas of one pipeline
  Deployments,  \* the possible functions from nodes to their registered services
  Ports,        \* the output ports of each service
  Attempts,     \* candidates tried by dispatchStepWithFailover
  MaxLost       \* bound on calls that take effect and report an error

StepRecords == [id : STRING, svc : STRING, tgt : Nodes \cup {NoNode}]

ASSUME PipelineRunAssumption ==
  /\ Coord \in Nodes /\ IsFiniteSet(Nodes)
  /\ Attempts \in Nat /\ MaxLost \in Nat
  /\ 1 \in DOMAIN Revisions
  /\ \A i \in DOMAIN Revisions : Revisions[i].steps \in Seq(StepRecords)
  /\ \A i \in DOMAIN Revisions : ValidatePipelineSchema(Revisions[i], <<>>)

VARIABLES
  hand,    \* registered services of each node
  cat,     \* index of the revision each node has (pipelineRevisions), 0 for none
  ent,     \* TaskTable entry of the task on each node
  inbox,   \* the request in each node's taskQueue, or NoReq
  work,    \* the worker of each node
  esc,     \* the request in the requester's escrowTasks, or NoReq
  lost,    \* calls that took effect and reported an error
  refused, \* reports that did not reach the requester's table: [by, st, why, open]
  badSchema \* a task was failed or a hand-over given up because of its schema

prVars == <<hand, cat, ent, inbox, work, esc, lost, refused, badSchema>>

IDs     == UNION {StepIDs(Revisions[i]) : i \in DOMAIN Revisions}
MaybeNode == Nodes \cup {NoNode}
Requests  ==
  [step : 0 .. Cardinality(IDs), sch : DOMAIN Revisions, prod : [IDs -> MaybeNode],
   sel : [IDs -> MaybeNode], exp : MaybeNode]

ASSUME NoReqAssumption ==
  NoReq \notin [step : Nat, sch : DOMAIN Revisions, prod : [IDs -> MaybeNode],
                sel : [IDs -> MaybeNode], exp : MaybeNode]

NoStep  == [id |-> "", svc |-> "", tgt |-> NoNode]
AllSteps == {NoStep} \cup UNION {{Revisions[i].steps[k] : k \in DOMAIN Revisions[i].steps}
                                  : i \in DOMAIN Revisions}
IdleWorker == [pc |-> "idle", req |-> NoReq, st |-> NoStep, tgt |-> NoNode, tried |-> {}]

PRTypeOK ==
  /\ hand \in Deployments
  /\ cat \in [Nodes -> 0 .. Len(Revisions)]
  /\ \A n \in Nodes :
       /\ [ent[n] EXCEPT !.acc = NoReq] \in EntryOf({})
       /\ {ent[n].acc, inbox[n], work[n].req, esc} \subseteq Requests \cup {NoReq}
       /\ work[n].pc \in {"idle", "exec", "advance", "route", "dispatch", "failover", "escalate",
                          "failed", "completed"}
       /\ work[n].st \in AllSteps
       /\ work[n].tgt \in MaybeNode /\ work[n].tried \subseteq Nodes
  /\ lost \in 0 .. MaxLost
  /\ refused \subseteq [by : Nodes, st : TerminalStatus, why : {"producer", "network"},
                    open : BOOLEAN]
  /\ badSchema \in BOOLEAN

PRInit ==
  /\ hand \in Deployments
  /\ cat = [n \in Nodes |-> 1]
  /\ ent = [n \in Nodes |-> NoTaskEntry]
  /\ inbox = [n \in Nodes |-> NoReq]
  /\ work = [n \in Nodes |-> IdleWorker]
  /\ esc = NoReq /\ lost = 0 /\ refused = {} /\ badSchema = FALSE

-----------------------------------------------------------------------------
(* Schemas and targets.                                                    *)

Snapshot(r) == Revisions[r.sch]
Live(n)     == cat[n] # 0 /\ ~Revisions[cat[n]].del

\* GetPipeline, and the snapshot when the node has no live revision.
SchemaAt(n, r) == IF Live(n) THEN Revisions[cat[n]] ELSE Snapshot(r)

\* The completed step IDs and the recorded outputs of a request.
Done(r) == [i \in 1 .. r.step |-> Snapshot(r).steps[i].id]
Outs(r) ==
  [id \in {x \in StepIDs(Snapshot(r)) : r.prod[x] # NoNode} |->
     Ports[Snapshot(r).steps[Pos(Snapshot(r), id)].svc]]

\* RequestServiceToCluster: the best bid is that of any node with the service;
\* there may be none in time.
Offers(s) == {m \in Nodes : s.svc \in hand[m]} \cup {NoNode}

\* selectPipelineStepTarget
Select(n, s) ==
  IF s.tgt \notin {NoNode, n} THEN {s.tgt}
  ELSE IF s.svc \in hand[n] THEN {n}
  ELSE Offers(s)

\* SelectedTargets after the steps of schema s from index i on are resolved.
Selections(n, s, i, sel) ==
  {x \in [IDs -> MaybeNode] :
     \A id \in IDs :
       IF id \in StepIDs(s) /\ Pos(s, id) >= i /\ sel[id] = NoNode
       THEN x[id] \in Select(n, s.steps[Pos(s, id)])
       ELSE x[id] = sel[id]}

\* A step's own target is taken as it is when a migration selects targets.
MigratedSelections(n, s, i, sel) ==
  LET own == [id \in IDs |->
                IF id \in StepIDs(s) /\ Pos(s, id) >= i /\ sel[id] = NoNode
                THEN s.steps[Pos(s, id)].tgt ELSE sel[id]]
  IN Selections(n, s, i, own)

\* Mutant of Migrate: the completed prefix is not compared.
MigrateUnchecked(n, r) ==
  IF Live(n) /\ cat[n] # r.sch /\ Revisions[cat[n]].ver >= Snapshot(r).ver
  THEN {[r EXCEPT !.sch = cat[n], !.sel = x] :
          x \in MigratedSelections(n, Revisions[cat[n]], r.step + 1, r.sel)}
  ELSE {r}

\* tryDynamicSchemaMigration on node n: the requests it can leave.
Migrate(n, r) ==
  IF /\ Live(n) /\ cat[n] # r.sch /\ Revisions[cat[n]].ver >= Snapshot(r).ver
     /\ ValidatePrefixMigration(Done(r), Outs(r), Snapshot(r), Revisions[cat[n]])
  THEN {[r EXCEPT !.sch = cat[n], !.sel = x] :
          x \in MigratedSelections(n, Revisions[cat[n]], r.step + 1, r.sel)}
  ELSE {r}

\* The entry of n after a migration of r to q: the targets are delegated.
Migrated(n, r, q) ==
  IF q.sch = r.sch THEN ent[n] ELSE Delegate(ent[n], {q.sel[id] : id \in IDs})

\* bindPipelineState refuses a step out of bounds or without a producer.
Bindable(r) ==
  /\ r.step <= Len(Snapshot(r).steps)
  /\ r.step > 0 => r.prod[Snapshot(r).steps[r.step].id] # NoNode

\* The targets RegisterOutgoingTask takes from the request and the schema.
Targets(n, r) ==
  {r.sel[id] : id \in IDs} \cup
  {SchemaAt(n, r).steps[i].tgt :
     i \in {k \in DOMAIN SchemaAt(n, r).steps : r.sel[SchemaAt(n, r).steps[k].id] = NoNode}}

-----------------------------------------------------------------------------
(* The worker of node n.                                                   *)

\* LocalServiceRunContext: bind, PreparePipelineTargets, register, submit.
StartTask ==
  /\ ent[Coord] = NoTaskEntry /\ Live(Coord)
  /\ \E x \in Selections(Coord, Revisions[cat[Coord]], 1, [id \in IDs |-> NoNode]) :
       LET r == [step |-> 0, sch |-> cat[Coord], prod |-> [id \in IDs |-> NoNode],
                 sel |-> x, exp |-> Coord]
       IN /\ x[Revisions[cat[Coord]].steps[1].id] # NoNode
          /\ inbox' = [inbox EXCEPT ![Coord] = r]
          /\ ent' = [ent EXCEPT ![Coord] =
                       [RegisterOutgoingTask(@, Coord, Targets(Coord, r)) EXCEPT !.acc = r]]
  /\ UNCHANGED <<hand, cat, work, esc, lost, refused, badSchema>>

\* sendPipelineError up to the callback: the status of this node.
Fail(n, r) ==
  /\ work' = [work EXCEPT ![n] = [IdleWorker EXCEPT !.pc = "failed", !.req = r]]
  /\ ent' = [ent EXCEPT ![n] = SetTaskStatus(@, "failed", FALSE)]

\* Where the step of a bound request goes: executePipelineStep.
RunsHere(n, r) ==
  LET s == Snapshot(r).steps[r.step + 1]
  IN /\ s.svc \in hand[n]
     /\ \/ r.sel[s.id] = n
        \/ r.sel[s.id] = NoNode /\ s.tgt \in {NoNode, n}

Goto(n, pc, r, s) == [work EXCEPT ![n] = [IdleWorker EXCEPT !.pc = pc, !.req = r, !.st = s]]

\* serviceWorker and processTask: bind the request and start the current step.
Process(n) ==
  /\ work[n].pc = "idle" /\ inbox[n] # NoReq
  /\ inbox' = [inbox EXCEPT ![n] = NoReq]
  /\ \E q \in Migrate(n, inbox[n]) :
       IF Bindable(q) /\ q.step < Len(Snapshot(q).steps)
       THEN /\ work' = Goto(n, IF RunsHere(n, q) THEN "exec" ELSE "route", q,
                            Snapshot(q).steps[q.step + 1])
            /\ ent' = [ent EXCEPT ![n] = Migrated(n, inbox[n], q)]
            /\ UNCHANGED badSchema
       ELSE Fail(n, q) /\ badSchema' = TRUE
  /\ UNCHANGED <<hand, cat, esc, lost, refused>>

\* executePipelineStep runs the handler here; resolving inputs, the handler
\* and staging its outputs can fail.
Execute(n) ==
  /\ work[n].pc = "exec"
  /\ \/ /\ work' = Goto(n, "advance",
                        [work[n].req EXCEPT !.step = @ + 1, !.prod[work[n].st.id] = n], NoStep)
        /\ UNCHANGED ent
     \/ Fail(n, work[n].req)
  /\ UNCHANGED <<hand, cat, inbox, esc, lost, refused, badSchema>>

\* advancePipeline: migrate, then route the next step or complete.
Advance(n) ==
  /\ work[n].pc = "advance"
  /\ \E q \in Migrate(n, work[n].req) :
       LET e == Migrated(n, work[n].req, q)
       IN IF q.step < Len(Snapshot(q).steps)
          THEN /\ work' = Goto(n, "route", q, Snapshot(q).steps[q.step + 1])
               /\ ent' = [ent EXCEPT ![n] = e]
          ELSE /\ work' = Goto(n, "completed", q, NoStep)
               /\ ent' = [ent EXCEPT ![n] = SetTaskStatus(e, "completed", FALSE)]
  /\ UNCHANGED <<hand, cat, inbox, esc, lost, refused, badSchema>>

\* routePipelineStep: the selected target, or discovery.
Route(n) ==
  /\ work[n].pc = "route"
  /\ LET r == work[n].req  s == work[n].st
     IN \E m \in IF r.sel[s.id] # NoNode THEN {r.sel[s.id]} ELSE Select(n, s) :
          IF m # NoNode
          THEN /\ work' = [work EXCEPT ![n].pc = "dispatch", ![n].req.sel[s.id] = m,
                                       ![n].tgt = m]
               /\ ent' = [ent EXCEPT ![n] = Delegate(@, {m})]
          ELSE IF r.step > 0
          THEN work' = [work EXCEPT ![n].pc = "escalate"] /\ UNCHANGED ent
          ELSE Fail(n, r)
  /\ UNCHANGED <<hand, cat, inbox, esc, lost, refused, badSchema>>

-----------------------------------------------------------------------------
(* Handing the step over: dispatchStepWithFailover and DispatchTask.       *)

\* HandleServiceSubmit on node m for a request of node n.
Admits(m, n, r) ==
  /\ n = Coord \/ (r.step > 0 /\ r.prod[Snapshot(r).steps[r.step].id] = n)
  /\ Live(m)
  /\ SubmitOK(SubmitOutcome(ent[m], r, FALSE, inbox[m] # NoReq))

Queued(m, r) == SubmitOutcome(ent[m], r, FALSE, inbox[m] # NoReq) = "queued"

\* BindPipelineStepTarget and the capability query, which look at the node's
\* own revision of the schema.
TargetBinds(n, m, r) ==
  LET s == SchemaAt(n, r)
  IN /\ r.step < Len(s.steps)
     /\ r.sel[s.steps[r.step + 1].id] \in {NoNode, m}
     /\ r.step > 0 => s.steps[r.step + 1].svc \in hand[m]

\* The request on the wire: without the local field.
Sent(n, m, r) ==
  [r EXCEPT !.exp = NoNode, !.sel[SchemaAt(n, r).steps[r.step + 1].id] = m]

\* PreparePipelineTargets inside submitTrackedTask, on the requester only.
Prepared(n, r) ==
  IF n # Coord THEN {r}
  ELSE {[r EXCEPT !.sel = x] : x \in Selections(n, SchemaAt(n, r), 1, r.sel)}

\* Mutant of DispatchHere: the loop goes on after a successful submit.
DispatchHereAgain(n) ==
  /\ work[n].pc = "dispatch" /\ work[n].tgt = n
  /\ LET r == [work[n].req EXCEPT !.exp = n]
         e == [ent[n] EXCEPT !.acc = NoReq]
         queued == SubmitOutcome(e, r, FALSE, inbox[n] # NoReq) = "queued"
     IN /\ inbox' = IF queued THEN [inbox EXCEPT ![n] = r] ELSE inbox
        /\ ent' = [ent EXCEPT ![n] = IF queued THEN [e EXCEPT !.acc = r] ELSE e]
        /\ work' = [work EXCEPT ![n].pc = "failover"]
  /\ UNCHANGED <<hand, cat, esc, lost, refused, badSchema>>

\* The target is this node: SubmitTask to its own queue.
DispatchHere(n) ==
  /\ work[n].pc = "dispatch" /\ work[n].tgt = n
  /\ LET r == [work[n].req EXCEPT !.exp = n]
         e == [ent[n] EXCEPT !.acc = NoReq]
         out == SubmitOutcome(e, r, FALSE, inbox[n] # NoReq)
     IN IF out = "queued"
        THEN /\ inbox' = [inbox EXCEPT ![n] = r]
             /\ ent' = [ent EXCEPT ![n] = [e EXCEPT !.acc = r]]
             /\ work' = [work EXCEPT ![n] = IdleWorker]
        ELSE /\ ent' = [ent EXCEPT ![n] = e]
             /\ work' = IF SubmitOK(out) THEN [work EXCEPT ![n] = IdleWorker]
                        ELSE [work EXCEPT ![n].pc = "failover"]
             /\ UNCHANGED inbox
  /\ UNCHANGED <<hand, cat, esc, lost, refused, badSchema>>

\* DispatchTask fails before the call: in a bind or the capability check.
DispatchRefused(n) ==
  /\ work[n].pc = "dispatch" /\ work[n].tgt # n
  /\ \E q \in Migrate(n, work[n].req) :
       /\ \/ ~Bindable(q) \/ ~TargetBinds(n, work[n].tgt, q)
          \/ \E r \in Prepared(n, q) : r.sel[SchemaAt(n, q).steps[1].id] = NoNode
       /\ badSchema' = (badSchema \/ ~Bindable(q) \/ q.step >= Len(SchemaAt(n, q).steps))
       /\ work' = [work EXCEPT ![n].pc = "failover", ![n].req = q]
       /\ ent' = [ent EXCEPT ![n] = Migrated(n, work[n].req, q)]
  /\ UNCHANGED <<hand, cat, inbox, esc, lost, refused>>

\* DispatchTask makes the call.  On the requester the task is registered first
\* and marked as failed after an error (submitTrackedTask).
DispatchRemote(n) ==
  /\ work[n].pc = "dispatch" /\ work[n].tgt # n
  /\ \E q \in Migrate(n, work[n].req) : \E p \in Prepared(n, q), arrives, ok \in BOOLEAN :
       LET m  == work[n].tgt
           r  == Sent(n, m, p)
           e  == IF n = Coord
                 THEN RegisterOutgoingTask(Migrated(n, work[n].req, q), m, Targets(n, r))
                 ELSE Migrated(n, work[n].req, q)
           in == arrives /\ Admits(m, n, r) /\ Queued(m, r)
       IN /\ Bindable(q) /\ TargetBinds(n, m, q)
          /\ p.sel[SchemaAt(n, q).steps[1].id] # NoNode \/ n # Coord
          /\ ok => arrives /\ Admits(m, n, r)
          /\ lost' = IF in /\ ~ok THEN lost + 1 ELSE lost
          /\ lost' <= MaxLost
          /\ inbox' = [inbox EXCEPT ![m] = IF in THEN r ELSE @]
          /\ work' = IF ok THEN [work EXCEPT ![n] = IdleWorker]
                     ELSE [work EXCEPT ![n].pc = "failover", ![n].req = q]
          /\ ent' = [ent EXCEPT
                       ![m].acc = IF in THEN r ELSE @,
                       ![n] = IF ok THEN [e EXCEPT !.acc = NoReq]
                              ELSE IF n = Coord THEN SetTaskStatus(e, "failed", FALSE) ELSE e]
  /\ UNCHANGED <<hand, cat, esc, refused, badSchema>>

\* Mutant of Failover: a later step without candidates is given up, not escalated.
FailoverGivesUp(n) ==
  /\ work[n].pc = "failover"
  /\ LET w == work[n]
     IN IF w.req.step > 0 THEN work' = [work EXCEPT ![n] = IdleWorker] /\ UNCHANGED ent
        ELSE Fail(n, w.req)
  /\ UNCHANGED <<hand, cat, inbox, esc, lost, refused, badSchema>>

\* The next candidate: discovery among the nodes not tried, then this node.
Failover(n) ==
  /\ work[n].pc = "failover"
  /\ LET w     == work[n]
         tried == w.tried \cup {w.tgt}
         cands == {m \in Nodes \ tried : w.st.svc \in hand[m]}
     IN \/ /\ Cardinality(tried) < Attempts
           /\ \E m \in cands :
                /\ work' = [work EXCEPT ![n] = [w EXCEPT !.pc = "dispatch", !.tgt = m,
                                                         !.tried = tried, !.req.sel[w.st.id] = m]]
                /\ ent' = [ent EXCEPT ![n] = Delegate(@, {m})]
        \/ /\ Cardinality(tried) >= Attempts \/ n \notin cands
           /\ IF w.req.step > 0
              THEN work' = [work EXCEPT ![n].pc = "escalate"] /\ UNCHANGED ent
              ELSE Fail(n, w.req)
  /\ UNCHANGED <<hand, cat, inbox, esc, lost, refused, badSchema>>

-----------------------------------------------------------------------------
(* Escrow, the final report, and the catalogue.                            *)

\* HandleServiceEscrow and PutTaskInEscrow on the requester.
EscrowAdmits(n) ==
  /\ ent[Coord].meta /\ Authorized(ent[Coord], n)
  /\ ent[Coord].st \notin TerminalStatus

\* escalateToEscrow
Escalate(n) ==
  /\ work[n].pc = "escalate"
  /\ \/ /\ n = Coord
        /\ esc' = work[n].req
        /\ ent' = [ent EXCEPT ![n] = SetTaskStatus([@ EXCEPT !.acc = NoReq], "escrow", FALSE)]
        /\ work' = [work EXCEPT ![n] = IdleWorker]
        /\ UNCHANGED lost
     \/ /\ n # Coord /\ EscrowAdmits(n)
        /\ esc' = work[n].req
        /\ \E ok \in BOOLEAN :
             /\ lost' = IF ok THEN lost ELSE lost + 1
             /\ lost' <= MaxLost
             /\ work' = [work EXCEPT ![n] = IF ok THEN IdleWorker
                           ELSE [IdleWorker EXCEPT !.pc = "failed", !.req = work[n].req]]
             /\ ent' = [ent EXCEPT
                  ![Coord] = SetTaskStatus(@, "escrow", FALSE),
                  ![n] = IF ok THEN SetTaskStatus([@ EXCEPT !.acc = NoReq], "escrow", FALSE)
                         ELSE SetTaskStatus(@, "failed", FALSE)]
     \/ n # Coord /\ Fail(n, work[n].req) /\ UNCHANGED <<esc, lost>>
  /\ UNCHANGED <<hand, cat, inbox, refused, badSchema>>

\* SendTaskResponse to the requester, and HandleServiceCallback there.
Report(n) ==
  /\ work[n].pc \in TerminalStatus
  /\ work' = [work EXCEPT ![n] = IdleWorker]
  /\ LET s == work[n].pc  open == ent[Coord].st \notin TerminalStatus
     IN \/ /\ n = Coord \/ AcceptsCallback(ent[Coord], n)
           /\ ent' = [ent EXCEPT ![Coord] = AcceptTaskCallback(@, n, s, FALSE)]
           /\ UNCHANGED refused
        \/ /\ n # Coord /\ ~AcceptsCallback(ent[Coord], n)
           /\ refused' = refused \cup {[by |-> n, st |-> s, why |-> "producer", open |-> open]}
           /\ UNCHANGED ent
        \/ /\ n # Coord
           /\ refused' = refused \cup {[by |-> n, st |-> s, why |-> "network", open |-> open]}
           /\ UNCHANGED ent
  /\ UNCHANGED <<hand, cat, inbox, esc, lost, badSchema>>

\* ApplyPipelineRevision: a node learns of a revision, in any order.
ApplyRevision(n) ==
  /\ \E i \in DOMAIN Revisions \ {cat[n]} :
       /\ cat[n] # 0 => ValidatePipelineRevision(Revisions[cat[n]], Revisions[i])
       /\ cat' = [cat EXCEPT ![n] = i]
  /\ UNCHANGED <<hand, ent, inbox, work, esc, lost, refused, badSchema>>

PRNext ==
  \/ StartTask
  \/ \E n \in Nodes :
       \/ Process(n) \/ Execute(n) \/ Advance(n) \/ Route(n)
       \/ DispatchHere(n) \/ DispatchRefused(n) \/ DispatchRemote(n) \/ Failover(n)
       \/ Escalate(n) \/ Report(n) \/ ApplyRevision(n)

PRSpec == PRInit /\ [][PRNext]_prVars

-----------------------------------------------------------------------------
Holds(n) == work[n].pc \notin {"idle", "failed", "completed"}

\* Every request that exists.
Carried == ({inbox[n] : n \in Nodes} \cup {work[n].req : n \in Nodes} \cup {esc}) \ {NoReq}

Copies ==
  Cardinality({n \in Nodes : Holds(n)}) + Cardinality({n \in Nodes : inbox[n] # NoReq})
    + (IF esc = NoReq THEN 0 ELSE 1)

\* A hand-over moves the task: it neither forks nor drops it.  The copies that
\* run, wait in a queue or sit in escrow exceed one only by the calls that took
\* effect and reported an error; and while the requester waits, there is one, or
\* a report is on its way or was refused (dispatchStepWithFailover,
\* escalateToEscrow, sendPipelineError).
TaskKept ==
  /\ Copies <= 1 + lost
  /\ ent[Coord].st \in {"pending", "running", "escrow"} =>
       Copies > 0 \/ refused # {} \/ \E n \in Nodes : work[n].pc \in TerminalStatus

\* Every connection names a port that the service of its source step has.
PortsDeclared ==
  \A i \in DOMAIN Revisions : \A c \in Revisions[i].conns :
    c.from # Initial => c.fp \in Ports[Revisions[i].steps[Pos(Revisions[i], c.from)].svc]

\* Through every migration, hand-over and escrow, all completed steps of the
\* request's snapshot have a recorded producer, and the step that is about to
\* run finds each of its inputs.
PrefixProduced ==
  /\ \A r \in Carried :
       /\ r.step <= Len(Snapshot(r).steps)
       /\ \A i \in 1 .. r.step : r.prod[Snapshot(r).steps[i].id] # NoNode
  /\ \A n \in Nodes : work[n].pc = "exec" =>
       \A c \in Snapshot(work[n].req).conns :
         c.to = work[n].st.id /\ c.from # Initial =>
           c.from \in DOMAIN Outs(work[n].req) /\ c.fp \in Outs(work[n].req)[c.from]

\* As .cursorrules.md says, delegatedProducers tracks the targets of failover,
\* so that callbacks of newly selected workers are accepted: no completion is
\* refused for its producer while the requester still waits.
CompletionsAuthorized ==
  \A x \in refused : x.why = "producer" /\ x.st = "completed" => ~x.open

\* A new revision never makes a running task fail: it is adopted or the task
\* keeps its snapshot.
SchemaChangeSafe == ~badSchema
=============================================================================
