------------------------------ MODULE TaskStatus ------------------------------
(***************************************************************************)
(* The task tables of one compute engine (internal/compute/compute.go):    *)
(* admission to the queue, the worker pool, callbacks of remote producers, *)
(* retention and shutdown, with the callers of internal/server/            *)
(* service_exec.go that submit a task and wait for its result.             *)
(*                                                                         *)
(* Time is a tick that ages every status; among statuses of one age the    *)
(* victim of the capacity limit is any that the code's order allows.       *)
(***************************************************************************)
EXTENDS TaskTable, FiniteSets

CONSTANTS
  Tasks,       \* task identifiers, each generated once
  Self, Peer,  \* this node and the node a remote task is sent to
  QueueCap,    \* capacity of taskQueue
  Workers,     \* maxWorkers of serviceWorker
  Limit,       \* taskStatusLimit
  PendingTTL,  \* pendingTaskStatusTTL, in ticks
  TerminalTTL  \* terminalTaskStatusTTL, in ticks

ASSUME TaskStatusAssumption ==
  /\ Self \in Nodes /\ Peer \in Nodes \ {Self}
  /\ IsFiniteSet(Tasks) /\ NoReq \notin Tasks
  /\ {QueueCap, Workers, Limit, PendingTTL, TerminalTTL} \subseteq Nat \ {0}
  /\ PendingTTL <= TerminalTTL

VARIABLES
  tab,    \* TaskTable entry of each task
  age,    \* ticks since touchedAt of its status, active or retired
  stage,  \* where the local engine has the task
  remote, \* the peer accepted the task and will call back
  call,   \* progress of LocalServiceRunContext for the task
  answer, \* the terminal status that LocalServiceRunContext returned, or "none"
  phase   \* "open", "closing" (Close waits for the workers), "closed"

tsVars == <<tab, age, stage, remote, call, answer, phase>>

\* Types and bounds: neither table ever exceeds taskStatusLimit, whatever expires
\* or is retired together (pruneTaskStatusesLocked), and no metadata outlives its
\* status.
TSTypeOK ==
  /\ tab \in [Tasks -> EntryOf(Tasks)]
  /\ age \in [Tasks -> 0 .. TerminalTTL]
  /\ stage \in [Tasks -> {"none", "queued", "running", "gone"}]
  /\ remote \in [Tasks -> BOOLEAN]
  /\ call \in [Tasks -> {"new", "local", "remote", "waiting", "ingest", "returned"}]
  /\ answer \in [Tasks -> TerminalStatus \cup {"none"}]
  /\ phase \in {"open", "closing", "closed"}
  /\ Cardinality({t \in Tasks : tab[t].st # "none"}) <= Limit
  /\ Cardinality({t \in Tasks : tab[t].ret}) <= Limit
  /\ \A t \in Tasks : tab[t].meta => tab[t].st # "none"

TSInit ==
  /\ tab = [t \in Tasks |-> NoTaskEntry]
  /\ age = [t \in Tasks |-> 0]
  /\ stage = [t \in Tasks |-> "none"]
  /\ remote = [t \in Tasks |-> FALSE]
  /\ call = [t \in Tasks |-> "new"]
  /\ answer = [t \in Tasks |-> "none"]
  /\ phase = "open"

Closed == phase # "open"

-----------------------------------------------------------------------------
(* Retention.  A table state s is a record of tab and age.                 *)

Active(s)  == {t \in Tasks : s.tab[t].st # "none"}
Retired(s) == {t \in Tasks : s.tab[t].ret}

\* The order of the candidates: older first, then terminal first.
Older(s, t, u) ==
  \/ s.age[t] > s.age[u]
  \/ s.age[t] = s.age[u] /\ (s.tab[t].st \in TerminalStatus \/ s.tab[u].st \notin TerminalStatus)

\* The sets of candidates that go when cands exceed the limit; the protected
\* task stays.
Victims(s, cands, prot) ==
  {D \in SUBSET (cands \ {prot}) :
     /\ Cardinality(D) = IF Cardinality(cands) > Limit THEN Cardinality(cands) - Limit ELSE 0
     /\ \A d \in D, k \in (cands \ {prot}) \ D : Older(s, d, k)}

\* pruneRetiredTaskStatusesLocked: the states it can leave.
PruneRetired(s, prot) ==
  LET old  == {t \in Retired(s) \ {prot} : s.age[t] >= TerminalTTL}
      left == Retired(s) \ old
  IN {[s EXCEPT !.tab = [t \in Tasks |-> IF t \in old \cup D
                                         THEN [s.tab[t] EXCEPT !.ret = FALSE] ELSE s.tab[t]]]
        : D \in Victims(s, left, prot)}

\* deleteTaskStatusLocked for a terminal status, retireActiveTaskStatusLocked otherwise.
Remove(s, ts) ==
  [tab |-> [t \in Tasks |->
              IF t \notin ts THEN s.tab[t]
              ELSE IF s.tab[t].st \in TerminalStatus THEN Forget(s.tab[t])
              ELSE Retire(s.tab[t])],
   age |-> [t \in Tasks |-> IF t \in ts THEN 0 ELSE s.age[t]]]

TTL(e) == IF e.st \in TerminalStatus THEN TerminalTTL ELSE PendingTTL

\* The active part of pruneTaskStatusesLocked: expiry, then the limit.
PruneActive(s, prot) ==
  LET old == {t \in Active(s) : s.age[t] >= TTL(s.tab[t])}
      s1  == Remove(s, old)
  IN {Remove(s1, D) : D \in Victims(s1, Active(s1), prot)}

\* Mutant of PruneTaskStatuses: the limit is not enforced on the retired table.
PruneTaskStatusesOnce(s, prot) ==
  UNION {PruneActive(r, prot) : r \in PruneRetired(s, prot)}

\* pruneTaskStatusesLocked
PruneTaskStatuses(s, prot) ==
  UNION {PruneRetired(a, prot) :
           a \in UNION {PruneActive(r, prot) : r \in PruneRetired(s, prot)}}

\* storeTaskStatusLocked (and RegisterOutgoingTask): the entry e of t is
\* written and touched, then the tables are pruned.
Publish(t, e) ==
  \E s \in PruneTaskStatuses([tab |-> [tab EXCEPT ![t] = e],
                              age |-> [age EXCEPT ![t] = 0]], t) :
    tab' = s.tab /\ age' = s.age

\* The write when the operator changed the status, else nothing is touched.
Update(t, e) ==
  IF e = tab[t] THEN UNCHANGED <<tab, age>> ELSE Publish(t, e)

-----------------------------------------------------------------------------
(* LocalServiceRunContext and submitTrackedTask.                           *)

\* RegisterOutgoingTask for a new task with its target.
Register(t) ==
  /\ call[t] = "new"
  /\ \E target \in {Self, Peer} :
       /\ Publish(t, RegisterOutgoingTask(tab[t], target, {target}))
       /\ call' = [call EXCEPT ![t] = IF target = Self THEN "local" ELSE "remote"]
  /\ UNCHANGED <<stage, remote, answer, phase>>

QueueFull == Cardinality({t \in Tasks : stage[t] = "queued"}) >= QueueCap

\* SubmitTask for a task whose target is this node; MarkTaskAsFailed on an error.
SubmitLocal(t) ==
  /\ call[t] = "local"
  /\ LET out == SubmitOutcome(tab[t], t, Closed, QueueFull)
     IN IF SubmitOK(out)
        THEN /\ call' = [call EXCEPT ![t] = "waiting"]
             /\ tab' = [tab EXCEPT ![t].acc = IF out = "queued" THEN t ELSE @]
             /\ stage' = [stage EXCEPT ![t] = IF out = "queued" THEN "queued" ELSE @]
             /\ UNCHANGED age
        ELSE /\ call' = [call EXCEPT ![t] = "returned"]
             /\ Update(t, SetTaskStatus(tab[t], "failed", Closed))
             /\ UNCHANGED stage
  /\ UNCHANGED <<remote, answer, phase>>

\* DispatchTask to the peer; an error does not say whether the peer accepted.
SubmitRemote(t) ==
  /\ call[t] = "remote"
  /\ \E arrives, ok \in BOOLEAN :
       /\ ok => arrives
       /\ remote' = [remote EXCEPT ![t] = arrives]
       /\ call' = [call EXCEPT ![t] = IF ok THEN "waiting" ELSE "returned"]
       /\ IF ok THEN UNCHANGED <<tab, age>>
          ELSE Update(t, SetTaskStatus(tab[t], "failed", Closed))
  /\ UNCHANGED <<stage, answer, phase>>

\* GetTaskResponse in waitTaskResponse: prune, touch, and return on a final status.
Poll(t) ==
  /\ call[t] = "waiting"
  /\ \E s \in PruneTaskStatuses([tab |-> tab, age |-> age], t) :
       /\ tab' = s.tab
       /\ age' = [s.age EXCEPT ![t] = IF Observed(s.tab[t]) = "none" THEN @ ELSE 0]
       /\ LET o == Observed(s.tab[t])
          IN /\ call' = [call EXCEPT ![t] = IF o \in {"completed", "ingesting"} THEN "ingest"
                                            ELSE IF o = "failed" THEN "returned" ELSE @]
             /\ answer' = [answer EXCEPT ![t] = IF o = "failed" THEN "failed" ELSE @]
  /\ UNCHANGED <<stage, remote, phase>>

\* waitTaskResponse times out, or its context ends.
WaitEnds(t) ==
  /\ call[t] = "waiting"
  /\ call' = [call EXCEPT ![t] = "returned"]
  /\ UNCHANGED <<tab, age, stage, remote, answer, phase>>

\* ingestTaskOutputsContext and failTaskOutputIngest.  A result without an
\* output blob cannot fail.
Ingest(t) ==
  /\ call[t] = "ingest"
  /\ \E s \in {"completed"} \cup (IF tab[t].st = "ingesting" THEN {"failed"} ELSE {}) :
       /\ Update(t, RecordTaskResponse(tab[t], s))
       /\ answer' = [answer EXCEPT ![t] = s]
  /\ call' = [call EXCEPT ![t] = "returned"]
  /\ UNCHANGED <<stage, remote, phase>>

\* GetAllTaskStatuses
ListStatuses ==
  /\ \E s \in PruneTaskStatuses([tab |-> tab, age |-> age], NoReq) :
       tab' = s.tab /\ age' = s.age
  /\ UNCHANGED <<stage, remote, call, answer, phase>>

-----------------------------------------------------------------------------
(* Workers, callbacks, shutdown.                                           *)

\* serviceWorker takes a task from the queue when a worker is free.
Dequeue(t) ==
  /\ ~Closed /\ stage[t] = "queued"
  /\ Cardinality({u \in Tasks : stage[u] = "running"}) < Workers
  /\ stage' = [stage EXCEPT ![t] = "running"]
  /\ UNCHANGED <<tab, age, remote, call, answer, phase>>

\* processTask ends in advancePipeline's last part or in sendPipelineError.
Finish(t) ==
  /\ stage[t] = "running"
  /\ \E s \in TerminalStatus \cup {"ingesting"} :
       Update(t, SetTaskStatus(tab[t], s, Closed))
  /\ stage' = [stage EXCEPT ![t] = "gone"]
  /\ UNCHANGED <<remote, call, answer, phase>>

\* HandleServiceCallback: the peer reports; a callback may come twice.
Callback(t) ==
  /\ remote[t]
  /\ \E s \in TerminalStatus, ingest \in BOOLEAN :
       Update(t, AcceptTaskCallback(tab[t], Peer, s, ingest))
  /\ UNCHANGED <<stage, remote, call, answer, phase>>

\* failAcceptedTasks, which prunes after each task it fails.
FailAcceptedTasks ==
  \E s \in PruneTaskStatuses(
             [tab |-> [t \in Tasks |-> FailAccepted(tab[t])],
              age |-> [t \in Tasks |-> IF FailAccepted(tab[t]) = tab[t] THEN age[t] ELSE 0]],
             NoReq) : tab' = s.tab /\ age' = s.age

\* Close marks the engine closed and fails what it accepted.
Close ==
  /\ phase = "open"
  /\ phase' = "closing"
  /\ FailAcceptedTasks
  /\ UNCHANGED <<stage, remote, call, answer>>

\* Close returns after the workers, and sweeps again.
CloseReturns ==
  /\ phase = "closing"
  /\ \A t \in Tasks : stage[t] # "running"
  /\ phase' = "closed"
  /\ FailAcceptedTasks
  /\ UNCHANGED <<stage, remote, call, answer>>

Tick ==
  /\ age' = [t \in Tasks |-> IF age[t] < TerminalTTL THEN age[t] + 1 ELSE age[t]]
  /\ age' # age
  /\ UNCHANGED <<tab, stage, remote, call, answer, phase>>

TSNext ==
  \/ \E t \in Tasks :
       \/ Register(t) \/ SubmitLocal(t) \/ SubmitRemote(t) \/ Poll(t) \/ WaitEnds(t)
       \/ Ingest(t) \/ Dequeue(t) \/ Finish(t) \/ Callback(t)
  \/ ListStatuses \/ Close \/ CloseReturns \/ Tick

TSSpec == TSInit /\ [][TSNext]_tsVars

-----------------------------------------------------------------------------
\* A terminal status is never replaced by another one, by any mix of workers,
\* late or repeated callbacks, ingest, expiry and Close: it can only be forgotten.
TerminalStable ==
  [][\A t \in Tasks : Observed(tab[t]) \in TerminalStatus =>
       Observed(tab'[t]) \in {Observed(tab[t]), "none"}]_tsVars

\* When Close has returned, no accepted request is left, and no task that was
\* still queued stays pending for its waiter (failAcceptedTasks on both sides
\* of the wait for the workers).
CloseSettles ==
  phase = "closed" =>
    \A t \in Tasks :
      /\ tab[t].acc = NoReq
      /\ stage[t] = "queued" => Observed(tab[t]) \in TerminalStatus \cup {"none"}
=============================================================================
