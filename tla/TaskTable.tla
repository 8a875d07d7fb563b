------------------------------ MODULE TaskTable ------------------------------
(***************************************************************************)
(* What a compute engine keeps about one task (internal/compute/           *)
(* compute.go): the entry of taskStatuses or retiredTaskStatuses, the      *)
(* producers that taskStatusMeta allows to answer, and the request in      *)
(* acceptedTasks.  Each operator is one critical section of                *)
(* taskStatusesMu or taskSubmissionMu.                                     *)
(***************************************************************************)
EXTENDS Naturals

CONSTANTS
  Nodes,    \* node identifiers
  NoNode,   \* the empty node identifier
  NoReq     \* acceptedTasks has no entry

ASSUME TaskTableAssumption == NoNode \notin Nodes

\* isTerminalTaskStatus
TerminalStatus == {"completed", "failed"}
TaskStatuses   == {"none", "pending", "running", "escrow", "ingesting"} \cup TerminalStatus

\* st: the status in taskStatuses; ret: an entry of retiredTaskStatuses, always
\* failed; meta: an entry of taskStatusMeta, with exp (expectedProducer) and
\* del (delegatedProducers); acc: the accepted request.
EntryOf(Reqs) ==
  [st : TaskStatuses, ret : BOOLEAN, meta : BOOLEAN, exp : Nodes \cup {NoNode},
   del : SUBSET Nodes, acc : Reqs \cup {NoReq}]

NoTaskEntry ==
  [st |-> "none", ret |-> FALSE, meta |-> FALSE, exp |-> NoNode, del |-> {}, acc |-> NoReq]

\* What GetTaskResponse answers.
Observed(e) == IF e.st # "none" THEN e.st ELSE IF e.ret THEN "failed" ELSE "none"

\* storeTaskStatusLocked, and the release of the accepted request by its callers.
Store(e, s) ==
  [e EXCEPT !.st = s, !.meta = TRUE, !.acc = IF s \in TerminalStatus THEN NoReq ELSE @]

\* setTaskStatus; after Close every status becomes a failure.
SetTaskStatus(e, s, closed) ==
  IF e.ret \/ e.st \in TerminalStatus THEN e
  ELSE Store(e, IF closed THEN "failed" ELSE s)

\* RecordTaskResponse: the result of the server's output ingest.
RecordTaskResponse(e, s) ==
  IF e.ret \/ e.st = "failed" THEN e ELSE Store(e, s)

\* Nodes among ns that are not the empty identifier.
Known(ns) == ns \ {NoNode}

\* RegisterOutgoingTask, with the expected producer and the selected targets.
RegisterOutgoingTask(e, exp, targets) ==
  IF e.st # "none"
  THEN [e EXCEPT !.meta = TRUE, !.del = @ \cup Known(targets \cup {exp}),
                 !.exp = IF exp = NoNode THEN @ ELSE exp]
  ELSE [e EXCEPT !.st = "pending", !.meta = TRUE, !.exp = exp, !.del = Known(targets)]

\* The updates of delegatedProducers in routePipelineStep,
\* dispatchStepWithFailover and tryDynamicSchemaMigration.
Delegate(e, ns) == [e EXCEPT !.meta = TRUE, !.del = @ \cup Known(ns)]

\* isAuthorizedCallbackProducer
Authorized(e, p) == p \in Known({e.exp}) \cup e.del

\* AcceptTaskCallback rejects a callback for an unknown task and from an unknown producer.
AcceptsCallback(e, p) == e.st # "none" /\ Authorized(e, p)

\* Mutant of AcceptTaskCallback: a late callback overwrites a terminal status.
AcceptTaskCallbackLate(e, p, s, ingest) ==
  IF ~AcceptsCallback(e, p) THEN e
  ELSE Store(Delegate(e, {p}), IF s = "completed" /\ ingest THEN "ingesting" ELSE s)

\* AcceptTaskCallback.  A completion whose output must be imported waits in
\* "ingesting" and keeps the accepted request.
AcceptTaskCallback(e, p, s, ingest) ==
  IF ~AcceptsCallback(e, p) THEN e
  ELSE IF e.st \in TerminalStatus \cup {"ingesting"} THEN Delegate(e, {p})
  ELSE Store(Delegate(e, {p}), IF s = "completed" /\ ingest THEN "ingesting" ELSE s)

\* retireActiveTaskStatusLocked: the entry moves to the retired table as a failure.
Retire(e) == [NoTaskEntry EXCEPT !.ret = TRUE]

\* deleteTaskStatusLocked
Forget(e) == [e EXCEPT !.st = "none", !.meta = FALSE, !.exp = NoNode, !.del = {}]

\* failAcceptedTasks, for this task.
FailAccepted(e) ==
  IF e.acc = NoReq THEN e
  ELSE IF e.st \in TerminalStatus THEN [e EXCEPT !.acc = NoReq]
  ELSE Store(e, "failed")

\* Mutant of SubmitOutcome: the closed queue is not looked at.
SubmitOutcomeOpen(e, req, closed, full) ==
  CASE e.st \in TerminalStatus \/ e.ret -> "known"
    [] e.st \notin TerminalStatus /\ ~e.ret /\ e.acc # NoReq ->
         IF e.acc = req THEN "same" ELSE "duplicate"
    [] OTHER -> IF full THEN "full" ELSE "queued"

\* The outcome of SubmitTask: "known" and "same" are nil returns that queue nothing.
SubmitOutcome(e, req, closed, full) ==
  CASE closed                                 -> "closed"
    [] ~closed /\ (e.st \in TerminalStatus \/ e.ret) -> "known"
    [] ~closed /\ e.st \notin TerminalStatus /\ ~e.ret /\ e.acc # NoReq ->
         IF e.acc = req THEN "same" ELSE "duplicate"
    [] OTHER -> IF full THEN "full" ELSE "queued"

SubmitOK(outcome) == outcome \in {"known", "same", "queued"}

=============================================================================
