-------------------------------- MODULE Escrow --------------------------------
(***************************************************************************)
(* The escrow of the coordinator for one task (internal/compute/           *)
(* coordinator.go, HandleServiceEscrow in handlers.go, AppendTaskCheckpoint *)
(* in internal/storage/task_journal.go and the recovery in server.New).    *)
(* Workers escalate a step they cannot hand over; the supervisor and the   *)
(* mesh events (Resumers) wake the task; the coordinator may restart.      *)
(*                                                                         *)
(* A copy of the task is known by the node that runs it and its step.      *)
(***************************************************************************)
EXTENDS TaskTable, FiniteSets

CONSTANTS
  Hosts,        \* the nodes that take part
  Keeper,       \* the coordinator
  Resumers,     \* goroutines in WakeupEscrowTasks
  LastStep,     \* steps are 1 .. LastStep, the first after the initial one
  MaxFaults     \* bound on failed calls and restarts of the coordinator

ASSUME EscrowAssumption ==
  /\ Hosts \subseteq Nodes /\ Keeper \in Hosts
  /\ IsFiniteSet(Hosts) /\ IsFiniteSet(Resumers)
  /\ LastStep \in Nat \ {0}
  /\ MaxFaults \in Nat

VARIABLES
  kept,    \* TaskTable entry of the task on the coordinator
  jrn,     \* its record: active status act, step and node, and status hist in the history
  escTask, \* step of the entry in escrowTasks, 0 for none
  run,     \* the step a node is running, 0 for none
  put,     \* progress of each node's escalation
  res,     \* progress of each resumer
  forks,   \* restarts, and calls that took effect and reported an error
  fails    \* calls that failed without effect

esVars == <<kept, jrn, escTask, run, put, res, forks, fails>>

EscSteps == 1 .. LastStep
IdleResumer == [pc |-> "idle", step |-> 0, tgt |-> NoNode, prev |-> NoNode, in |-> FALSE]

ESTypeOK ==
  /\ kept \in EntryOf(EscSteps)
  /\ jrn \in [act : {"none", "running", "escrow"}, step : {0} \cup EscSteps,
              node : Hosts \cup {NoNode}, hist : {"none"} \cup TerminalStatus]
  /\ escTask \in {0} \cup EscSteps
  /\ run \in [Hosts -> {0} \cup EscSteps]
  /\ put \in [Hosts -> {"none", "checked", "persisted", "stored", "refused"}]
  /\ res \in [Resumers -> [pc : {"idle", "found", "taken", "ready", "called", "back",
                                 "sent", "marked"},
                           step : {0} \cup EscSteps, tgt : Hosts \cup {NoNode},
                           prev : Hosts \cup {NoNode}, in : BOOLEAN]]
  /\ forks \in 0 .. MaxFaults /\ fails \in 0 .. MaxFaults

\* A worker runs the first step after the initial one; the requester registered it.
ESInit ==
  /\ \E w \in Hosts \ {Keeper} :
       /\ run = [n \in Hosts |-> IF n = w THEN 1 ELSE 0]
       /\ kept = RegisterOutgoingTask(NoTaskEntry, Keeper, {w})
  /\ jrn = [act |-> "none", step |-> 0, node |-> NoNode, hist |-> "none"]
  /\ escTask = 0
  /\ put = [n \in Hosts |-> "none"]
  /\ res = [i \in Resumers |-> IdleResumer]
  /\ forks = 0 /\ fails = 0

FaultLeft == forks + fails < MaxFaults

-----------------------------------------------------------------------------
\* AppendTaskCheckpoint refuses to leave a terminal status of the history.
CheckpointOK(j, s) == j.hist = "none" \/ j.hist = s

Checkpoint(j, s, k, n) ==
  IF ~CheckpointOK(j, s) THEN j
  ELSE IF s \in TerminalStatus THEN [act |-> "none", step |-> k, node |-> n, hist |-> s]
  ELSE [j EXCEPT !.act = s, !.step = k, !.node = n]

\* The checkpoint of AcceptTaskCallback, when the callback changed the status.
Recorded(old, new, j, n) ==
  IF new.st # old.st /\ new.st \in TerminalStatus THEN Checkpoint(j, new.st, j.step, n) ELSE j

-----------------------------------------------------------------------------
(* Workers.                                                                *)

\* A node ends the task and reports; the report of another node may be lost.
RunEnds(n) ==
  /\ run[n] # 0 /\ put[n] \in {"none", "refused"}
  /\ run' = [run EXCEPT ![n] = 0]
  /\ put' = [put EXCEPT ![n] = "none"]
  /\ \E s \in IF put[n] = "refused" THEN {"failed"} ELSE TerminalStatus :
       \/ /\ kept' = IF n = Keeper THEN SetTaskStatus(kept, s, FALSE)
                     ELSE AcceptTaskCallback(kept, n, s, FALSE)
          /\ jrn' = IF n = Keeper THEN Checkpoint(jrn, s, run[n], n)
                    ELSE Recorded(kept, kept', jrn, n)
       \/ n # Keeper /\ UNCHANGED <<kept, jrn>>
  /\ UNCHANGED <<escTask, res, forks, fails>>

\* A node that ran the task up to some step escalates it: HandleServiceEscrow up
\* to the release of taskStatusesMu.  The coordinator's own worker goes to
\* PutTaskInEscrow directly.
EscrowCheck(n) ==
  /\ run[n] # 0 /\ put[n] = "none"
  /\ put' = [put EXCEPT ![n] =
       IF n = Keeper \/ (kept.meta /\ Authorized(kept, n) /\ kept.st \notin TerminalStatus)
       THEN "checked" ELSE "refused"]
  /\ kept' = IF n = Keeper THEN [kept EXCEPT !.acc = NoReq] ELSE kept
  /\ \E k \in run[n] .. LastStep : run' = [run EXCEPT ![n] = k]
  /\ UNCHANGED <<jrn, escTask, res, forks, fails>>

\* PutTaskInEscrow: the checkpoint, unless the task is there with the same step.
EscrowPersist(n) ==
  /\ put[n] = "checked"
  /\ IF escTask = run[n] THEN put' = [put EXCEPT ![n] = "persisted"] /\ UNCHANGED jrn
     ELSE /\ jrn' = Checkpoint(jrn, "escrow", run[n], n)
          /\ put' = [put EXCEPT ![n] = IF CheckpointOK(jrn, "escrow") THEN "persisted"
                                       ELSE "refused"]
  /\ UNCHANGED <<kept, escTask, run, res, forks, fails>>

\* PutTaskInEscrow: the entry in escrowTasks.
EscrowStore(n) ==
  /\ put[n] = "persisted"
  /\ escTask' = run[n]
  /\ put' = [put EXCEPT ![n] = "stored"]
  /\ UNCHANGED <<kept, jrn, run, res, forks, fails>>

\* PutTaskInEscrow: the status.  The worker gives its copy up when the answer
\* arrives, and reports a failure when it is lost.
EscrowStatus(n) ==
  /\ put[n] = "stored"
  /\ kept' = SetTaskStatus(kept, "escrow", FALSE)
  /\ \/ run' = [run EXCEPT ![n] = 0] /\ put' = [put EXCEPT ![n] = "none"] /\ UNCHANGED forks
     \/ /\ n # Keeper /\ FaultLeft
        /\ forks' = forks + 1
        /\ put' = [put EXCEPT ![n] = "refused"]
        /\ UNCHANGED run
  /\ UNCHANGED <<jrn, escTask, res, fails>>

-----------------------------------------------------------------------------
(* ResumeEscrowTask.                                                       *)

\* The task is read and a candidate found.
ResumeFind(i) ==
  /\ res[i].pc = "idle" /\ escTask # 0
  /\ res' = [res EXCEPT ![i].pc = "found"]
  /\ UNCHANGED <<kept, jrn, escTask, run, put, forks, fails>>

\* Mutant of ResumeTake: the task is not looked up again under the lock.
ResumeTakeStale(i) ==
  /\ res[i].pc = "found"
  /\ escTask' = 0
  /\ \E m \in Hosts :
       res' = [res EXCEPT ![i] = [pc |-> "taken", step |-> IF escTask = 0 THEN 1 ELSE escTask,
                                  tgt |-> m, prev |-> kept.exp, in |-> FALSE]]
  /\ UNCHANGED <<kept, jrn, run, put, forks, fails>>

\* Mutant of ResumeTake: only a task whose status is escrow is resumed.
ResumeTakeEscrowOnly(i) ==
  /\ res[i].pc = "found"
  /\ IF escTask = 0 \/ kept.st # "escrow"
     THEN res' = [res EXCEPT ![i] = IdleResumer] /\ UNCHANGED escTask
     ELSE /\ escTask' = 0
          /\ \E m \in Hosts :
               res' = [res EXCEPT ![i] = [pc |-> "taken", step |-> escTask, tgt |-> m,
                                          prev |-> kept.exp, in |-> FALSE]]
  /\ UNCHANGED <<kept, jrn, run, put, forks, fails>>

\* The entry is deleted under the lock, if it is still there.  The candidate is
\* any node; the coordinator itself is one when it has the service.
ResumeTake(i) ==
  /\ res[i].pc = "found"
  /\ IF escTask = 0 THEN res' = [res EXCEPT ![i] = IdleResumer] /\ UNCHANGED escTask
     ELSE /\ escTask' = 0
          /\ \E m \in Hosts :
               res' = [res EXCEPT ![i] = [pc |-> "taken", step |-> escTask, tgt |-> m,
                                          prev |-> kept.exp, in |-> FALSE]]
  /\ UNCHANGED <<kept, jrn, run, put, forks, fails>>

\* The target becomes the expected producer; DispatchTask registers it as well.
ResumeMeta(i) ==
  /\ res[i].pc = "taken"
  /\ LET e == [Delegate(kept, {res[i].tgt}) EXCEPT !.exp = res[i].tgt]
     IN kept' = IF res[i].tgt = Keeper THEN e
                ELSE RegisterOutgoingTask(e, res[i].tgt, {res[i].tgt})
  /\ res' = [res EXCEPT ![i].pc = "ready"]
  /\ UNCHANGED <<jrn, escTask, run, put, forks, fails>>

\* SubmitTask on the coordinator itself; its worker starts at once.
ResumeLocal(i) ==
  /\ res[i].pc = "ready" /\ res[i].tgt = Keeper
  /\ LET e == [kept EXCEPT !.acc = NoReq]
         out == SubmitOutcome(e, res[i].step, FALSE, run[Keeper] # 0)
     IN /\ kept' = IF out = "queued" THEN [e EXCEPT !.acc = res[i].step] ELSE e
        /\ run' = IF out = "queued" THEN [run EXCEPT ![Keeper] = res[i].step] ELSE run
        /\ res' = [res EXCEPT ![i].pc = IF SubmitOK(out) THEN "sent" ELSE "back"]
  /\ UNCHANGED <<jrn, escTask, put, forks, fails>>

\* The call of DispatchTask reaches the worker, or not.
ResumeCall(i) ==
  /\ res[i].pc = "ready" /\ res[i].tgt # Keeper
  /\ \/ /\ run[res[i].tgt] = 0
        /\ run' = [run EXCEPT ![res[i].tgt] = res[i].step]
        /\ res' = [res EXCEPT ![i].pc = "called", ![i].in = TRUE]
        /\ UNCHANGED fails
     \/ /\ FaultLeft
        /\ fails' = fails + 1
        /\ res' = [res EXCEPT ![i].pc = "called"]
        /\ UNCHANGED run
  /\ UNCHANGED <<kept, jrn, escTask, put, forks>>

\* The call returns; MarkTaskAsFailed after an error.
ResumeReturn(i) ==
  /\ res[i].pc = "called"
  /\ \/ res[i].in /\ res' = [res EXCEPT ![i].pc = "sent"] /\ UNCHANGED <<kept, forks>>
     \/ /\ res[i].in => FaultLeft
        /\ forks' = IF res[i].in THEN forks + 1 ELSE forks
        /\ kept' = SetTaskStatus(kept, "failed", FALSE)
        /\ res' = [res EXCEPT ![i].pc = "back"]
  /\ UNCHANGED <<jrn, escTask, run, put, fails>>

\* Mutant of ResumeRevert: the entry is not put back.
ResumeRevertStatus(i) ==
  /\ res[i].pc = "back"
  /\ kept' = SetTaskStatus([kept EXCEPT !.exp = IF kept.meta THEN res[i].prev ELSE @],
                           "escrow", FALSE)
  /\ res' = [res EXCEPT ![i] = IdleResumer]
  /\ UNCHANGED <<jrn, escTask, run, put, forks, fails>>

\* revertEscrow: the entry, then the metadata and the status.  The set of
\* delegated producers is shared with the saved metadata, so it stays.
ResumeRevert(i) ==
  /\ res[i].pc = "back"
  /\ escTask' = res[i].step
  /\ kept' = SetTaskStatus([kept EXCEPT !.exp = IF kept.meta THEN res[i].prev ELSE @],
                           "escrow", FALSE)
  /\ res' = [res EXCEPT ![i] = IdleResumer]
  /\ UNCHANGED <<jrn, run, put, forks, fails>>

\* After a success: the status, then the checkpoint.
ResumeMark(i) ==
  /\ res[i].pc = "sent"
  /\ kept' = SetTaskStatus([kept EXCEPT !.acc = IF res[i].tgt = Keeper THEN @ ELSE NoReq],
                           "running", FALSE)
  /\ res' = [res EXCEPT ![i].pc = "marked"]
  /\ UNCHANGED <<jrn, escTask, run, put, forks, fails>>

ResumeRecord(i) ==
  /\ res[i].pc = "marked"
  /\ jrn' = Checkpoint(jrn, "running", res[i].step, Keeper)
  /\ res' = [res EXCEPT ![i] = IdleResumer]
  /\ UNCHANGED <<kept, escTask, run, put, forks, fails>>

-----------------------------------------------------------------------------
\* The status expires (pendingTaskStatusTTL) and is retired as a failure.
Expire ==
  /\ kept.st \in {"pending", "running", "escrow"}
  /\ kept' = Retire(kept)
  /\ UNCHANGED <<jrn, escTask, run, put, res, forks, fails>>

\* RestoreEscrowTask: the status entry of an active escrow record.
RestoreEscrowTask(rec) == Delegate(SetTaskStatus(NoTaskEntry, "escrow", FALSE), {rec.node})

\* A crash, and server.New: an escrow record is restored, another active
\* record is closed as failed.  Calls in progress end with an error.
Restart ==
  /\ FaultLeft
  /\ forks' = forks + 1
  /\ escTask' = IF jrn.act = "escrow" THEN jrn.step ELSE 0
  /\ kept' = IF jrn.act = "escrow" THEN RestoreEscrowTask(jrn) ELSE NoTaskEntry
  /\ jrn' = IF jrn.act = "running" THEN Checkpoint(jrn, "failed", jrn.step, jrn.node) ELSE jrn
  /\ run' = [run EXCEPT ![Keeper] = 0]
  /\ put' = [n \in Hosts |-> IF n = Keeper \/ put[n] = "none" THEN "none" ELSE "refused"]
  /\ res' = [i \in Resumers |-> IdleResumer]
  /\ UNCHANGED fails

ESNext ==
  \/ \E n \in Hosts :
       \/ RunEnds(n) \/ EscrowCheck(n) \/ EscrowPersist(n)
       \/ EscrowStore(n) \/ EscrowStatus(n)
  \/ \E i \in Resumers :
       \/ ResumeFind(i) \/ ResumeTake(i) \/ ResumeMeta(i) \/ ResumeLocal(i)
       \/ ResumeCall(i) \/ ResumeReturn(i) \/ ResumeRevert(i)
       \/ ResumeMark(i) \/ ResumeRecord(i)
  \/ Expire \/ Restart

ESSpec == ESInit /\ [][ESNext]_esVars

\* The supervisor wakes on a ticker, a goroutine that took the task goes on,
\* and every call returns within its timeout.
ESFairness ==
  /\ \A i \in Resumers :
       WF_esVars(\/ ResumeFind(i) \/ ResumeTake(i) \/ ResumeMeta(i) \/ ResumeLocal(i)
         \/ ResumeCall(i) \/ ResumeReturn(i) \/ ResumeRevert(i)
         \/ ResumeMark(i) \/ ResumeRecord(i))
  /\ \A n \in Hosts :
       WF_esVars(\/ RunEnds(n) \/ EscrowPersist(n) \/ EscrowStore(n) \/ EscrowStatus(n))

-----------------------------------------------------------------------------
Taken(i) == \/ res[i].pc \in {"taken", "ready", "back"}
            \/ res[i].pc = "called" /\ ~res[i].in

Busy == \/ \E n \in Hosts : put[n] \in {"checked", "persisted", "stored"}
        \/ \E i \in Resumers : res[i].pc \notin {"idle", "found"}

\* However many goroutines wake the task while workers escalate it and calls
\* fail, it is dispatched once per escalation: copies that can still run, wait
\* in escrow or are in the hands of a resumer exceed one only by calls whose
\* answer was lost and by restarts.  And it is not forgotten: when its active
\* record says escrow and it is open, it is in escrowTasks or someone has it
\* (ResumeEscrowTask, PutTaskInEscrow, revertEscrow, RestoreEscrowTask).
EscrowKept ==
  /\ Cardinality({n \in Hosts : run[n] # 0 /\ put[n] \notin {"stored", "refused"}})
       + Cardinality({i \in Resumers : Taken(i)}) + (IF escTask = 0 THEN 0 ELSE 1)
     <= 1 + forks
  /\ jrn.act = "escrow" /\ Observed(kept) \notin TerminalStatus /\ ~Busy =>
       escTask # 0 \/ \E n \in Hosts : run[n] # 0

\* A dispatch that fails leaves the task as it was: as
\* pipeline_p2p_failover_test.go says, "task status must revert to escrow"
\* (the error paths of ResumeEscrowTask).
RevertRestoresEscrow ==
  [][\A i \in Resumers : ResumeRevert(i) => kept'.st = "escrow"]_esVars

\* A task in escrow does not stay there for ever: calls fail only so often, so
\* some resumer hands it over, or it is gone (StartEscrowSupervisor).
EscrowLeaves ==
  (escTask # 0) ~> (\/ \E i \in Resumers : res[i].pc = "sent" \/ res[i].in
                    \/ escTask = 0 /\ \A i \in Resumers : ~Taken(i))
=============================================================================
