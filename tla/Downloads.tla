------------------------------ MODULE Downloads -------------------------------
(***************************************************************************)
(* Blob downloads of one node: durable intents and process-local           *)
(* reservations (internal/storage/storage_engine.go), the bounded queue    *)
(* and its workers (internal/server/vfs_sync.go, server.go), the handlers  *)
(* that ask for a download (HandleNotification, the manifest of a sync)    *)
(* and the reconciliation that runs at start and every 200 ms.             *)
(*                                                                         *)
(* A file is its name and its version: a newer version, or a tombstone,    *)
(* supersedes it.  Metadata writes and the commit of a blob exclude each   *)
(* other (mutationMu); the checks of handlers and of the reconciliation    *)
(* take no lock, so what they read may be old when they act on it.         *)
(***************************************************************************)
EXTENDS Naturals, Sequences, FiniteSets

CONSTANTS
  Names,
  LastVersion,    \* bound: versions a name goes through
  Handlers,       \* concurrent requests from peers
  Workers,        \* download workers
  QueueCap,       \* capacity of downloadQueue
  MaxTries,       \* peers a worker tries for one job, the source included
  MaxCrashes      \* bound: crashes

ASSUME DownloadsAssumption ==
  /\ LastVersion \in Nat /\ QueueCap \in Nat \ {0} /\ MaxTries \in Nat \ {0} /\ MaxCrashes \in Nat
  /\ "reconcile" \notin Handlers

Versions == 1..LastVersion
Jobs     == Names \X Versions

VARIABLES
  cur,        \* the current version of each name; 0: unknown
  subs,       \* bucket subscriptions
  blobs,      \* the files whose content is on disk
  intent,     \* bucket download_intents: the version to download; 0: none
  active,     \* activeDownloads: the reserved version and who reserved it
  queue,      \* downloadQueue
  mu,         \* the worker that holds mutationMu across its steps
  worker,     \* what each worker does
  handler,    \* what each handler does
  rec,        \* the reconciliation: what it listed and where it is
  crashes,
  quarantined,  \* history: wanted files whose content was rejected
  misread       \* history: wanted files whose intent was completed on an outdated read

dlVars == <<cur, subs, blobs, intent, active, queue, mu, worker, handler, rec, crashes, quarantined,
          misread>>
mdVars   == <<cur, subs>>
histVars == <<crashes, quarantined, misread>>

NoJob       == <<CHOOSE n \in Names : TRUE, 0>>
NotActive   == [ver |-> 0, by |-> "none"]
IdleWorker  == [pc |-> "idle", job |-> NoJob, tries |-> 0, bad |-> FALSE, made |-> FALSE]
IdleHandler == [pc |-> "idle", job |-> NoJob]
IdleRec     == [pc |-> "idle", todo |-> {}, job |-> NoJob]

DLTypeOK ==
  /\ cur \in [Names -> 0..LastVersion]
  /\ subs \subseteq Names
  /\ blobs \subseteq Jobs
  /\ intent \in [Names -> 0..LastVersion]
  /\ active \in [Names -> [ver : 0..LastVersion, by : Handlers \cup {"none", "reconcile"}]]
  /\ queue \in Seq(Jobs) /\ Len(queue) <= QueueCap
  /\ mu \in Workers \cup {"free"}
  /\ worker \in [Workers -> [pc : {"idle", "fetch", "accept", "discard", "end"},
                             job : Jobs \cup {NoJob}, tries : 0..MaxTries, bad : BOOLEAN,
                             made : BOOLEAN]]
  /\ handler \in [Handlers -> [pc : {"idle", "persist", "reserve", "callback"},
                               job : Jobs \cup {NoJob}]]
  /\ rec \in [pc : {"idle", "scan", "complete", "reserve", "callback"}, todo : SUBSET Jobs,
              job : Jobs \cup {NoJob}]
  /\ crashes \in 0..MaxCrashes
  /\ quarantined \subseteq Jobs
  /\ misread \subseteq Jobs
  /\ \A n \in Names : intent[n] <= cur[n] /\ active[n].ver <= cur[n]

DLInit ==
  /\ cur = [n \in Names |-> 0]
  /\ subs = {}
  /\ blobs = {}
  /\ intent = [n \in Names |-> 0]
  /\ active = [n \in Names |-> NotActive]
  /\ queue = <<>>
  /\ mu = "free"
  /\ worker = [w \in Workers |-> IdleWorker]
  /\ handler = [h \in Handlers |-> IdleHandler]
  /\ rec = IdleRec
  /\ crashes = 0
  /\ quarantined = {}
  /\ misread = {}

\* The file is subscribed and current.
Wanted(job) == job[1] \in subs /\ cur[job[1]] = job[2]

\* releaseDownloadIntent: a reservation of exactly this file is dropped.
Released(act, job) ==
  IF act[job[1]].ver = job[2] THEN [act EXCEPT ![job[1]] = NotActive] ELSE act

\* completeDownloadIntent: the intent of exactly this file, and its reservation.
Complete(job) ==
  /\ intent' = [intent EXCEPT ![job[1]] = IF @ = job[2] THEN 0 ELSE @]
  /\ active' = Released(active, job)

-----------------------------------------------------------------------------
\* The metadata that others change, under mutationMu.

\* The histories are about the files wanted now.
Forget(n) ==
  /\ quarantined' = {j \in quarantined : j[1] # n}
  /\ misread' = {j \in misread : j[1] # n}
  /\ UNCHANGED crashes

\* A newer version is applied; the blob of the old one is collected.
Advance(n) ==
  /\ mu = "free"
  /\ cur[n] < LastVersion
  /\ cur' = [cur EXCEPT ![n] = @ + 1]
  /\ blobs' = blobs \ {<<n, cur[n]>>}
  /\ Forget(n)
  /\ UNCHANGED <<subs, intent, active, queue, mu, worker, handler, rec>>

Subscribe(n) ==
  /\ mu = "free"
  /\ n \notin subs
  /\ subs' = subs \cup {n}
  /\ UNCHANGED <<cur, blobs, intent, active, queue, mu, worker, handler, rec, histVars>>

\* SetSubscription off keeps the blob, DeleteLocalCache drops it.
Unsubscribe(n) ==
  /\ mu = "free"
  /\ n \in subs
  /\ subs' = subs \ {n}
  /\ blobs' \in {blobs, blobs \ {<<n, cur[n]>>}}
  /\ Forget(n)
  /\ UNCHANGED <<cur, intent, active, queue, mu, worker, handler, rec>>

-----------------------------------------------------------------------------
\* A notification or a manifest entry that names the current file.

\* HandleNotification, ProcessRemoteManifestE: current, subscribed, and no blob
\* (a version that a manifest has just applied has none yet).
HandlerCheck(h, n) ==
  /\ handler[h].pc = "idle"
  /\ cur[n] # 0
  /\ n \in subs
  /\ <<n, cur[n]>> \notin blobs
  /\ handler' = [handler EXCEPT ![h] = [pc |-> "persist", job |-> <<n, cur[n]>>]]
  /\ UNCHANGED <<mdVars, blobs, intent, active, queue, mu, worker, rec, histVars>>

\* requestRemoteDownload: the file is checked again in the transaction.
HandlerPersist(h) ==
  LET job == handler[h].job
  IN  /\ handler[h].pc = "persist"
      /\ mu = "free"
      /\ IF Wanted(job)
         THEN /\ intent' = [intent EXCEPT ![job[1]] = job[2]]
              /\ handler' = [handler EXCEPT ![h].pc = "reserve"]
         ELSE /\ handler' = [handler EXCEPT ![h] = IdleHandler]
              /\ UNCHANGED intent
      /\ UNCHANGED <<mdVars, blobs, active, queue, mu, worker, rec, histVars>>

\* reserveDownload by process who: a new token unless this file is reserved.
Reserved(job) == active[job[1]].ver = job[2]

Reserve(job, who) == active' = [active EXCEPT ![job[1]] = [ver |-> job[2], by |-> who]]

HandlerReserve(h) ==
  LET job == handler[h].job
  IN  /\ handler[h].pc = "reserve"
      /\ IF Reserved(job)
         THEN /\ handler' = [handler EXCEPT ![h] = IdleHandler]
              /\ UNCHANGED active
         ELSE /\ Reserve(job, h)
              /\ handler' = [handler EXCEPT ![h].pc = "callback"]
      /\ UNCHANGED <<mdVars, blobs, intent, queue, mu, worker, rec, histVars>>

\* Mutant of HandlerEnqueue: the capacity of the queue is not looked at.
HandlerEnqueueUnbounded(h) ==
  /\ handler[h].pc = "callback"
  /\ queue' = Append(queue, handler[h].job)
  /\ handler' = [handler EXCEPT ![h] = IdleHandler]
  /\ UNCHANGED <<mdVars, blobs, intent, active, mu, worker, rec, histVars>>

\* enqueueDownload, when there is room.
HandlerEnqueue(h) ==
  /\ handler[h].pc = "callback"
  /\ Len(queue) < QueueCap
  /\ queue' = Append(queue, handler[h].job)
  /\ handler' = [handler EXCEPT ![h] = IdleHandler]
  /\ UNCHANGED <<mdVars, blobs, intent, active, mu, worker, rec, histVars>>

\* rollbackDownloadReservation: only the caller's own token is dropped.
Rollback(job, who) ==
  active' = IF active[job[1]].by = who THEN [active EXCEPT ![job[1]] = NotActive] ELSE active

\* The queue is full, or the source is not a known peer.
HandlerEnqueueFails(h) ==
  /\ handler[h].pc = "callback"
  /\ Rollback(handler[h].job, h)
  /\ handler' = [handler EXCEPT ![h] = IdleHandler]
  /\ UNCHANGED <<mdVars, blobs, intent, queue, mu, worker, rec, histVars>>

-----------------------------------------------------------------------------
\* downloadWorker.

WorkerTake(w) ==
  /\ worker[w].pc = "idle"
  /\ queue # <<>>
  /\ queue' = Tail(queue)
  /\ worker' = [worker EXCEPT ![w] =
       [IdleWorker EXCEPT !.pc = "fetch", !.job = Head(queue), !.tries = 1]]
  /\ UNCHANGED <<mdVars, blobs, intent, active, mu, handler, rec, histVars>>

\* After a failed attempt: the next peer, or the end of the job.
NextTry(w, bad) ==
  worker' = [worker EXCEPT
    ![w].pc    = IF worker[w].tries < MaxTries THEN "fetch" ELSE "end",
    ![w].tries = IF worker[w].tries < MaxTries THEN @ + 1 ELSE @,
    ![w].bad   = @ \/ bad,
    ![w].made  = FALSE]

\* The peer cannot be reached, or the content cannot be staged: only the second
\* releases the reservation at once.
FetchFails(w) ==
  /\ worker[w].pc = "fetch"
  /\ active' \in {active, Released(active, worker[w].job)}
  /\ NextTry(w, FALSE)
  /\ UNCHANGED <<mdVars, blobs, intent, queue, mu, handler, rec, histVars>>

\* StoreRemoteBlob: the content does not have the hash of the file.
FetchMismatch(w) ==
  /\ worker[w].pc = "fetch"
  /\ active' = Released(active, worker[w].job)
  /\ NextTry(w, TRUE)
  /\ UNCHANGED <<mdVars, blobs, intent, queue, mu, handler, rec, histVars>>

\* StoreRemoteBlob: the verified content becomes a blob, under mutationMu.
StoreCommit(w) ==
  LET job == worker[w].job
  IN  /\ worker[w].pc = "fetch"
      /\ mu = "free"
      /\ mu' = w
      /\ blobs' = blobs \cup {job}
      /\ worker' = [worker EXCEPT
           ![w].pc   = IF cur[job[1]] = job[2] THEN "accept" ELSE "discard",
           ![w].made = job \notin blobs]
      /\ UNCHANGED <<mdVars, intent, active, queue, handler, rec, histVars>>

StoreAccept(w) ==
  /\ worker[w].pc = "accept"
  /\ Complete(worker[w].job)
  /\ mu' = "free"
  /\ worker' = [worker EXCEPT ![w] = IdleWorker]
  /\ UNCHANGED <<mdVars, blobs, queue, handler, rec, histVars>>

\* The index cannot be read: compensatePhysicalBlob undoes a blob this commit
\* made, which the reconciliation may have taken for the downloaded one.
StoreLookupFails(w) ==
  LET job == worker[w].job
  IN  /\ worker[w].pc \in {"accept", "discard"}
      /\ blobs' = IF worker[w].made THEN blobs \ {job} ELSE blobs
      /\ misread' = IF worker[w].made /\ Wanted(job) /\ intent[job[1]] # job[2]
                    THEN misread \cup {job} ELSE misread
      /\ mu' = "free"
      /\ NextTry(w, FALSE)
      /\ UNCHANGED <<mdVars, intent, active, queue, handler, rec, crashes, quarantined>>

\* The accepted file's intent could not be removed: the attempt counts as failed.
StoreAcceptFails(w) ==
  /\ worker[w].pc = "accept"
  /\ mu' = "free"
  /\ NextTry(w, FALSE)
  /\ UNCHANGED <<mdVars, blobs, intent, active, queue, handler, rec, histVars>>

\* The name moved on: the blob goes, and the intent if its removal succeeds.
StoreDiscard(w) ==
  /\ worker[w].pc = "discard"
  /\ blobs' = blobs \ {worker[w].job}
  /\ Complete(worker[w].job) \/ UNCHANGED <<intent, active>>
  /\ mu' = "free"
  /\ worker' = [worker EXCEPT ![w] = IdleWorker]
  /\ UNCHANGED <<mdVars, queue, handler, rec, histVars>>

\* Mutant of WorkerEnd: a failed attempt keeps its reservation.
WorkerEndKeepsReservation(w) ==
  LET job == worker[w].job
  IN  /\ worker[w].pc = "end"
      /\ IF worker[w].bad
         THEN /\ Complete(job) \/ UNCHANGED <<intent, active>>
              /\ quarantined' = IF Wanted(job) THEN quarantined \cup {job} ELSE quarantined
         ELSE UNCHANGED <<intent, active, quarantined>>
      /\ worker' = [worker EXCEPT ![w] = IdleWorker]
      /\ UNCHANGED <<mdVars, blobs, queue, mu, handler, rec, crashes, misread>>

\* Mutant of WorkerEnd: a failed attempt removes the durable intent.
WorkerEndDropsIntent(w) ==
  LET job == worker[w].job
  IN  /\ worker[w].pc = "end"
      /\ Complete(job)
      /\ quarantined' = IF worker[w].bad /\ Wanted(job) THEN quarantined \cup {job} ELSE quarantined
      /\ worker' = [worker EXCEPT ![w] = IdleWorker]
      /\ UNCHANGED <<mdVars, blobs, queue, mu, handler, rec, crashes, misread>>

\* No peer had the content.  QuarantineCorruptDownload if one sent a wrong one
\* (its transaction may fail), else ReleaseDownloadAttempt.
WorkerEnd(w) ==
  LET job == worker[w].job
  IN  /\ worker[w].pc = "end"
      /\ IF worker[w].bad
         THEN /\ Complete(job) \/ UNCHANGED <<intent, active>>
              /\ quarantined' = IF Wanted(job) THEN quarantined \cup {job} ELSE quarantined
         ELSE /\ active' = Released(active, job)
              /\ UNCHANGED <<intent, quarantined>>
      /\ worker' = [worker EXCEPT ![w] = IdleWorker]
      /\ UNCHANGED <<mdVars, blobs, queue, mu, handler, rec, crashes, misread>>

-----------------------------------------------------------------------------
\* ReconcileDownloadIntents.

RecList ==
  /\ rec.pc = "idle"
  /\ rec' = [IdleRec EXCEPT !.pc = "scan", !.todo = {j \in Jobs : intent[j[1]] = j[2]}]
  /\ UNCHANGED <<mdVars, blobs, intent, active, queue, mu, worker, handler, histVars>>

\* The next listed intent: obsolete or satisfied ones are completed.
RecRead(job) ==
  /\ rec.pc = "scan"
  /\ job \in rec.todo
  /\ rec' = [pc |-> IF Wanted(job) /\ job \notin blobs THEN "reserve" ELSE "complete",
             todo |-> rec.todo \ {job}, job |-> job]
  /\ UNCHANGED <<mdVars, blobs, intent, active, queue, mu, worker, handler, histVars>>

RecNext == rec' = [rec EXCEPT !.pc = "scan", !.job = NoJob]

RecComplete ==
  /\ rec.pc = "complete"
  /\ Complete(rec.job)
  /\ misread' = IF Wanted(rec.job) /\ rec.job \notin blobs THEN misread \cup {rec.job} ELSE misread
  /\ RecNext
  /\ UNCHANGED <<mdVars, blobs, queue, mu, worker, handler, crashes, quarantined>>

\* A read, or the removal of the intent, failed: it is left to the next pass.
RecSkip ==
  /\ \/ /\ rec.pc = "scan"
        /\ \E job \in rec.todo : rec' = [rec EXCEPT !.todo = @ \ {job}]
     \/ /\ rec.pc = "complete"
        /\ RecNext
  /\ UNCHANGED <<mdVars, blobs, intent, active, queue, mu, worker, handler, histVars>>

\* enqueueDownloadIntent.
RecReserve ==
  /\ rec.pc = "reserve"
  /\ IF Reserved(rec.job)
     THEN RecNext /\ UNCHANGED active
     ELSE Reserve(rec.job, "reconcile") /\ rec' = [rec EXCEPT !.pc = "callback"]
  /\ UNCHANGED <<mdVars, blobs, intent, queue, mu, worker, handler, histVars>>

RecEnqueue ==
  /\ rec.pc = "callback"
  /\ Len(queue) < QueueCap
  /\ queue' = Append(queue, rec.job)
  /\ RecNext
  /\ UNCHANGED <<mdVars, blobs, intent, active, mu, worker, handler, histVars>>

RecEnqueueFails ==
  /\ rec.pc = "callback"
  /\ Rollback(rec.job, "reconcile")
  /\ RecNext
  /\ UNCHANGED <<mdVars, blobs, intent, queue, mu, worker, handler, histVars>>

RecDone ==
  /\ rec.pc = "scan"
  /\ rec.todo = {}
  /\ rec' = IdleRec
  /\ UNCHANGED <<mdVars, blobs, intent, active, queue, mu, worker, handler, histVars>>

-----------------------------------------------------------------------------
\* Reservations, queue and workers die with the process; intents do not.
Crash ==
  /\ crashes < MaxCrashes
  /\ crashes' = crashes + 1
  /\ active' = [n \in Names |-> NotActive]
  /\ queue' = <<>>
  /\ mu' = "free"
  /\ worker' = [w \in Workers |-> IdleWorker]
  /\ handler' = [h \in Handlers |-> IdleHandler]
  /\ rec' = IdleRec
  /\ UNCHANGED <<mdVars, blobs, intent, quarantined, misread>>

WorkerStep(w) ==
  \/ FetchFails(w) \/ FetchMismatch(w) \/ StoreCommit(w)
  \/ StoreAccept(w) \/ StoreLookupFails(w) \/ StoreAcceptFails(w) \/ StoreDiscard(w) \/ WorkerEnd(w)

HandlerStep(h) ==
  HandlerPersist(h) \/ HandlerReserve(h) \/ HandlerEnqueue(h) \/ HandlerEnqueueFails(h)

RecStep ==
  \/ RecList \/ RecComplete \/ RecSkip \/ RecReserve \/ RecEnqueue \/ RecEnqueueFails \/ RecDone
  \/ \E job \in rec.todo : RecRead(job)

DLNext ==
  \/ \E n \in Names : Advance(n) \/ Subscribe(n) \/ Unsubscribe(n)
  \/ \E h \in Handlers, n \in Names : HandlerCheck(h, n)
  \/ \E h \in Handlers : HandlerStep(h)
  \/ \E w \in Workers : WorkerTake(w) \/ WorkerStep(w)
  \/ RecStep
  \/ Crash

DLSpec == DLInit /\ [][DLNext]_dlVars

(***************************************************************************)
(* Every goroutine that can run does (WF).  A worker gets mutationMu, and  *)
(* a file that is fetched again and again is in the end fetched and its    *)
(* intent removed (SF); whoever finds room in the queue again and again,   *)
(* because the workers drain it, in the end puts a job in: the source of a *)
(* request is a known peer in the end.  The reconciliation's reads do not  *)
(* always fail.                                                            *)
(***************************************************************************)
DLFairness ==
  /\ \A w \in Workers :
       /\ WF_dlVars(WorkerTake(w) \/ WorkerStep(w))
       /\ SF_dlVars(StoreCommit(w))
       /\ SF_dlVars(StoreAccept(w))
  /\ \A h \in Handlers : WF_dlVars(HandlerStep(h)) /\ SF_dlVars(HandlerEnqueue(h))
  /\ WF_dlVars(RecStep)
  /\ SF_dlVars(\E job \in rec.todo : RecRead(job))
  /\ SF_dlVars(RecEnqueue)

DLFairSpec == DLSpec /\ DLFairness

-----------------------------------------------------------------------------
\* Somebody is going to work on the job: it is queued, or a worker has it, or
\* the process that reserved it is about to put it in the queue.
Carried(job) ==
  \/ \E i \in 1..Len(queue) : queue[i] = job
  \/ \E w \in Workers : worker[w].pc # "idle" /\ worker[w].job = job
  \/ \E h \in Handlers : handler[h].pc = "callback" /\ handler[h].job = job
  \/ rec.pc = "callback" /\ rec.job = job

(***************************************************************************)
(* A reservation never blocks a download that nobody does: while the       *)
(* current file of a name is reserved, some job for it is under way.       *)
(* Otherwise reserveDownload would refuse every later request for it until *)
(* a restart.  (reserveDownload, rollbackDownloadReservation and the       *)
(* releases of StoreRemoteBlob and downloadWorker.)                        *)
(***************************************************************************)
NoStrandedReservation ==
  \A n \in Names : active[n].ver # 0 /\ active[n].ver = cur[n] => Carried(<<n, active[n].ver>>)

(***************************************************************************)
(* A requested download is done in the end: the blob arrives, unless the   *)
(* file is superseded or unsubscribed, its content is rejected, or the     *)
(* reconciliation drops the intent on an outdated read of the subscription *)
(* or of a blob that is undone (misread).  Failed fetches, a full queue,   *)
(* duplicated jobs and a crash do not lose it.                             *)
(***************************************************************************)
IntentsSettle ==
  \A j \in Jobs :
    (intent[j[1]] = j[2]) ~> (j \in blobs \/ ~Wanted(j) \/ j \in quarantined \cup misread)

=============================================================================
