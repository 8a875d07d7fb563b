------------------------------- MODULE Storage --------------------------------
(***************************************************************************)
(* StorageEngine of one node (internal/storage): the VFS index, the        *)
(* subscriptions, the content-addressed blobs on disk, the durable queue   *)
(* of blobs to collect, and the task records that hold blobs.              *)
(*                                                                         *)
(* Metadata lives in bbolt, where every Update is one atomic durable step; *)
(* a blob is a file.  An operation that holds mutationMu is a sequence of  *)
(* such steps, and pc says where its holder is.  Task checkpoints and      *)
(* SaveVerifiedPhysicalBlob do not take mutationMu and interleave with the *)
(* holder's steps; a crash may happen between any two of them, and the     *)
(* restart sweeps the queue before anything else takes the lock.           *)
(*                                                                         *)
(* The write-ahead gossip around local mutations is module Outbox;         *)
(* download intents, reservations and workers are module Downloads.        *)
(***************************************************************************)
EXTENDS VFSOrder, FiniteSets

CONSTANTS
  UserNames,      \* logical names users and peers write
  StageName,      \* StageName[h]: the name stage/<h>/<base> of a staged output
  Hashes,         \* content hashes
  Tasks,          \* task identifiers
  TaskHashes,     \* hashes that task payloads and outputs may mention
  MaxVersion      \* bound: no entry goes beyond this version

Names == UserNames \cup {StageName[h] : h \in DOMAIN StageName}

ASSUME StorageAssumption ==
  /\ UserNames \subseteq Nat \ {0}
  /\ Hashes \subseteq Nat \ {NoHash}
  /\ StageName \in [DOMAIN StageName -> Nat \ {0}]
  /\ DOMAIN StageName \subseteq Hashes
  /\ TaskHashes \subseteq Hashes
  /\ MaxVersion \in Nat

VARIABLES
  index,      \* bucket vfs_index: the entry of every name
  subs,       \* bucket subscriptions
  blobs,      \* the CAS directory: hashes whose file is present and verified
  pending,    \* bucket pending_blob_gc
  tasks,      \* buckets tasks_active, tasks_history and tasks_journal
  pc,         \* what the holder of mutationMu does next; "free": nobody holds it
  op,         \* the entry the holder works on
  created,    \* the holder's Commit made the blob file
  doomed,     \* sweep: queued hashes still to delete
  done,       \* sweep: queued hashes that are dealt with
  stored,     \* history: names whose current blob was saved or downloaded here
  owed        \* history: present blobs whose last live entry was superseded

mdVars   == <<index, subs, pending>>
lockVars == <<pc, op, created, doomed, done>>
vars     == <<index, subs, blobs, pending, tasks, pc, op, created, doomed, done, stored, owed>>

\* The size of content is a function of its hash.
LiveEntry(n, h, v) ==
  [name |-> n, version |-> v, deleted |-> FALSE, hash |-> h, size |-> h]

\* The entries peers hold: a staging name is only ever used with its own content.
Entries ==
  LET versioned(n, h) == {LiveEntry(n, h, v) : v \in 1..MaxVersion}
      live == UNION ({versioned(n, h) : n \in UserNames, h \in Hashes} \cup
                     {versioned(StageName[h], h) : h \in DOMAIN StageName})
  IN  live \cup {[e EXCEPT !.deleted = TRUE] : e \in live}

LiveNames(h) == {n \in Names : Live(index[n]) /\ index[n].hash = h}

-----------------------------------------------------------------------------
(***************************************************************************)
(* Task records, projected to the blob hashes they mention: payload and    *)
(* step outputs of the active record, final outputs of the history record, *)
(* outputs of the non-terminal journal records (inter) and of the terminal *)
(* ones (finals).                                                          *)
(***************************************************************************)
NoTask == [phase |-> "none", payload |-> {}, outs |-> {}, final |-> {}, inter |-> {}, finals |-> {}]

TaskType ==
  [phase : {"none", "active", "completed", "failed"}, payload : SUBSET Hashes, outs : SUBSET Hashes,
   final : SUBSET Hashes, inter : SUBSET Hashes, finals : SUBSET Hashes]

Terminal(t) == tasks[t].phase \in {"completed", "failed"}

\* TaskRecord.BlobHashes of the active tasks.
ActiveTaskHashes ==
  UNION {tasks[t].payload \cup tasks[t].outs : t \in {u \in Tasks : tasks[u].phase = "active"}}

\* Final outputs and payloads of the history records.
HistoryHashes ==
  UNION {tasks[t].payload \cup tasks[t].final : t \in {u \in Tasks : Terminal(u)}}

\* The hashes sweepPendingBlobGCLocked finds referenced in its View.
Referenced ==
  {h \in Hashes : LiveNames(h) # {}} \cup ActiveTaskHashes \cup HistoryHashes

-----------------------------------------------------------------------------
TypeOK ==
  /\ index \in [Names -> EntryType]
  /\ \A n \in Names : Exists(index[n]) => index[n].name = n /\ index[n].hash \in Hashes
  /\ subs \subseteq Names
  /\ blobs \subseteq Hashes
  /\ pending \subseteq Hashes
  /\ tasks \in [Tasks -> TaskType]
  /\ pc \in {"free", "save", "stage", "store", "uncache", "sweep", "delete"}
  /\ op \in EntryType
  /\ pc \in {"save", "stage", "store", "uncache"} => op.name \in Names /\ op.hash \in Hashes
  /\ created \in BOOLEAN
  /\ doomed \subseteq Hashes
  /\ done \subseteq Hashes
  /\ stored \subseteq Names
  /\ owed \subseteq Hashes

Init ==
  /\ index = [n \in Names |-> NoEntry]
  /\ subs = {}
  /\ blobs = {}
  /\ pending = {}
  /\ tasks = [t \in Tasks |-> NoTask]
  /\ pc = "free"
  /\ op = NoEntry
  /\ created = FALSE
  /\ doomed = {}
  /\ done = {}
  /\ stored = {}
  /\ owed = {}
-----------------------------------------------------------------------------
\* mutationMu is unlocked and the operation's locals are gone.
Unlock ==
  /\ pc' = "free"
  /\ op' = NoEntry
  /\ created' = FALSE
  /\ doomed' = {}
  /\ done' = {}

\* The holder goes on to sweepPendingBlobGCLocked.
ThenSweep ==
  /\ pc' = "sweep"
  /\ op' = NoEntry
  /\ created' = FALSE
  /\ UNCHANGED <<doomed, done>>

\* Blobs that have just lost, or still lack, their last live entry.
Owed(gone) == {h \in owed \cup (gone \cap blobs) : LiveNames(h)' = {}}

\* The transaction of resolveVFSWrite: entry and GC intent commit together.
WriteEntry(entry) ==
  LET existing == index[entry.name]
      written  == Written(entry, existing)
      gone     == Superseded(existing, written)
  IN  /\ written.version <= MaxVersion
      /\ index' = [index EXCEPT ![entry.name] = written]
      /\ pending' = pending \cup gone
      /\ owed' = Owed(gone)

-----------------------------------------------------------------------------
\* Local writes.

\* SaveLocalFile: the staged content becomes a blob under mutationMu.
SaveCommit(n, h) ==
  /\ pc = "free"
  /\ blobs' = blobs \cup {h}
  /\ created' = (h \notin blobs)
  /\ op' = LiveEntry(n, h, 0)
  /\ pc' = "save"
  /\ UNCHANGED <<mdVars, tasks, doomed, done, stored, owed>>

\* StageLocalFile: the same for a task output under its staging name.
StageCommit(h) ==
  /\ pc = "free"
  /\ blobs' = blobs \cup {h}
  /\ created' = (h \notin blobs)
  /\ op' = LiveEntry(StageName[h], h, 0)
  /\ pc' = "stage"
  /\ UNCHANGED <<mdVars, tasks, doomed, done, stored, owed>>

\* upsertAndSubscribeLocked: metadata, subscription and GC intent in one transaction.
SaveMetadata ==
  /\ pc \in {"save", "stage"}
  /\ WriteEntry(op)
  /\ subs' = subs \cup {op.name}
  /\ stored' = stored \cup {op.name}
  /\ ThenSweep
  /\ UNCHANGED <<blobs, tasks>>

\* Mutant of SaveAbort: the file is deleted even if it was there before.
SaveAbortAlwaysDeletes ==
  /\ pc \in {"save", "stage"}
  /\ blobs' = blobs \ {op.hash}
  /\ owed' = owed \cap blobs'
  /\ Unlock
  /\ UNCHANGED <<mdVars, tasks, stored>>

\* The write-ahead notification or the transaction failed before anything was
\* applied: compensatePhysicalBlob deletes the file if Commit made it (or fails to).
SaveAbort ==
  /\ pc \in {"save", "stage"}
  /\ blobs' \in {blobs, IF created THEN blobs \ {op.hash} ELSE blobs}
  /\ owed' = owed \cap blobs'
  /\ Unlock
  /\ UNCHANGED <<mdVars, tasks, stored>>

\* UpsertAndSubscribe without content: ingestTaskOutputsContext names a task output.
Ingest(n, h) ==
  /\ pc = "free"
  /\ WriteEntry(LiveEntry(n, h, 0))
  /\ subs' = subs \cup {n}
  /\ stored' = stored \ {n}
  /\ ThenSweep
  /\ UNCHANGED <<blobs, tasks>>

DeleteLocalFile(n) ==
  /\ pc = "free"
  /\ Exists(index[n])
  /\ WriteEntry(Tombstone(index[n]))
  /\ stored' = stored \ {n}
  /\ ThenSweep
  /\ UNCHANGED <<subs, blobs, tasks>>

SetSubscription(n, on) ==
  /\ pc = "free"
  /\ subs' = IF on THEN subs \cup {n} ELSE subs \ {n}
  /\ stored' = IF on /\ n \in subs THEN stored ELSE stored \ {n}
  /\ UNCHANGED <<index, blobs, pending, tasks, lockVars, owed>>

\* DeleteLocalCache: unsubscribe, then drop the blob if no subscribed name needs it.
Uncache(n) ==
  /\ pc = "free"
  /\ Exists(index[n])
  /\ subs' = subs \ {n}
  /\ stored' = stored \ {n}
  /\ op' = index[n]
  /\ pc' = "uncache"
  /\ UNCHANGED <<index, blobs, pending, tasks, created, doomed, done, owed>>

\* deleteBlobIfOrphan over countHashRefs; DeleteBlob may fail and leave the file.
DeleteBlobIfOrphan(refs) ==
  /\ blobs' \in {blobs, IF refs = {} THEN blobs \ {op.hash} ELSE blobs}
  /\ owed' = owed \cap blobs'
  /\ Unlock
  /\ UNCHANGED <<mdVars, tasks, stored>>

UncacheBlob ==
  /\ pc = "uncache"
  /\ DeleteBlobIfOrphan(LiveNames(op.hash) \cap subs)

-----------------------------------------------------------------------------
\* Writes that come from peers.

\* upsertIndexLocked for a notification, a manifest entry or a remote tombstone.
RemoteUpsert(entry) ==
  /\ pc = "free"
  /\ Applies(entry, index[entry.name])
  /\ WriteEntry(entry)
  /\ stored' = stored \ {entry.name}
  /\ ThenSweep
  /\ UNCHANGED <<subs, blobs, tasks>>

\* StoreRemoteBlob: downloaded and verified content of file becomes a blob.
StoreCommit(file) ==
  /\ pc = "free"
  /\ blobs' = blobs \cup {file.hash}
  /\ created' = (file.hash \notin blobs)
  /\ op' = file
  /\ pc' = "store"
  /\ UNCHANGED <<mdVars, tasks, doomed, done, stored, owed>>

StillWanted(file, entry) ==
  Live(entry) /\ entry.version = file.version /\ entry.hash = file.hash

StoreAccept ==
  /\ pc = "store"
  /\ StillWanted(op, index[op.name])
  /\ stored' = stored \cup ({op.name} \cap subs)
  /\ Unlock
  /\ UNCHANGED <<mdVars, blobs, tasks, owed>>

\* The name moved on while the content was downloading.
StoreDiscard ==
  /\ pc = "store"
  /\ ~StillWanted(op, index[op.name])
  /\ DeleteBlobIfOrphan(LiveNames(op.hash))

\* The index could not be read after Commit: compensatePhysicalBlob.
StoreAbort ==
  /\ pc = "store"
  /\ blobs' \in {blobs, IF created THEN blobs \ {op.hash} ELSE blobs}
  /\ owed' = owed \cap blobs'
  /\ Unlock
  /\ UNCHANGED <<mdVars, tasks, stored>>

\* SaveVerifiedPhysicalBlob, for a task input: no lock and no metadata.
FetchBlob(h) ==
  /\ blobs' = blobs \cup {h}
  /\ UNCHANGED <<mdVars, tasks, lockVars, stored, owed>>

-----------------------------------------------------------------------------
\* sweepPendingBlobGCLocked.

\* The View: which queued hashes does anything still refer to?  A blob that a
\* task holds is no longer owed a deletion: its hash leaves the queue.
SweepView ==
  /\ pc = "sweep"
  /\ pending # {}
  /\ doomed' = pending \ Referenced
  /\ done' = pending \cap Referenced
  /\ owed' = owed \ Referenced
  /\ pc' = "delete"
  /\ UNCHANGED <<mdVars, blobs, tasks, op, created, stored>>

\* Nothing is queued, or the View failed.
SweepSkip ==
  /\ pc = "sweep"
  /\ Unlock
  /\ UNCHANGED <<mdVars, blobs, tasks, stored, owed>>

SweepDelete(h) ==
  /\ pc = "delete"
  /\ h \in doomed
  /\ blobs' = blobs \ {h}
  /\ owed' = owed \ {h}
  /\ doomed' = doomed \ {h}
  /\ done' = done \cup {h}
  /\ UNCHANGED <<mdVars, tasks, pc, op, created, stored>>

\* os.Remove failed: the hash stays queued.
SweepDeleteFails(h) ==
  /\ pc = "delete"
  /\ h \in doomed
  /\ doomed' = doomed \ {h}
  /\ UNCHANGED <<mdVars, blobs, tasks, pc, op, created, done, stored, owed>>

\* Mutant of SweepClear: hashes whose deletion failed leave the queue too.
SweepClearsAll ==
  /\ pc = "delete"
  /\ doomed = {}
  /\ pending' \in {pending, {}}
  /\ Unlock
  /\ UNCHANGED <<index, subs, blobs, tasks, stored, owed>>

\* The last Update takes the finished hashes off the queue (or fails).
SweepClear ==
  /\ pc = "delete"
  /\ doomed = {}
  /\ pending' \in {pending, pending \ done}
  /\ Unlock
  /\ UNCHANGED <<index, subs, blobs, tasks, stored, owed>>

-----------------------------------------------------------------------------
\* Task records.  AppendTaskCheckpoint is one transaction and takes no lock.

\* held: the step outputs the active record lists afterwards.  A record replaces
\* the outputs of its own step, and one that names no step adds none.
TaskCheckpoint(t, payload, outs, held) ==
  /\ ~Terminal(t)
  /\ held \subseteq tasks[t].outs \cup outs
  /\ tasks' = [tasks EXCEPT ![t] =
       [phase   |-> "active",
        payload |-> IF payload = {} THEN @.payload ELSE payload,
        outs    |-> held,
        inter   |-> @.inter \cup outs,
        final   |-> @.final,
        finals  |-> @.finals]]
  /\ UNCHANGED <<mdVars, blobs, lockVars, stored, owed>>

\* A terminal record may be appended again with the status it already has; one
\* without an output map leaves the final outputs as they were.
TaskTerminal(t, status, payload, outs, final) ==
  /\ Terminal(t) => tasks[t].phase = status
  /\ \/ final = outs
     \/ outs = {} /\ final = tasks[t].final
  /\ tasks' = [tasks EXCEPT ![t] =
       [phase   |-> status,
        payload |-> IF payload = {} THEN @.payload ELSE payload,
        outs    |-> {},
        inter   |-> @.inter,
        final   |-> final,
        finals  |-> @.finals \cup payload \cup outs]]
  /\ UNCHANGED <<mdVars, blobs, lockVars, stored, owed>>

\* PruneIntermediateTaskData: forget the intermediate records of a finished
\* task, with their staging names, and queue the blobs no task holds.
PruneTask(t) ==
  LET protected == tasks[t].finals \cup ActiveTaskHashes \cup HistoryHashes
      gone      == tasks[t].inter \ protected
      staged    == {n \in Names \ UserNames : Exists(index[n]) /\ index[n].hash \in gone}
  IN  /\ pc = "free"
      /\ Terminal(t)
      /\ tasks[t].inter # {}
      /\ tasks' = [tasks EXCEPT ![t].inter = {}]
      /\ index' = [n \in Names |-> IF n \in staged THEN NoEntry ELSE index[n]]
      /\ pending' = pending \cup gone
      /\ owed' = Owed(gone)
      /\ stored' = stored \ staged
      /\ pc' = IF gone = {} THEN "free" ELSE "sweep"
      /\ UNCHANGED <<subs, blobs, op, created, doomed, done>>

-----------------------------------------------------------------------------
\* The process dies; NewStorageEngine opens the database and sweeps the queue.
Crash ==
  /\ pc' = "sweep"
  /\ op' = NoEntry
  /\ created' = FALSE
  /\ doomed' = {}
  /\ done' = {}
  /\ UNCHANGED <<mdVars, blobs, tasks, stored, owed>>

Mentions == {{}} \cup {{h} : h \in TaskHashes}

Next ==
  \/ \E n \in UserNames, h \in Hashes : SaveCommit(n, h) \/ Ingest(n, h)
  \/ \E h \in DOMAIN StageName : StageCommit(h)
  \/ SaveMetadata
  \/ SaveAbort
  \/ \E n \in Names : DeleteLocalFile(n) \/ Uncache(n)
  \/ \E n \in Names, on \in BOOLEAN : SetSubscription(n, on)
  \/ UncacheBlob
  \/ \E e \in Entries : RemoteUpsert(e)
  \/ \E e \in Entries : ~e.deleted /\ StoreCommit(e)
  \/ StoreAccept
  \/ StoreDiscard
  \/ StoreAbort
  \/ \E h \in Hashes : FetchBlob(h) \/ SweepDelete(h) \/ SweepDeleteFails(h)
  \/ SweepView
  \/ SweepSkip
  \/ SweepClear
  \/ \E t \in Tasks, payload, outs \in Mentions, held \in SUBSET TaskHashes :
       TaskCheckpoint(t, payload, outs, held)
  \/ \E t \in Tasks, status \in {"completed", "failed"}, payload, outs, final \in Mentions :
       TaskTerminal(t, status, payload, outs, final)
  \/ \E t \in Tasks : PruneTask(t)
  \/ Crash

Spec == Init /\ [][Next]_vars

-----------------------------------------------------------------------------
(***************************************************************************)
(* A file that was saved or downloaded here, and that the node is still    *)
(* subscribed to, can be read: whatever other names, tasks, downloads,     *)
(* collections and crashes do, its blob is on disk as long as its entry is *)
(* live.  (SaveLocalFile, StoreRemoteBlob against sweepPendingBlobGCLocked,*)
(* deleteBlobIfOrphan and compensatePhysicalBlob.)                         *)
(***************************************************************************)
StoredIsReadable ==
  \A n \in stored \cap subs : Live(index[n]) => index[n].hash \in blobs

(***************************************************************************)
(* A blob whose last live entry was superseded or deleted is never         *)
(* forgotten: until its file is gone, or it is in use again, its hash is   *)
(* in the durable queue, through failed deletions and crashes.             *)
(* (queueSupersededBlobGCTx and SweepPendingBlobGC.)                       *)
(***************************************************************************)
OrphansQueued == owed \subseteq pending

\* What a step may do to the entry of one name.
IndexStep(n) ==
  \/ index'[n] = index[n]
  \/ Wins(index'[n], index[n])
  \/ n \notin UserNames /\ index'[n] = NoEntry

(***************************************************************************)
(* The index only moves up the replicated order: no write, local or        *)
(* remote, replaces an entry by one that loses to it.  The one exception   *)
(* is the removal of a staging name by PruneIntermediateTaskData.          *)
(***************************************************************************)
IndexAdvances == [][\A n \in Names : IndexStep(n)]_vars

(***************************************************************************)
(* What the holder of mutationMu may rely on between its steps; with it    *)
(* StoredIsReadable and OrphansQueued are inductive.                       *)
(***************************************************************************)
HolderInv ==
  /\ pc \in {"save", "stage"} => op.version = 0 /\ ~op.deleted
  /\ pc \in {"save", "stage", "store"} => op.hash \in blobs
  /\ pc \in {"save", "stage", "store"} /\ created =>
       \A n \in stored \cap subs : Live(index[n]) => index[n].hash # op.hash
  /\ pc = "delete" => \A h \in doomed : LiveNames(h) = {}
  /\ pc = "delete" => done \cap owed = {}

IInv == TypeOK /\ StoredIsReadable /\ OrphansQueued /\ HolderInv

(***************************************************************************)
(* The collector never deletes a blob that an active task refers to.       *)
(***************************************************************************)
SweepSparesActiveTasks ==
  [][pc = "delete" => (blobs \ blobs') \cap ActiveTaskHashes = {}]_vars

=============================================================================
