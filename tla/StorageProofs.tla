---------------------------- MODULE StorageProofs -----------------------------
(***************************************************************************)
(* Proofs about module Storage, for any names, hashes, tasks and versions. *)
(***************************************************************************)
EXTENDS Storage, TLAPS

-----------------------------------------------------------------------------
\* Facts about entries and the write rule.

\* Names, hashes and staging names are positive naturals.
LEMMA NamesAreNat ==
  /\ Names \subseteq Nat \ {0}
  /\ Hashes \subseteq Nat \ {0}
  /\ \A h \in DOMAIN StageName : StageName[h] \in Names /\ h \in Hashes
  /\ UserNames \subseteq Names
BY StorageAssumption DEF Names, NoHash

\* NoEntry is an entry of no name.
LEMMA NoEntryType == NoEntry \in EntryType /\ NoEntry.name = 0
BY DEF NoEntry, EntryType, NoHash

\* LiveEntry builds a live entry with the given fields.
LEMMA LiveEntryType ==
  ASSUME NEW n \in Names, NEW h \in Hashes, NEW v \in Nat
  PROVE  /\ LiveEntry(n, h, v) \in EntryType
         /\ LiveEntry(n, h, v).name = n
         /\ LiveEntry(n, h, v).hash = h
         /\ LiveEntry(n, h, v).version = v
         /\ LiveEntry(n, h, v).deleted = FALSE
BY NamesAreNat DEF LiveEntry, EntryType

\* The entries peers send are well formed and have a positive version.
LEMMA EntriesType ==
  ASSUME NEW e \in Entries
  PROVE  e \in EntryType /\ e.name \in Names /\ e.hash \in Hashes /\ e.version \in Nat \ {0}
<1> DEFINE versioned(n, h) == {LiveEntry(n, h, v) : v \in 1..MaxVersion}
<1> DEFINE live == UNION ({versioned(n, h) : n \in UserNames, h \in Hashes} \cup
                          {versioned(StageName[h], h) : h \in DOMAIN StageName})
<1> DEFINE Ok(x) == /\ x \in EntryType
                    /\ x.name \in Names
                    /\ x.hash \in Hashes
                    /\ x.version \in Nat \ {0}
<1>1. \A n \in Names, h \in Hashes : \A x \in versioned(n, h) : Ok(x)
  <2> TAKE n \in Names, h \in Hashes
  <2> TAKE x \in versioned(n, h)
  <2>1. PICK v \in 1..MaxVersion : x = LiveEntry(n, h, v)
    OBVIOUS
  <2>2. v \in Nat \ {0}
    BY StorageAssumption
  <2>3. /\ LiveEntry(n, h, v) \in EntryType
        /\ LiveEntry(n, h, v).name = n
        /\ LiveEntry(n, h, v).hash = h
        /\ LiveEntry(n, h, v).version = v
    BY <2>2, NamesAreNat DEF LiveEntry, EntryType
  <2> QED BY <2>1, <2>2, <2>3
<1>2. \A x \in live : Ok(x)
  <2> TAKE x \in live
  <2> HIDE DEF versioned, Ok
  <2>1. CASE \E n \in UserNames, h \in Hashes : x \in versioned(n, h)
    BY <2>1, <1>1, NamesAreNat
  <2>2. CASE \E h \in DOMAIN StageName : x \in versioned(StageName[h], h)
    BY <2>2, <1>1, NamesAreNat
  <2> QED BY <2>1, <2>2
<1>3. e \in live \cup {[x EXCEPT !.deleted = TRUE] : x \in live}
  BY DEF Entries
<1> HIDE DEF live
<1>4. CASE e \in live
  BY <1>4, <1>2
<1>5. CASE \E x \in live : e = [x EXCEPT !.deleted = TRUE]
  BY <1>5, <1>2 DEF EntryType
<1> QED BY <1>3, <1>4, <1>5

\* Written keeps every field but the version, and the version is positive.
LEMMA WrittenType ==
  ASSUME NEW e \in EntryType, NEW x \in EntryType
  PROVE  /\ Written(e, x) \in EntryType
         /\ Written(e, x).name = e.name
         /\ Written(e, x).hash = e.hash
         /\ Written(e, x).deleted = e.deleted
         /\ Written(e, x).version \in Nat \ {0}
         /\ e.version = 0 => Written(e, x).version = NextVersion(x)
         /\ e.version > 0 => Written(e, x) = e
<1>1. NextVersion(x) \in Nat \ {0}
  BY DEF NextVersion, EntryType
<1>2. CASE e.version > 0
  BY <1>2 DEF Written, EntryType
<1>3. CASE ~(e.version > 0)
  BY <1>1, <1>3 DEF Written, EntryType
<1> QED BY <1>2, <1>3

\* A tombstone has the next version and keeps name and hash.
LEMMA TombstoneType ==
  ASSUME NEW x \in EntryType
  PROVE  /\ Tombstone(x) \in EntryType
         /\ Tombstone(x).name = x.name
         /\ Tombstone(x).hash = x.hash
         /\ Tombstone(x).deleted = TRUE
         /\ Tombstone(x).version = x.version + 1
BY DEF Tombstone, EntryType

\* What a superseding write hands to the collector is a hash.
LEMMA SupersededType ==
  ASSUME NEW x \in EntryType, NEW y \in EntryType, Exists(x) => x.hash \in Hashes
  PROVE  Superseded(x, y) \subseteq Hashes
BY DEF Superseded

(***************************************************************************)
(* The write transaction: it touches one name, and every hash it makes     *)
(* owed is queued by the same step.                                        *)
(***************************************************************************)
LEMMA WriteEntryFacts ==
  ASSUME TypeOK, OrphansQueued,
         NEW e \in EntryType, e.name \in Names, e.hash \in Hashes,
         WriteEntry(e)
  PROVE  /\ index' \in [Names -> EntryType]
         /\ \A n \in Names : Exists(index'[n]) => index'[n].name = n /\ index'[n].hash \in Hashes
         /\ \A n \in Names \ {e.name} : index'[n] = index[n]
         /\ index'[e.name] = Written(e, index[e.name])
         /\ pending' \subseteq Hashes
         /\ owed' \subseteq Hashes
         /\ owed' \subseteq pending'
<1> DEFINE existing == index[e.name]
           written  == Written(e, existing)
           gone     == Superseded(existing, written)
<1>1. existing \in EntryType /\ (Exists(existing) => existing.hash \in Hashes)
  BY DEF TypeOK
<1>2. written \in EntryType /\ written.name = e.name /\ written.hash = e.hash
  BY <1>1, WrittenType
<1>3. gone \subseteq Hashes
  BY <1>1, <1>2, SupersededType
<1>4. /\ index' = [index EXCEPT ![e.name] = written]
      /\ pending' = pending \cup gone
      /\ owed' = Owed(gone)
  BY DEF WriteEntry
<1>5. owed' \subseteq owed \cup (gone \cap blobs)
  BY <1>4 DEF Owed
<1> HIDE DEF written, gone
<1>6. /\ index' \in [Names -> EntryType]
      /\ index'[e.name] = written
      /\ \A n \in Names \ {e.name} : index'[n] = index[n]
  BY <1>2, <1>4 DEF TypeOK
<1>7. \A n \in Names : Exists(index'[n]) => index'[n].name = n /\ index'[n].hash \in Hashes
  BY <1>2, <1>6 DEF TypeOK
<1>8. pending' \subseteq Hashes /\ owed' \subseteq Hashes /\ owed' \subseteq pending'
  BY <1>3, <1>4, <1>5 DEF TypeOK, OrphansQueued
<1> QED BY <1>6, <1>7, <1>8 DEF written

-----------------------------------------------------------------------------
\* The inductive invariant.

\* It holds initially.
LEMMA InitInv == Init => IInv
<1> SUFFICES ASSUME Init PROVE IInv
  OBVIOUS
<1>1. TypeOK
  BY NoEntryType DEF Init, TypeOK, NoTask, TaskType, Exists
<1>2. StoredIsReadable /\ OrphansQueued /\ HolderInv
  BY DEF Init, StoredIsReadable, OrphansQueued, HolderInv
<1> QED BY <1>1, <1>2 DEF IInv

\* A write that stores its own content (SaveLocalFile, StageLocalFile) keeps it.
LEMMA SaveMetadataInv ==
  ASSUME IInv, SaveMetadata
  PROVE  IInv'
<1> USE DEF IInv
<1>1. op \in EntryType /\ op.name \in Names /\ op.hash \in Hashes /\ op.version = 0 /\ op.hash \in blobs
  BY DEF SaveMetadata, TypeOK, HolderInv
<1>2. WriteEntry(op)
  BY DEF SaveMetadata
<1>3. /\ index' \in [Names -> EntryType]
      /\ \A n \in Names : Exists(index'[n]) => index'[n].name = n /\ index'[n].hash \in Hashes
      /\ \A n \in Names \ {op.name} : index'[n] = index[n]
      /\ index'[op.name] = Written(op, index[op.name])
      /\ pending' \subseteq Hashes
      /\ owed' \subseteq Hashes
      /\ owed' \subseteq pending'
  BY <1>1, <1>2, WriteEntryFacts
<1>4. index'[op.name].hash = op.hash
  BY <1>1, <1>3, WrittenType DEF TypeOK
<1>5. TypeOK'
  BY <1>1, <1>3, NoEntryType DEF TypeOK, SaveMetadata, ThenSweep
<1>6. StoredIsReadable'
  BY <1>1, <1>3, <1>4 DEF TypeOK, StoredIsReadable, SaveMetadata
<1>7. OrphansQueued' /\ HolderInv'
  BY <1>3 DEF OrphansQueued, HolderInv, SaveMetadata, ThenSweep
<1> QED BY <1>5, <1>6, <1>7

\* A write without content (from a peer, a deletion, a task output) makes its
\* name unreadable at worst for itself.
LEMMA BareWriteInv ==
  ASSUME IInv, NEW e \in EntryType, e.name \in Names, e.hash \in Hashes,
         WriteEntry(e), ThenSweep, stored' = stored \ {e.name},
         subs' \in {subs, subs \cup {e.name}}, UNCHANGED <<blobs, tasks>>
  PROVE  IInv'
<1> USE DEF IInv
<1>3. /\ index' \in [Names -> EntryType]
      /\ \A n \in Names : Exists(index'[n]) => index'[n].name = n /\ index'[n].hash \in Hashes
      /\ \A n \in Names \ {e.name} : index'[n] = index[n]
      /\ pending' \subseteq Hashes
      /\ owed' \subseteq Hashes
      /\ owed' \subseteq pending'
  BY WriteEntryFacts
<1>5. TypeOK'
  BY <1>3, NoEntryType DEF TypeOK, ThenSweep
<1>6. StoredIsReadable'
  BY <1>3 DEF TypeOK, StoredIsReadable
<1>7. OrphansQueued' /\ HolderInv'
  BY <1>3 DEF OrphansQueued, HolderInv, ThenSweep
<1> QED BY <1>5, <1>6, <1>7

\* Committing content to the CAS directory under the lock.
LEMMA CommitInv ==
  ASSUME IInv, pc = "free", NEW e \in EntryType, e.name \in Names, e.hash \in Hashes,
         NEW next \in {"save", "stage", "store"},
         next # "store" => e.version = 0 /\ ~e.deleted,
         blobs' = blobs \cup {e.hash}, created' = (e.hash \notin blobs),
         op' = e, pc' = next,
         UNCHANGED <<index, subs, pending, tasks, doomed, done, stored, owed>>
  PROVE  IInv'
<1> USE DEF IInv
<1>1. TypeOK'
  BY DEF TypeOK
<1>2. StoredIsReadable' /\ OrphansQueued'
  BY DEF StoredIsReadable, OrphansQueued
<1>3. created' => \A n \in stored \cap subs : Live(index[n]) => index[n].hash # e.hash
  BY DEF StoredIsReadable
<1>4. HolderInv'
  BY <1>3 DEF HolderInv
<1> QED BY <1>1, <1>2, <1>4

\* Dropping one blob that no stored, subscribed name needs, then unlocking.
LEMMA DropInv ==
  ASSUME IInv, NEW h \in Hashes, blobs' \in {blobs, blobs \ {h}},
         blobs' # blobs => \A n \in stored \cap subs : Live(index[n]) => index[n].hash # h,
         owed' = owed \cap blobs', Unlock, UNCHANGED <<index, subs, pending, tasks, stored>>
  PROVE  IInv'
<1> USE DEF IInv
<1>1. TypeOK'
  BY NoEntryType DEF TypeOK, Unlock
<1>2. StoredIsReadable'
  BY DEF StoredIsReadable
<1>3. OrphansQueued' /\ HolderInv'
  BY DEF OrphansQueued, HolderInv, Unlock
<1> QED BY <1>1, <1>2, <1>3

\* Compensation only removes a file that this operation made and nobody stored.
LEMMA AbortInv ==
  ASSUME IInv, pc \in {"save", "stage", "store"},
         blobs' \in {blobs, IF created THEN blobs \ {op.hash} ELSE blobs},
         owed' = owed \cap blobs', Unlock, UNCHANGED <<index, subs, pending, tasks, stored>>
  PROVE  IInv'
<1>1. op.hash \in Hashes
  BY DEF IInv, TypeOK
<1>2. blobs' # blobs => \A n \in stored \cap subs : Live(index[n]) => index[n].hash # op.hash
  BY DEF IInv, HolderInv
<1>3. blobs' \in {blobs, blobs \ {op.hash}}
  OBVIOUS
<1> QED BY <1>1, <1>2, <1>3, DropInv

\* deleteBlobIfOrphan counts every name that could be stored and subscribed.
LEMMA OrphanInv ==
  ASSUME IInv, pc \in {"store", "uncache"},
         NEW refs, LiveNames(op.hash) \cap subs \subseteq refs,
         DeleteBlobIfOrphan(refs)
  PROVE  IInv'
<1>1. op.hash \in Hashes /\ stored \subseteq Names
  BY DEF IInv, TypeOK
<1>2. blobs' \in {blobs, blobs \ {op.hash}} /\ (blobs' # blobs => refs = {})
  BY DEF DeleteBlobIfOrphan
<1>3. blobs' # blobs => \A n \in stored \cap subs : Live(index[n]) => index[n].hash # op.hash
  BY <1>1, <1>2 DEF LiveNames
<1> QED BY <1>1, <1>2, <1>3, DropInv DEF DeleteBlobIfOrphan, mdVars

\* The sweep deletes only what its View found unreferenced.
LEMMA SweepInv ==
  ASSUME IInv,
         SweepView \/ SweepSkip \/ SweepClear
           \/ \E h \in Hashes : SweepDelete(h) \/ SweepDeleteFails(h)
  PROVE  IInv'
<1> USE DEF IInv, mdVars
<1>1. CASE SweepView
  <2>1. Referenced \cap Hashes \subseteq Hashes /\ \A h \in Hashes \ Referenced : LiveNames(h) = {}
    BY DEF Referenced
  <2>2. TypeOK'
    BY <1>1 DEF SweepView, TypeOK
  <2>3. StoredIsReadable' /\ OrphansQueued'
    BY <1>1 DEF SweepView, StoredIsReadable, OrphansQueued
  <2>4. \A h \in doomed' : LiveNames(h)' = {}
    BY <1>1, <2>1 DEF SweepView, TypeOK, LiveNames
  <2>5. HolderInv'
    BY <1>1, <2>4 DEF SweepView, HolderInv
  <2> QED BY <2>2, <2>3, <2>5
<1>2. CASE SweepSkip
  BY <1>2, NoEntryType DEF SweepSkip, Unlock, TypeOK, StoredIsReadable, OrphansQueued, HolderInv
<1>3. CASE SweepClear
  <2>1. TypeOK'
    BY <1>3, NoEntryType DEF SweepClear, Unlock, TypeOK
  <2>2. StoredIsReadable' /\ HolderInv'
    BY <1>3 DEF SweepClear, Unlock, StoredIsReadable, HolderInv
  <2>3. OrphansQueued'
    BY <1>3 DEF SweepClear, OrphansQueued, HolderInv
  <2> QED BY <2>1, <2>2, <2>3
<1>4. ASSUME NEW h \in Hashes, SweepDelete(h) PROVE IInv'
  <2>1. TypeOK'
    BY <1>4 DEF SweepDelete, TypeOK
  <2>2. \A n \in Names : Live(index[n]) => index[n].hash # h
    BY <1>4 DEF SweepDelete, HolderInv, LiveNames
  <2>3. StoredIsReadable'
    BY <1>4, <2>2 DEF SweepDelete, StoredIsReadable, TypeOK
  <2>4. OrphansQueued'
    BY <1>4 DEF SweepDelete, OrphansQueued
  <2>5. HolderInv'
    BY <1>4 DEF SweepDelete, HolderInv, LiveNames
  <2> QED BY <2>1, <2>3, <2>4, <2>5
<1>5. ASSUME NEW h \in Hashes, SweepDeleteFails(h) PROVE IInv'
  <2>1. TypeOK'
    BY <1>5 DEF SweepDeleteFails, TypeOK
  <2>2. StoredIsReadable' /\ OrphansQueued'
    BY <1>5 DEF SweepDeleteFails, StoredIsReadable, OrphansQueued
  <2>3. HolderInv'
    BY <1>5 DEF SweepDeleteFails, HolderInv, LiveNames
  <2> QED BY <2>1, <2>2, <2>3
<1> QED BY <1>1, <1>2, <1>3, <1>4, <1>5

\* Task checkpoints change no blob, no entry and no queue.
LEMMA TaskInv ==
  ASSUME IInv, tasks' \in [Tasks -> TaskType], UNCHANGED <<mdVars, blobs, lockVars, stored, owed>>
  PROVE  IInv'
<1> USE DEF IInv, mdVars, lockVars
<1>1. TypeOK'
  BY DEF TypeOK
<1>2. StoredIsReadable' /\ OrphansQueued'
  BY DEF StoredIsReadable, OrphansQueued
<1>3. HolderInv'
  BY DEF HolderInv, LiveNames
<1> QED BY <1>1, <1>2, <1>3

\* What a task mentions is a set of hashes.
LEMMA MentionsType == \A m \in Mentions : m \in SUBSET Hashes
BY StorageAssumption DEF Mentions

\* A checkpoint of a running task preserves the invariant.
LEMMA TaskCheckpointInv ==
  ASSUME IInv, NEW t \in Tasks, NEW payload \in Mentions, NEW outs \in Mentions,
         NEW held \in SUBSET TaskHashes, TaskCheckpoint(t, payload, outs, held)
  PROVE  IInv'
<1>1. payload \in SUBSET Hashes /\ outs \in SUBSET Hashes /\ held \in SUBSET Hashes
  BY MentionsType, StorageAssumption
<1>2. tasks \in [Tasks -> TaskType]
  BY DEF IInv, TypeOK
<1>3. tasks' \in [Tasks -> TaskType]
  BY <1>1, <1>2 DEF TaskCheckpoint, TaskType
<1> QED BY <1>3, TaskInv DEF TaskCheckpoint

\* So does the record of its end.
LEMMA TaskTerminalInv ==
  ASSUME IInv, NEW t \in Tasks, NEW status \in {"completed", "failed"}, NEW payload \in Mentions,
         NEW outs \in Mentions, NEW final \in Mentions, TaskTerminal(t, status, payload, outs, final)
  PROVE  IInv'
<1>1. payload \in SUBSET Hashes /\ outs \in SUBSET Hashes /\ final \in SUBSET Hashes
  BY MentionsType
<1>2. tasks \in [Tasks -> TaskType]
  BY DEF IInv, TypeOK
<1>3. tasks' \in [Tasks -> TaskType]
  BY <1>1, <1>2 DEF TaskTerminal, TaskType
<1> QED BY <1>3, TaskInv DEF TaskTerminal

\* Pruning drops staging names only, and queues every blob it drops.
LEMMA PruneInv ==
  ASSUME IInv, NEW t \in Tasks, PruneTask(t)
  PROVE  IInv'
<1> USE DEF IInv
<1> DEFINE protected == tasks[t].finals \cup ActiveTaskHashes \cup HistoryHashes
           gone      == tasks[t].inter \ protected
           staged    == {n \in Names \ UserNames : Exists(index[n]) /\ index[n].hash \in gone}
<1>1. /\ tasks' = [tasks EXCEPT ![t].inter = {}]
      /\ index' = [n \in Names |-> IF n \in staged THEN NoEntry ELSE index[n]]
      /\ pending' = pending \cup gone
      /\ owed' = Owed(gone)
      /\ stored' = stored \ staged
      /\ pc' \in {"free", "sweep"}
      /\ UNCHANGED <<subs, blobs, op, created, doomed, done>>
  BY DEF PruneTask
<1>2. gone \subseteq Hashes
  BY DEF TypeOK, TaskType
<1>3. owed' \subseteq owed \cup (gone \cap blobs)
  BY <1>1 DEF Owed
<1>4. tasks' \in [Tasks -> TaskType]
  BY <1>1 DEF TypeOK, TaskType
<1> HIDE DEF gone, staged
<1>5. /\ index' \in [Names -> EntryType]
      /\ \A n \in Names : Exists(index'[n]) => index'[n] = index[n]
      /\ \A n \in Names : n \notin staged => index'[n] = index[n]
  BY <1>1, NoEntryType DEF TypeOK, Exists
<1>6. TypeOK'
  BY <1>1, <1>2, <1>3, <1>4, <1>5 DEF TypeOK
<1>7. StoredIsReadable'
  BY <1>1, <1>5 DEF TypeOK, StoredIsReadable
<1>8. OrphansQueued' /\ HolderInv'
  BY <1>1, <1>3 DEF OrphansQueued, HolderInv
<1> QED BY <1>6, <1>7, <1>8

\* A crash loses only what the lock holder had in memory.
LEMMA CrashInv ==
  ASSUME IInv, Crash
  PROVE  IInv'
<1> USE DEF IInv, mdVars
<1>1. TypeOK'
  BY NoEntryType DEF Crash, TypeOK
<1>2. StoredIsReadable' /\ OrphansQueued' /\ HolderInv'
  BY DEF Crash, StoredIsReadable, OrphansQueued, HolderInv
<1> QED BY <1>1, <1>2

\* Every step preserves the inductive invariant.
LEMMA NextInv == IInv /\ [Next]_vars => IInv'
<1> SUFFICES ASSUME IInv, [Next]_vars PROVE IInv'
  OBVIOUS
<1> USE DEF mdVars
<1>1. ASSUME NEW n \in UserNames, NEW h \in Hashes, SaveCommit(n, h) PROVE IInv'
  <2> DEFINE e == LiveEntry(n, h, 0)
  <2>1. e \in EntryType /\ e.name = n /\ n \in Names /\ e.hash = h /\ h \in Hashes
        /\ e.version = 0 /\ ~e.deleted
    BY NamesAreNat DEF LiveEntry, EntryType
  <2> QED BY <1>1, <2>1, CommitInv DEF SaveCommit
<1>2. ASSUME NEW n \in UserNames, NEW h \in Hashes, Ingest(n, h) PROVE IInv'
  <2> DEFINE e == LiveEntry(n, h, 0)
  <2>1. e \in EntryType /\ e.name = n /\ n \in Names /\ e.hash = h /\ h \in Hashes
        /\ e.version = 0 /\ ~e.deleted
    BY NamesAreNat DEF LiveEntry, EntryType
  <2> QED BY <1>2, <2>1, BareWriteInv DEF Ingest
<1>3. ASSUME NEW h \in DOMAIN StageName, StageCommit(h) PROVE IInv'
  <2> DEFINE e == LiveEntry(StageName[h], h, 0)
  <2>1. e \in EntryType /\ e.name = StageName[h] /\ StageName[h] \in Names /\ e.hash = h /\ h \in Hashes
        /\ e.version = 0 /\ ~e.deleted
    BY NamesAreNat DEF LiveEntry, EntryType
  <2> QED BY <1>3, <2>1, CommitInv DEF StageCommit
<1>4. CASE SaveMetadata
  BY <1>4, SaveMetadataInv
<1>5. CASE SaveAbort
  BY <1>5, AbortInv DEF SaveAbort
<1>6. ASSUME NEW n \in Names, DeleteLocalFile(n) PROVE IInv'
  <2>1. index[n] \in EntryType /\ index[n].name = n /\ index[n].hash \in Hashes
    BY <1>6 DEF DeleteLocalFile, IInv, TypeOK
  <2> QED BY <1>6, <2>1, TombstoneType, BareWriteInv DEF DeleteLocalFile
<1>7. ASSUME NEW n \in Names, Uncache(n) PROVE IInv'
  <2>1. TypeOK'
    BY <1>7 DEF Uncache, IInv, TypeOK
  <2>2. StoredIsReadable' /\ OrphansQueued' /\ HolderInv'
    BY <1>7 DEF Uncache, IInv, StoredIsReadable, OrphansQueued, HolderInv
  <2> QED BY <2>1, <2>2 DEF IInv
<1>8. ASSUME NEW n \in Names, NEW on \in BOOLEAN, SetSubscription(n, on) PROVE IInv'
  <2>0. stored' \cap subs' \subseteq stored \cap subs
    BY <1>8 DEF SetSubscription
  <2>1. TypeOK'
    BY <1>8 DEF SetSubscription, IInv, TypeOK, lockVars
  <2>2. StoredIsReadable' /\ OrphansQueued' /\ HolderInv'
    BY <1>8, <2>0 DEF SetSubscription, IInv, StoredIsReadable, OrphansQueued, HolderInv, lockVars,
                      LiveNames
  <2> QED BY <2>1, <2>2 DEF IInv
<1>9. CASE UncacheBlob
  BY <1>9, OrphanInv DEF UncacheBlob
<1>10. ASSUME NEW e \in Entries, RemoteUpsert(e) PROVE IInv'
  BY <1>10, EntriesType, BareWriteInv DEF RemoteUpsert
<1>11. ASSUME NEW e \in Entries, StoreCommit(e) PROVE IInv'
  BY <1>11, EntriesType, CommitInv DEF StoreCommit
<1>12. CASE StoreAccept
  <2>1. TypeOK'
    BY <1>12, NoEntryType DEF StoreAccept, Unlock, IInv, TypeOK
  <2>2. StoredIsReadable'
    BY <1>12 DEF StoreAccept, StillWanted, IInv, StoredIsReadable, HolderInv, TypeOK
  <2>3. OrphansQueued' /\ HolderInv'
    BY <1>12 DEF StoreAccept, Unlock, IInv, OrphansQueued, HolderInv
  <2> QED BY <2>1, <2>2, <2>3 DEF IInv
<1>13. CASE StoreDiscard
  <2>1. pc \in {"store", "uncache"} /\ LiveNames(op.hash) \cap subs \subseteq LiveNames(op.hash)
    BY <1>13 DEF StoreDiscard
  <2>2. DeleteBlobIfOrphan(LiveNames(op.hash))
    BY <1>13 DEF StoreDiscard
  <2> QED BY <2>1, <2>2, OrphanInv
<1>14. CASE StoreAbort
  BY <1>14, AbortInv DEF StoreAbort
<1>15. ASSUME NEW h \in Hashes, FetchBlob(h) PROVE IInv'
  <2>1. TypeOK'
    BY <1>15 DEF FetchBlob, IInv, TypeOK, lockVars
  <2>2. StoredIsReadable' /\ OrphansQueued'
    BY <1>15 DEF FetchBlob, IInv, StoredIsReadable, OrphansQueued
  <2>3. HolderInv'
    BY <1>15 DEF FetchBlob, IInv, HolderInv, lockVars, LiveNames
  <2> QED BY <2>1, <2>2, <2>3 DEF IInv
<1>16. CASE SweepView \/ SweepSkip \/ SweepClear
             \/ \E h \in Hashes : SweepDelete(h) \/ SweepDeleteFails(h)
  BY <1>16, SweepInv
<1>17. ASSUME NEW t \in Tasks, NEW payload \in Mentions, NEW outs \in Mentions,
              NEW held \in SUBSET TaskHashes, TaskCheckpoint(t, payload, outs, held)
       PROVE  IInv'
  BY <1>17, TaskCheckpointInv
<1>18. ASSUME NEW t \in Tasks, NEW status \in {"completed", "failed"}, NEW payload \in Mentions,
              NEW outs \in Mentions, NEW final \in Mentions,
              TaskTerminal(t, status, payload, outs, final)
       PROVE  IInv'
  BY <1>18, TaskTerminalInv
<1>19. ASSUME NEW t \in Tasks, PruneTask(t) PROVE IInv'
  BY <1>19, PruneInv
<1>20. CASE Crash
  BY <1>20, CrashInv
<1>21. CASE UNCHANGED vars
  <2>1. tasks' \in [Tasks -> TaskType]
    BY <1>21 DEF vars, IInv, TypeOK
  <2> QED BY <1>21, <2>1, TaskInv DEF vars, lockVars
<1> QED
  BY <1>1, <1>2, <1>3, <1>4, <1>5, <1>6, <1>7, <1>8, <1>9, <1>10, <1>11, <1>12, <1>13,
     <1>14, <1>15, <1>16, <1>17, <1>18, <1>19, <1>20, <1>21 DEF Next

\* What WriteEntry puts in the index wins over what was there, provided the
\* entry was admitted by resolveVFSWrite or is the tombstone of that entry.
LEMMA WriteAdvances ==
  ASSUME TypeOK, NEW e \in EntryType, e.name \in Names,
         WriteEntry(e), Applies(e, index[e.name])
  PROVE  \A n \in Names : IndexStep(n)
<1> DEFINE existing == index[e.name]
           written  == Written(e, existing)
<1>1. existing \in EntryType /\ index \in [Names -> EntryType]
  BY DEF TypeOK
<1>2. written \in EntryType /\ written.version \in Nat /\ existing.version \in Nat
  BY <1>1, WrittenType DEF EntryType
<1>3. Wins(written, existing)
  <2>1. CASE e.version > 0 /\ Exists(existing)
    BY <2>1 DEF Applies, Written
  <2>2. CASE e.version > 0 /\ ~Exists(existing)
    <3>1. written.version > 0 /\ existing.version = 0
      BY <2>2 DEF Written, Exists, NoEntry
    <3> QED BY <3>1 DEF Wins
  <2>3. CASE ~(e.version > 0)
    <3>1. written.version = NextVersion(existing)
      BY <2>3 DEF Written, EntryType
    <3>2. NextVersion(existing) > existing.version
      BY <1>2 DEF NextVersion, Exists, NoEntry
    <3> QED BY <1>2, <3>1, <3>2 DEF Wins
  <2> QED BY <2>1, <2>2, <2>3
<1>4. index' = [index EXCEPT ![e.name] = written]
  BY DEF WriteEntry
<1> QED BY <1>1, <1>3, <1>4 DEF IndexStep

\* Every step moves every index entry up the replicated order.
LEMMA NextAdvances == IInv /\ [Next]_vars => \A n \in Names : IndexStep(n)
<1> SUFFICES ASSUME IInv, [Next]_vars PROVE \A n \in Names : IndexStep(n)
  OBVIOUS
<1>0. TypeOK
  BY DEF IInv
<1>1. ASSUME UNCHANGED index PROVE \A n \in Names : IndexStep(n)
  BY <1>1 DEF IndexStep
<1>2. ASSUME NEW n \in UserNames, NEW h \in Hashes, Ingest(n, h)
      PROVE  \A m \in Names : IndexStep(m)
  <2> DEFINE e == LiveEntry(n, h, 0)
  <2>1. e \in EntryType /\ e.name = n /\ n \in Names /\ e.version = 0
    BY NamesAreNat DEF LiveEntry, EntryType
  <2>2. Applies(e, index[e.name])
    BY <2>1 DEF Applies
  <2> QED BY <1>0, <1>2, <2>1, <2>2, WriteAdvances DEF Ingest
<1>3. CASE SaveMetadata
  <2>1. op \in EntryType /\ op.name \in Names /\ op.version = 0
    BY <1>3 DEF SaveMetadata, IInv, TypeOK, HolderInv
  <2>2. Applies(op, index[op.name])
    BY <2>1 DEF Applies
  <2> QED BY <1>0, <1>3, <2>1, <2>2, WriteAdvances DEF SaveMetadata
<1>4. ASSUME NEW n \in Names, DeleteLocalFile(n) PROVE \A m \in Names : IndexStep(m)
  <2> DEFINE e == Tombstone(index[n])
  <2>1. index[n] \in EntryType /\ index[n].name = n
    BY <1>4 DEF DeleteLocalFile, IInv, TypeOK
  <2>2. e \in EntryType /\ e.name = n /\ e.version = index[n].version + 1 /\ index[n].version \in Nat
    BY <2>1 DEF Tombstone, EntryType
  <2>3. Applies(e, index[e.name])
    BY <2>2 DEF Applies, Wins
  <2> QED BY <1>0, <1>4, <2>2, <2>3, WriteAdvances DEF DeleteLocalFile
<1>5. ASSUME NEW e \in Entries, RemoteUpsert(e) PROVE \A n \in Names : IndexStep(n)
  BY <1>0, <1>5, EntriesType, WriteAdvances DEF RemoteUpsert
<1>6. ASSUME NEW t \in Tasks, PruneTask(t) PROVE \A n \in Names : IndexStep(n)
  BY <1>6 DEF PruneTask, IndexStep
<1> QED
  BY <1>1, <1>2, <1>3, <1>4, <1>5, <1>6
  DEF Next, vars, mdVars, SaveCommit, StageCommit, SaveAbort, SetSubscription, Uncache, UncacheBlob,
      DeleteBlobIfOrphan, StoreCommit, StoreAccept, StoreDiscard, StoreAbort, FetchBlob, SweepView,
      SweepSkip, SweepDelete, SweepDeleteFails, SweepClear, TaskCheckpoint, TaskTerminal, Crash

-----------------------------------------------------------------------------
\* The inductive invariant holds in every reachable state of a node's storage.
THEOREM Inductive == Spec => []IInv
BY InitInv, NextInv, PTL DEF Spec

\* The state of a node's storage is always well typed; in particular an index
\* entry is stored under its own name.
THEOREM TypeCorrect == Spec => []TypeOK
<1>1. IInv => TypeOK
  BY DEF IInv
<1> QED BY <1>1, Inductive, PTL

\* A subscribed file whose content was saved or downloaded here stays readable,
\* whatever the collector, the other names, the tasks and crashes do.
THEOREM ReadableFiles == Spec => []StoredIsReadable
<1>1. IInv => StoredIsReadable
  BY DEF IInv
<1> QED BY <1>1, Inductive, PTL

\* A blob that lost its last live entry stays in the durable queue until it is
\* deleted or in use again.
THEOREM NoForgottenOrphan == Spec => []OrphansQueued
<1>1. IInv => OrphansQueued
  BY DEF IInv
<1> QED BY <1>1, Inductive, PTL

\* No write moves an index entry down the order that all nodes agree on.
THEOREM IndexMonotone == Spec => IndexAdvances
<1>1. IInv /\ [Next]_vars => [\A n \in Names : IndexStep(n)]_vars
  BY NextAdvances
<1> QED BY <1>1, Inductive, PTL DEF Spec, IndexAdvances

=============================================================================
