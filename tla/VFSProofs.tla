------------------------------ MODULE VFSProofs -------------------------------
(***************************************************************************)
(* Proofs about the replicated VFS, for any set of nodes, any set of       *)
(* hashes and any bound on versions.  The order compareIndexEntries is a   *)
(* strict total order; hence a node that keeps the winner of every         *)
(* comparison holds the greatest entry it was told (HoldsGreatest), which  *)
(* does not depend on the order of arrival (SameWinner), and every step of *)
(* the nodes is a step of the replicated register.  The blobs that follow: *)
(* a reservation never outlives the work it stands for, for any number of  *)
(* names, handlers, workers and peers, and any capacity of the queue.      *)
(***************************************************************************)
EXTENDS VFSReplication, Downloads, TLAPS

Slots == Entries \cup {NoEntry}

\* Content hashes are naturals and versions start at one.
LEMMA Bounds == Hashes \subseteq Nat /\ MaxVersion \in Nat /\ 1..MaxVersion \subseteq Nat \ {0}
BY ReplicationAssumption DEF ReplicationAssumption

\* An entry of the set Entries, field by field.
LEMMA EntryParts ==
  ASSUME NEW e \in Entries
  PROVE  /\ e.name = Name
         /\ e.version \in 1..MaxVersion
         /\ e.deleted \in BOOLEAN
         /\ e.hash \in Hashes
         /\ e.size \in Hashes
         /\ e = [name |-> e.name, version |-> e.version, deleted |-> e.deleted, hash |-> e.hash,
                 size |-> e.size]
BY DEF Entries

\* The fields of an entry; it is determined by them.
LEMMA EntryFields ==
  ASSUME NEW e \in Slots
  PROVE  /\ e.name \in Nat
         /\ e.version \in Nat
         /\ e.deleted \in BOOLEAN
         /\ e.hash \in Nat
         /\ e.size \in Nat
         /\ e = [name |-> e.name, version |-> e.version, deleted |-> e.deleted, hash |-> e.hash,
                 size |-> e.size]
<1>1. CASE e = NoEntry
  <2>1. e.name = 0 /\ e.version = 0 /\ e.hash = 0 /\ e.size = 0
    BY <1>1 DEF NoEntry, NoHash
  <2>2. e.deleted = FALSE
    BY <1>1, Zenon DEF NoEntry
  <2>3. e = [name |-> e.name, version |-> e.version, deleted |-> e.deleted, hash |-> e.hash,
             size |-> e.size]
    BY <1>1, <2>1, <2>2, Zenon DEF NoEntry, NoHash
  <2>4. e.deleted \in BOOLEAN
    BY <2>2, Zenon
  <2>5. e.name \in Nat /\ e.version \in Nat /\ e.hash \in Nat /\ e.size \in Nat
    BY <2>1
  <2> QED BY <2>3, <2>4, <2>5, Zenon
<1>2. CASE e \in Entries
  <2>1. e.name \in Nat /\ e.version \in Nat /\ e.hash \in Nat /\ e.size \in Nat
    BY <1>2, EntryParts, Bounds DEF Name
  <2>2. e.deleted \in BOOLEAN
    BY <1>2 DEF Entries
  <2>3. e = [name |-> e.name, version |-> e.version, deleted |-> e.deleted, hash |-> e.hash,
             size |-> e.size]
    BY <1>2 DEF Entries
  <2> QED BY <2>1, <2>2, <2>3
<1> QED BY <1>1, <1>2 DEF Slots

\* compareIndexEntries is never positive both ways.
LEMMA WinsAsymmetric ==
  ASSUME NEW a \in Slots, NEW b \in Slots, Wins(a, b)
  PROVE  ~Wins(b, a) /\ a # b
BY EntryFields DEF Wins

\* An entry that beats one that beats a third beats the third.
LEMMA WinsTransitive ==
  ASSUME NEW a \in Slots, NEW b \in Slots, NEW c \in Slots, Wins(a, b), Wins(b, c)
  PROVE  Wins(a, c)
BY EntryFields DEF Wins

\* compareIndexEntries is zero only for equal entries.
LEMMA WinsTotal ==
  ASSUME NEW a \in Slots, NEW b \in Slots, a # b
  PROVE  Wins(a, b) \/ Wins(b, a)
<1> SUFFICES ASSUME ~Wins(a, b), ~Wins(b, a) PROVE a = b
  OBVIOUS
<1>1. a.version = b.version
  BY EntryFields DEF Wins
<1>2. a.deleted = b.deleted
  BY <1>1, EntryFields DEF Wins
<1>3. a.hash = b.hash /\ a.size = b.size /\ a.name = b.name
  BY <1>1, <1>2, EntryFields DEF Wins
<1> QED BY <1>1, <1>2, <1>3, EntryFields

\* What a write leaves in the index: the greater of the old and the new entry.
LEMMA ResolveGreater ==
  ASSUME NEW c \in Slots, NEW entry \in EntryType, Written(entry, c) \in Entries,
         entry.version = 0 \/ entry \in Entries
  PROVE  LET w == Written(entry, c)
             r == Resolve(entry, c)
         IN  /\ \/ r = w /\ Wins(w, c)
                \/ r = c /\ c # NoEntry /\ (c = w \/ Wins(c, w))
             /\ entry.version = 0 \/ Wins(entry, c) => r = w /\ Wins(w, c)
<1> DEFINE w == Written(entry, c)
           r == Resolve(entry, c)
<1>0. w \in Slots /\ w.version \in Nat /\ w.version # 0 /\ c.version \in Nat
  BY EntryFields DEF Slots, Entries
<1>1. CASE entry.version = 0
  <2>1. r = w
    BY <1>1 DEF Resolve, Applies
  <2>2. w.version = NextVersion(c)
    <3>1. w = [entry EXCEPT !.version = NextVersion(c)]
      BY <1>1 DEF Written
    <3>2. "version" \in DOMAIN entry
      BY DEF EntryType
    <3> QED BY <3>1, <3>2 DEF EntryType
  <2>3. NextVersion(c) > c.version
    BY <1>0 DEF NextVersion, Exists, NoEntry
  <2>4. Wins(w, c)
    BY <2>2, <2>3 DEF Wins
  <2> QED BY <2>1, <2>4
<1>2. CASE entry \in Entries /\ entry.version # 0
  <2>0. entry.version > 0 /\ entry \in Slots
    BY <1>2, EntryFields DEF Slots
  <2>1. w = entry
    BY <2>0 DEF Written
  <2>2. CASE c = NoEntry
    BY <2>0, <2>1, <2>2, <1>0 DEF Resolve, Applies, Exists, Wins, NoEntry
  <2>3. CASE c # NoEntry /\ Wins(entry, c)
    BY <2>0, <2>1, <2>3 DEF Resolve, Applies, Exists
  <2>4. CASE c # NoEntry /\ ~Wins(entry, c)
    <3>1. r = c
      BY <2>0, <2>4 DEF Resolve, Applies, Exists
    <3>2. c = entry \/ Wins(c, entry)
      BY <2>0, <2>4, WinsTotal
    <3> QED BY <3>1, <3>2, <2>1, <2>4, <1>2
  <2> QED BY <2>2, <2>3, <2>4
<1> QED BY <1>1, <1>2

-----------------------------------------------------------------------------
\* Upsert at one node, of an entry that is already versioned or gets the next
\* version, keeps the invariant; the node moves forward or stays.
LEMMA UpsertInv ==
  ASSUME IInv, NEW n \in Nodes, NEW entry \in EntryType, entry.version = 0 \/ entry \in Entries,
         Written(entry, index[n]) \in Entries, Upsert(n, entry)
  PROVE  /\ index' \in [Nodes -> Slots]
         /\ seen' \in [Nodes -> SUBSET Entries]
         /\ HoldsGreatest'
         /\ Wrote' = Wrote \cup {Written(entry, index[n])}
         /\ \/ index' = index
            \/ /\ Wins(Written(entry, index[n]), index[n])
               /\ index' = [index EXCEPT ![n] = Written(entry, index[n])]
         /\ entry.version = 0 \/ Wins(entry, index[n]) =>
              /\ Wins(Written(entry, index[n]), index[n])
              /\ index' = [index EXCEPT ![n] = Written(entry, index[n])]
<1> DEFINE c == index[n]
           w == Written(entry, c)
           r == Resolve(entry, c)
<1>1. index \in [Nodes -> Slots] /\ seen \in [Nodes -> SUBSET Entries] /\ HoldsGreatest
  BY DEF IInv, TypeOK, Slots
<1>2. c \in Slots /\ w \in Entries
  BY <1>1
<1>3. /\ \/ r = w /\ Wins(w, c)
         \/ r = c /\ c # NoEntry /\ (c = w \/ Wins(c, w))
      /\ entry.version = 0 \/ Wins(entry, c) => r = w /\ Wins(w, c)
  BY <1>2, ResolveGreater
<1>4. index' = [index EXCEPT ![n] = r] /\ seen' = [seen EXCEPT ![n] = @ \cup {w}]
  BY DEF Upsert
<1>5. r \in Slots /\ w \in Slots
  BY <1>2, <1>3 DEF Slots
<1> HIDE DEF c, w, r
<1>6. index' \in [Nodes -> Slots] /\ seen' \in [Nodes -> SUBSET Entries]
  BY <1>1, <1>2, <1>4, <1>5
<1>7. ASSUME NEW p \in Nodes
      PROVE  /\ IF seen'[p] = {} THEN index'[p] = NoEntry ELSE index'[p] \in seen'[p]
             /\ \A e \in seen'[p] : e = index'[p] \/ Wins(index'[p], e)
  <2>1. CASE p # n
    BY <2>1, <1>1, <1>4 DEF HoldsGreatest
  <2>2. CASE p = n
    <3>1. index'[p] = r /\ seen'[p] = seen[n] \cup {w} /\ index[n] = c
      BY <2>2, <1>1, <1>4 DEF c
    <3>2. IF seen[n] = {} THEN c = NoEntry ELSE c \in seen[n]
      BY <3>1, <1>1 DEF HoldsGreatest
    <3>3. \A e \in seen[n] : e = c \/ Wins(c, e)
      BY <3>1, <1>1 DEF HoldsGreatest
    <3>4. r \in seen[n] \cup {w}
      BY <1>3, <3>2
    <3>5. ASSUME NEW e \in seen[n] \cup {w} PROVE e = r \/ Wins(r, e)
      <4>1. e \in Slots
        BY <1>1, <1>5 DEF Slots
      <4>2. CASE r = w /\ Wins(w, c)
        BY <4>1, <4>2, <3>3, <1>2, <1>5, WinsTransitive
      <4>3. CASE r = c /\ (c = w \/ Wins(c, w))
        BY <4>3, <3>3
      <4> QED BY <4>2, <4>3, <1>3
    <3> QED BY <3>1, <3>4, <3>5
  <2> QED BY <2>1, <2>2
<1>8. HoldsGreatest'
  BY <1>7 DEF HoldsGreatest
<1>9. Wrote' = Wrote \cup {w}
  BY <1>1, <1>4 DEF Wrote
<1>10. index' = index \/ (Wins(w, c) /\ index' = [index EXCEPT ![n] = w])
  BY <1>1, <1>3, <1>4 DEF c
<1>11. entry.version = 0 \/ Wins(entry, c) => Wins(w, c) /\ index' = [index EXCEPT ![n] = w]
  BY <1>3, <1>4
<1> QED BY <1>6, <1>8, <1>9, <1>10, <1>11 DEF c, w

\* The three kinds of entries that are written: a local save, a tombstone, and
\* an entry somebody wrote before.
LEMMA SaveEntry ==
  ASSUME NEW c \in Slots, NEW h \in Hashes, c.version < MaxVersion
  PROVE  LET entry == [name |-> Name, version |-> 0, deleted |-> FALSE, hash |-> h, size |-> h]
         IN  entry \in EntryType /\ entry.version = 0 /\ Written(entry, c) \in Entries
<1> DEFINE entry == [name |-> Name, version |-> 0, deleted |-> FALSE, hash |-> h, size |-> h]
<1>1. entry \in EntryType /\ entry.version = 0
  BY ReplicationAssumption DEF EntryType, Name, ReplicationAssumption
<1>2. NextVersion(c) \in 1..MaxVersion
  BY EntryFields, ReplicationAssumption DEF NextVersion, Exists, ReplicationAssumption, NoEntry
<1>3. Written(entry, c) = [entry EXCEPT !.version = NextVersion(c)]
  BY <1>1 DEF Written
<1>4. Written(entry, c) =
        [name |-> Name, version |-> NextVersion(c), deleted |-> FALSE, hash |-> h, size |-> h]
  BY <1>3
<1>5. Written(entry, c) \in Entries
  <2> HIDE DEF entry
  <2> QED BY <1>2, <1>4 DEF Entries
<1> QED BY <1>1, <1>5

\* The tombstone of a deletion is an entry with its own version, which the write
\* rule leaves as it is, and it beats the entry that is deleted.
LEMMA TombstoneEntry ==
  ASSUME NEW c \in Slots, Exists(c), c.version < MaxVersion
  PROVE  /\ Tombstone(c) \in Entries
         /\ Tombstone(c) \in EntryType
         /\ \A x : Written(Tombstone(c), x) = Tombstone(c)
         /\ Wins(Tombstone(c), c)
<1>1. c \in Entries
  BY DEF Slots, Exists
<1>2. c.version + 1 \in 1..MaxVersion /\ c.version \in Nat
  BY <1>1, ReplicationAssumption DEF Entries, ReplicationAssumption
<1>3. Tombstone(c) \in Entries
  BY <1>1, <1>2 DEF Tombstone, Entries
<1>4. Tombstone(c) \in EntryType
  BY <1>1, <1>2, EntryParts, Bounds DEF Tombstone, EntryType, Name
<1>5. Tombstone(c).version > 0
  BY <1>2 DEF Tombstone
<1>6. Wins(Tombstone(c), c)
  <2>1. Tombstone(c).version = c.version + 1
    BY DEF Tombstone
  <2> QED BY <1>2, <2>1 DEF Wins
<1> QED BY <1>3, <1>4, <1>5, <1>6 DEF Written

\* The write rule leaves an entry that has a version as it is.
LEMMA KnownEntry ==
  ASSUME NEW e \in Entries
  PROVE  e \in EntryType /\ \A x : Written(e, x) = e
<1>1. e \in EntryType
  BY EntryParts, Bounds DEF EntryType, Name
<1>2. e.version > 0
  BY ReplicationAssumption DEF Entries, ReplicationAssumption
<1> QED BY <1>1, <1>2 DEF Written

-----------------------------------------------------------------------------
\* A step of the replicated register, or none.
Forward == [Register!Next]_<<index, Wrote>>

\* The register orders entries as compareIndexEntries does.
LEMMA RegisterOrder == \A a, b : Register!Wins(a, b) <=> Wins(a, b)
BY DEF Register!Wins, Wins

\* A local write is a Write of the register.
LEMMA LocalStep ==
  ASSUME IInv, NEW n \in Nodes, NEW entry \in EntryType, entry.version = 0 \/ entry \in Entries,
         Written(entry, index[n]) \in Entries, entry.version = 0 \/ Wins(entry, index[n]),
         Upsert(n, entry), UNCHANGED sync
  PROVE  IInv' /\ Forward
<1> DEFINE w == Written(entry, index[n])
<1>1. /\ index' \in [Nodes -> Slots]
      /\ seen' \in [Nodes -> SUBSET Entries]
      /\ HoldsGreatest'
      /\ Wrote' = Wrote \cup {w}
      /\ Wins(w, index[n])
      /\ index' = [index EXCEPT ![n] = w]
  BY UpsertInv
<1>2. TypeOK' /\ ManifestsWritten'
  BY <1>1 DEF IInv, TypeOK, ManifestsWritten, Slots
<1>3. Register!Write(n, w)
  BY <1>1, RegisterOrder DEF Register!Write
<1> QED BY <1>1, <1>2, <1>3 DEF IInv, Forward, Register!Next

\* Being told an entry that somebody wrote is a Learn of the register, or no step.
LEMMA ToldStep ==
  ASSUME IInv, NEW n \in Nodes, NEW e \in Wrote, Upsert(n, e),
         sync' \in [Nodes -> [pc : {"idle", "apply", "push"}, peer : Nodes, manifest : Slots]],
         \A p \in Nodes : sync'[p].manifest \in {sync[p].manifest, NoEntry}
  PROVE  IInv' /\ Forward
<1>1. e \in Entries
  BY DEF IInv, TypeOK, Wrote
<1>2. e \in EntryType /\ Written(e, index[n]) = e
  BY <1>1, KnownEntry
<1>3. /\ index' \in [Nodes -> Slots]
      /\ seen' \in [Nodes -> SUBSET Entries]
      /\ HoldsGreatest'
      /\ Wrote' = Wrote \cup {e}
      /\ index' = index \/ (Wins(e, index[n]) /\ index' = [index EXCEPT ![n] = e])
  BY <1>1, <1>2, UpsertInv
<1>4. Wrote' = Wrote
  BY <1>3
<1>5. TypeOK' /\ ManifestsWritten'
  BY <1>3, <1>4 DEF IInv, TypeOK, ManifestsWritten, Slots
<1>6. CASE index' = index
  BY <1>3, <1>4, <1>5, <1>6 DEF IInv, Forward
<1>7. CASE Wins(e, index[n]) /\ index' = [index EXCEPT ![n] = e]
  <2>1. Register!Learn(n, e)
    BY <1>4, <1>7, RegisterOrder DEF Register!Learn
  <2> QED BY <1>1, <1>3, <1>5, <2>1 DEF IInv, Forward, Register!Next
<1> QED BY <1>3, <1>6, <1>7

\* A step that leaves index and seen alone.
LEMMA QuietStep ==
  ASSUME IInv, UNCHANGED <<index, seen>>,
         sync' \in [Nodes -> [pc : {"idle", "apply", "push"}, peer : Nodes, manifest : Slots]],
         \A p \in Nodes :
           sync'[p].manifest \in {sync[p].manifest, NoEntry} \cup {index[q] : q \in Nodes}
  PROVE  IInv' /\ Forward
<1>1. Wrote' = Wrote /\ HoldsGreatest'
  BY DEF IInv, HoldsGreatest, Wrote
<1>2. \A q \in Nodes : index[q] \in Wrote \cup {NoEntry}
  BY DEF IInv, HoldsGreatest, Wrote
<1>3. ManifestsWritten'
  BY <1>1, <1>2 DEF IInv, ManifestsWritten
<1>4. TypeOK'
  BY DEF IInv, TypeOK, Slots
<1> QED BY <1>1, <1>3, <1>4 DEF IInv, Forward

\* Every step keeps the invariant and is a step of the register or none.
LEMMA NextInv == IInv /\ [Next]_vars => IInv' /\ Forward
<1> SUFFICES ASSUME IInv, [Next]_vars PROVE IInv' /\ Forward
  OBVIOUS
<1>0. /\ index \in [Nodes -> Slots]
      /\ sync \in [Nodes -> [pc : {"idle", "apply", "push"}, peer : Nodes, manifest : Slots]]
      /\ \A n \in Nodes : index[n] \in Wrote \cup {NoEntry}
  BY DEF IInv, TypeOK, Slots, HoldsGreatest, Wrote
<1>idle. ASSUME NEW n \in Nodes
         PROVE  IdleSync \in [pc : {"idle", "apply", "push"}, peer : Nodes, manifest : Slots]
  BY DEF IdleSync, Slots
<1>1. ASSUME NEW n \in Nodes, NEW h \in Hashes, SaveLocalFile(n, h) PROVE IInv' /\ Forward
  <2> DEFINE e == [name |-> Name, version |-> 0, deleted |-> FALSE, hash |-> h, size |-> h]
  <2>1. Upsert(n, e) /\ UNCHANGED sync /\ index[n].version < MaxVersion
    BY <1>1 DEF SaveLocalFile
  <2>2. e \in EntryType /\ e.version = 0 /\ Written(e, index[n]) \in Entries
    BY <1>0, <2>1, SaveEntry
  <2> HIDE DEF e
  <2> QED BY <2>1, <2>2, LocalStep
<1>2. ASSUME NEW n \in Nodes, DeleteLocalFile(n) PROVE IInv' /\ Forward
  <2> DEFINE e == Tombstone(index[n])
  <2>1. Upsert(n, e) /\ UNCHANGED sync /\ index[n].version < MaxVersion /\ Exists(index[n])
    BY <1>2 DEF DeleteLocalFile
  <2>2. /\ e \in Entries /\ e \in EntryType /\ Written(e, index[n]) = e
        /\ Wins(e, index[n])
    BY <1>0, <2>1, TombstoneEntry
  <2> HIDE DEF e
  <2> QED BY <2>1, <2>2, LocalStep
<1>3. ASSUME NEW n \in Nodes, NEW e \in Wrote, Notification(n, e) PROVE IInv' /\ Forward
  BY <1>0, <1>3, ToldStep DEF Notification
<1>4. ASSUME NEW n \in Nodes, NEW p \in Nodes, SyncFetch(n, p) PROVE IInv' /\ Forward
  <2>1. sync' = [sync EXCEPT ![n] = [pc |-> "apply", peer |-> p, manifest |-> index[p]]]
    BY <1>4 DEF SyncFetch
  <2>2. sync' \in [Nodes -> [pc : {"idle", "apply", "push"}, peer : Nodes, manifest : Slots]]
    BY <1>0, <2>1
  <2>3. \A q \in Nodes :
          sync'[q].manifest \in {sync[q].manifest, NoEntry} \cup {index[x] : x \in Nodes}
    BY <1>0, <2>1
  <2> QED BY <1>4, <2>2, <2>3, QuietStep DEF SyncFetch
<1>5. ASSUME NEW n \in Nodes, SyncApply(n) PROVE IInv' /\ Forward
  <2>1. sync' = [sync EXCEPT ![n].pc = "push"]
    BY <1>5 DEF SyncApply
  <2>2. /\ sync' \in [Nodes -> [pc : {"idle", "apply", "push"}, peer : Nodes, manifest : Slots]]
        /\ \A q \in Nodes : sync'[q].manifest = sync[q].manifest
    BY <1>0, <2>1
  <2>3. CASE Exists(sync[n].manifest)
    <3>1. sync[n].manifest \in Wrote
      BY <2>3 DEF IInv, ManifestsWritten, Exists
    <3> QED BY <1>5, <2>2, <2>3, <3>1, ToldStep DEF SyncApply
  <2>4. CASE ~Exists(sync[n].manifest)
    BY <1>5, <2>2, <2>4, QuietStep DEF SyncApply
  <2> QED BY <2>3, <2>4
<1>6. ASSUME NEW n \in Nodes, SyncPush(n) PROVE IInv' /\ Forward
  <2>1. sync' = [sync EXCEPT ![n] = IdleSync]
    BY <1>6 DEF SyncPush
  <2>2. /\ sync' \in [Nodes -> [pc : {"idle", "apply", "push"}, peer : Nodes, manifest : Slots]]
        /\ \A q \in Nodes : sync'[q].manifest \in {sync[q].manifest, NoEntry}
    BY <1>0, <1>idle, <2>1 DEF IdleSync
  <2>3. CASE UNCHANGED <<index, seen>>
    BY <2>2, <2>3, QuietStep
  <2>4. CASE Exists(index[n]) /\ Upsert(sync[n].peer, index[n])
    <3>1. index[n] \in Wrote /\ sync[n].peer \in Nodes
      BY <1>0, <2>4 DEF Exists
    <3> QED BY <2>2, <2>4, <3>1, ToldStep
  <2> QED BY <1>6, <2>3, <2>4 DEF SyncPush
<1>7. ASSUME NEW n \in Nodes, SyncFails(n) PROVE IInv' /\ Forward
  <2>1. sync' = [sync EXCEPT ![n] = IdleSync]
    BY <1>7 DEF SyncFails
  <2>2. /\ sync' \in [Nodes -> [pc : {"idle", "apply", "push"}, peer : Nodes, manifest : Slots]]
        /\ \A q \in Nodes : sync'[q].manifest \in {sync[q].manifest, NoEntry}
    BY <1>0, <1>idle, <2>1 DEF IdleSync
  <2> QED BY <1>7, <2>2, QuietStep DEF SyncFails
<1>8. CASE UNCHANGED vars
  BY <1>0, <1>8, QuietStep DEF vars
<1> QED BY <1>1, <1>2, <1>3, <1>4, <1>5, <1>6, <1>7, <1>8 DEF Next

\* No node has been told anything at the start.
LEMMA InitInv == Init => IInv
<1> SUFFICES ASSUME Init PROVE IInv
  OBVIOUS
<1>1. \A n \in Nodes : IdleSync \in [pc : {"idle", "apply", "push"}, peer : Nodes, manifest : Slots]
  BY DEF IdleSync, Slots
<1>2. TypeOK
  BY <1>1 DEF Init, TypeOK, Slots
<1>3. HoldsGreatest /\ ManifestsWritten
  BY DEF Init, HoldsGreatest, ManifestsWritten, IdleSync
<1> QED BY <1>2, <1>3 DEF IInv

(***************************************************************************)
(* In every reachable state the variables have their types, every node     *)
(* holds the greatest entry it was told, and manifests in use are old      *)
(* entries.                                                                *)
(***************************************************************************)
THEOREM Inductive == Spec => []IInv
<1>1. Init => IInv
  BY InitInv
<1>2. IInv /\ [Next]_vars => IInv'
  BY NextInv
<1> QED BY <1>1, <1>2, PTL DEF Spec

(***************************************************************************)
(* An index only ever holds entries with a version, a writer and a hash    *)
(* that the mutations make (Upsert, DeleteFile, the manifests of a sync).  *)
(***************************************************************************)
THEOREM ReplicationTypes == Spec => []TypeOK
<1>1. IInv => TypeOK
  BY DEF IInv
<1> QED BY <1>1, Inductive, PTL

(***************************************************************************)
(* Nodes that were told the same entries, in whatever order and however    *)
(* often, hold the same entry (compareIndexEntries, resolveVFSWrite).      *)
(***************************************************************************)
THEOREM OrderIndependence == Spec => []SameWinner
<1>1. IInv => SameWinner
  <2> SUFFICES ASSUME IInv, NEW n \in Nodes, NEW p \in Nodes, seen[n] = seen[p]
               PROVE  index[n] = index[p]
    BY DEF SameWinner
  <2>1. index[n] \in Slots /\ index[p] \in Slots
    BY DEF IInv, TypeOK, Slots
  <2>2. CASE seen[n] = {}
    BY <2>2 DEF IInv, HoldsGreatest
  <2>3. CASE seen[n] # {}
    <3>1. index[n] \in seen[p] /\ index[p] \in seen[n]
      BY <2>3 DEF IInv, HoldsGreatest
    <3>2. /\ index[n] = index[p] \/ Wins(index[p], index[n])
          /\ index[p] = index[n] \/ Wins(index[n], index[p])
      BY <3>1 DEF IInv, HoldsGreatest
    <3> QED BY <3>2, <2>1, WinsAsymmetric
  <2> QED BY <2>2, <2>3
<1> QED BY <1>1, Inductive, PTL

(***************************************************************************)
(* The nodes implement the replicated register: a local write wins over    *)
(* what the node holds, and gossip, manifests and pushes only ever move a  *)
(* node forward, to an entry that somebody wrote.                          *)
(***************************************************************************)
THEOREM Refinement == Spec => ImplementsRegister
<1>1. Init => Register!Init
  BY DEF Init, Register!Init, Wrote, NoEntry, Register!NoEntry, NoHash, Register!NoHash
<1>2. IInv /\ [Next]_vars => [Register!Next]_<<index, Wrote>>
  BY NextInv DEF Forward
<1> QED BY <1>1, <1>2, Inductive, PTL DEF Spec, ImplementsRegister, Register!Spec

(* ------------------------------- downloads ------------------------------- *)

\* The time a leaf may take, by default.
USE ZenonT(5), SMTT(60)

WorkerRecs  == [pc : {"idle", "fetch", "accept", "discard", "end"}, job : Jobs \cup {NoJob},
                tries : 0..MaxTries, bad : BOOLEAN, made : BOOLEAN]
HandlerRecs == [pc : {"idle", "persist", "reserve", "callback"}, job : Jobs \cup {NoJob}]
RecRecs     == [pc : {"idle", "scan", "complete", "reserve", "callback"}, todo : SUBSET Jobs,
                job : Jobs \cup {NoJob}]

\* A job is about a version its name has reached.
Seen(job) == job \in Jobs /\ job[2] <= cur[job[1]]

JobsSeen ==
  /\ \A i \in 1..Len(queue) : Seen(queue[i])
  /\ \A w \in Workers : worker[w].pc # "idle" => Seen(worker[w].job)
  /\ \A h \in Handlers : handler[h].pc # "idle" => Seen(handler[h].job)
  /\ \A j \in rec.todo : Seen(j)
  /\ rec.pc \notin {"idle", "scan"} => Seen(rec.job)

\* Only a superseded file is discarded.
Discarded ==
  \A w \in Workers : worker[w].pc = "discard" => worker[w].job[2] < cur[worker[w].job[1]]

(***************************************************************************)
(* Who answers for the reservation of name n: its own reserver, the queue, *)
(* or a worker that has not been sent a wrong content.  One that has may   *)
(* end without a release, as its quarantine can fail; but it released the  *)
(* reservation when the content came.                                      *)
(***************************************************************************)
Answered(n) ==
  LET job == <<n, active[n].ver>>
  IN \/ \E i \in 1..Len(queue) : queue[i] = job
     \/ \E w \in Workers : worker[w].pc # "idle" /\ ~ worker[w].bad /\ worker[w].job = job
     \/ \E h \in Handlers : /\ active[n].by = h
                            /\ handler[h].pc = "callback" /\ handler[h].job = job
     \/ active[n].by = "reconcile" /\ rec.pc = "callback" /\ rec.job = job

AllAnswered == \A n \in Names : active[n].ver # 0 /\ active[n].ver = cur[n] => Answered(n)

DLInv == DLTypeOK /\ JobsSeen /\ Discarded /\ AllAnswered

(* ------------------------------- helpers --------------------------------- *)

Actives == [Names -> [ver : 0..LastVersion, by : Handlers \cup {"none", "reconcile"}]]

\* The parts of a job.
LEMMA JobParts ==
  ASSUME NEW j \in Jobs
  PROVE  j[1] \in Names /\ j[2] \in 1..LastVersion /\ j = <<j[1], j[2]>>
BY DEF Jobs, Versions

\* enqueueDownload puts the job at the end of the queue.
LEMMA AppendFacts ==
  ASSUME NEW q \in Seq(Jobs), NEW j \in Jobs
  PROVE  /\ Append(q, j) \in Seq(Jobs) /\ Len(Append(q, j)) = Len(q) + 1 /\ Len(q) \in Nat
         /\ \A i \in 1..Len(q) : Append(q, j)[i] = q[i]
         /\ Append(q, j)[Len(q) + 1] = j
OBVIOUS

\* A worker takes the first job and leaves the others.
LEMMA TailFacts ==
  ASSUME NEW q \in Seq(Jobs), q # <<>>
  PROVE  /\ Tail(q) \in Seq(Jobs) /\ Len(Tail(q)) = Len(q) - 1 /\ Len(q) \in Nat /\ Len(q) > 0
         /\ \A i \in 1..Len(q) - 1 : Tail(q)[i] = q[i + 1]
         /\ Head(q) = q[1] /\ Head(q) \in Jobs
OBVIOUS

\* releaseDownloadIntent drops the reservation of exactly this file.
LEMMA ReleasedFacts ==
  ASSUME DLTypeOK, NEW j \in Jobs
  PROVE  LET a == Released(active, j)
         IN /\ a \in Actives /\ a[j[1]].ver # j[2]
            /\ \A n \in Names : a[n] = active[n] \/ a[n].ver = 0
<1>1. active \in Actives
  BY DEF DLTypeOK, Actives
<1>2. j[1] \in Names /\ j[2] \in Nat /\ j[2] # 0
  BY JobParts, DownloadsAssumption
<1>3. NotActive \in [ver : 0..LastVersion, by : Handlers \cup {"none", "reconcile"}]
  BY DownloadsAssumption DEF NotActive
<1>4. NotActive.ver = 0
  BY DEF NotActive
<1> QED BY <1>1, <1>2, <1>3, <1>4 DEF Released, Actives

\* Without the jobs of the processes, what a step must keep of DLTypeOK.
LEMMA TypeParts ==
  DLTypeOK <=>
             /\ cur \in [Names -> 0..LastVersion] /\ subs \subseteq Names /\ blobs \subseteq Jobs
             /\ intent \in [Names -> 0..LastVersion] /\ active \in Actives
             /\ queue \in Seq(Jobs) /\ Len(queue) <= QueueCap /\ mu \in Workers \cup {"free"}
             /\ worker \in [Workers -> WorkerRecs] /\ handler \in [Handlers -> HandlerRecs]
             /\ rec \in RecRecs /\ crashes \in 0..MaxCrashes
             /\ quarantined \subseteq Jobs /\ misread \subseteq Jobs
             /\ \A n \in Names : intent[n] <= cur[n] /\ active[n].ver <= cur[n]
BY DEF DLTypeOK, Actives, WorkerRecs, HandlerRecs, RecRecs

\* Processes at rest.
LEMMA IdleFacts ==
  /\ IdleWorker \in WorkerRecs /\ IdleWorker.pc = "idle"
  /\ IdleHandler \in HandlerRecs /\ IdleHandler.pc = "idle"
  /\ IdleRec \in RecRecs /\ IdleRec.pc = "idle" /\ IdleRec.todo = {}
<1>1. 0 \in 0..MaxTries
  BY DownloadsAssumption
<1> QED BY <1>1 DEF IdleWorker, IdleHandler, IdleRec, WorkerRecs, HandlerRecs, RecRecs

\* Nothing is reserved at first.
LEMMA DInitInv == DLInit => DLInv
<1> SUFFICES ASSUME DLInit PROVE DLInv
  OBVIOUS
<1>1. NotActive \in [ver : 0..LastVersion, by : Handlers \cup {"none", "reconcile"}]
  BY DownloadsAssumption DEF NotActive
<1>2. NotActive.ver = 0 /\ <<>> \in Seq(Jobs) /\ Len(<<>>) = 0
  BY DEF NotActive
<1>3. DLTypeOK
  BY <1>1, <1>2, IdleFacts, TypeParts, DownloadsAssumption DEF DLInit, Actives
<1>4. JobsSeen /\ Discarded
  BY <1>2, IdleFacts DEF DLInit, JobsSeen, Discarded
<1>5. AllAnswered
  BY <1>2 DEF DLInit, AllAnswered
<1> QED BY <1>3, <1>4, <1>5 DEF DLInv

\* An answered reservation is not stranded.
LEMMA DInvNotStranded == DLInv => NoStrandedReservation
BY DEF DLInv, AllAnswered, Answered, NoStrandedReservation, Carried

(* -------------------------------- workers -------------------------------- *)

\* What a step of a worker that has a job may do.
WorkerCall(w, v) ==
  LET j == worker[w].job
  IN /\ worker' = [worker EXCEPT ![w] = v] /\ v \in WorkerRecs /\ worker[w].pc # "idle"
     /\ v.pc # "idle" => v.job = j
     /\ v.pc = "discard" => j[2] < cur[j[1]]
     /\ \/ active' = Released(active, j)
        \/ /\ active' = active
           /\ worker[w].bad \/ j[2] # cur[j[1]] \/ (v.pc # "idle" /\ ~ v.bad)
     /\ intent' \in {intent, [intent EXCEPT ![j[1]] = IF @ = j[2] THEN 0 ELSE @]}
     /\ blobs' \subseteq Jobs /\ mu' \in Workers \cup {"free"}
     /\ quarantined' \subseteq Jobs /\ misread' \subseteq Jobs
     /\ UNCHANGED <<cur, subs, queue, handler, rec, crashes>>

\* Such a step leaves no reservation without an answer.
LEMMA WorkerCallInv ==
  ASSUME DLInv, NEW w \in Workers, NEW v, WorkerCall(w, v) PROVE DLInv'
<1> DEFINE j == worker[w].job
<1>1. /\ worker' = [worker EXCEPT ![w] = v] /\ v \in WorkerRecs /\ worker[w].pc # "idle"
      /\ v.pc # "idle" => v.job = j
      /\ v.pc = "discard" => j[2] < cur[j[1]]
      /\ blobs' \subseteq Jobs /\ mu' \in Workers \cup {"free"}
      /\ quarantined' \subseteq Jobs /\ misread' \subseteq Jobs
      /\ cur' = cur /\ subs' = subs /\ queue' = queue /\ handler' = handler /\ rec' = rec
      /\ crashes' = crashes
  BY DEF WorkerCall
<1>2. Seen(j) /\ j \in Jobs
  BY <1>1 DEF DLInv, JobsSeen, Seen
<1>3. /\ cur \in [Names -> 0..LastVersion] /\ intent \in [Names -> 0..LastVersion]
      /\ active \in Actives /\ worker \in [Workers -> WorkerRecs]
      /\ \A n \in Names : intent[n] <= cur[n] /\ active[n].ver <= cur[n]
      /\ DLTypeOK
  BY TypeParts DEF DLInv
<1>4. /\ intent' \in [Names -> 0..LastVersion] /\ \A n \in Names : intent'[n] <= cur[n]
  <2>1. intent' \in {intent, [intent EXCEPT ![j[1]] = IF @ = j[2] THEN 0 ELSE @]}
    BY DEF WorkerCall
  <2>2. 0 \in 0..LastVersion /\ j[1] \in Names /\ \A n \in Names : 0 <= cur[n]
    BY <1>2, <1>3, JobParts, DownloadsAssumption
  <2> QED BY <1>3, <2>1, <2>2
<1>5. /\ active' \in Actives
      /\ \A n \in Names : active'[n] = active[n] \/ active'[n].ver = 0
  BY <1>2, <1>3, ReleasedFacts DEF WorkerCall
<1>6. \A n \in Names : active'[n].ver <= cur[n]
  BY <1>3, <1>5, DownloadsAssumption
<1>7. DLTypeOK'
  <2>1. worker' \in [Workers -> WorkerRecs]
    BY <1>1, <1>3
  <2>2. DLTypeOK => subs \subseteq Names /\ queue \in Seq(Jobs) /\ Len(queue) <= QueueCap
                  /\ handler \in [Handlers -> HandlerRecs] /\ rec \in RecRecs
                  /\ crashes \in 0..MaxCrashes
    BY TypeParts
  <2> QED BY <1>1, <1>3, <1>4, <1>5, <1>6, <2>1, <2>2
          DEF DLTypeOK, Actives, WorkerRecs, HandlerRecs, RecRecs
<1>8. /\ worker'[w] = v
      /\ \A u \in Workers \ {w} : worker'[u] = worker[u]
  BY <1>1, <1>3
<1>9. JobsSeen'
  <2>1. \A x : Seen(x)' <=> Seen(x)
    BY <1>1 DEF Seen
  <2>2. ASSUME NEW u \in Workers, worker'[u].pc # "idle" PROVE Seen(worker'[u].job)
    BY <1>1, <1>2, <1>8, <2>2 DEF DLInv, JobsSeen
  <2> QED BY <1>1, <2>1, <2>2 DEF DLInv, JobsSeen
<1>10. Discarded'
  BY <1>1, <1>8 DEF DLInv, Discarded
<1>11. ASSUME NEW n \in Names, active'[n].ver # 0, active'[n].ver = cur[n] PROVE Answered(n)'
  <2>1. active'[n] = active[n] /\ Answered(n)
    BY <1>5, <1>11 DEF DLInv, AllAnswered
  <2>2. ASSUME worker[w].pc # "idle", ~ worker[w].bad, j = <<n, active[n].ver>>
        PROVE  v.pc # "idle" /\ ~ v.bad /\ v.job = j
    <3>1. j[1] = n /\ j[2] = cur[n] /\ active'[j[1]].ver = j[2]
      BY <1>11, <2>1, <2>2
    <3>2. active' # Released(active, j)
      BY <1>2, <1>3, <3>1, ReleasedFacts
    <3> QED BY <1>1, <2>2, <3>1, <3>2 DEF WorkerCall
  <2> QED BY <1>1, <1>8, <2>1, <2>2 DEF Answered
<1>12. AllAnswered'
  BY <1>1, <1>11 DEF AllAnswered
<1> QED BY <1>7, <1>9, <1>10, <1>12 DEF DLInv

\* The next peer or the end of the job: the worker keeps it.
LEMMA NextTryFacts ==
  ASSUME DLTypeOK, NEW w \in Workers, NEW b \in BOOLEAN, NextTry(w, b)
  PROVE  \E v \in WorkerRecs :
           /\ worker' = [worker EXCEPT ![w] = v]
           /\ v.pc \in {"fetch", "end"} /\ v.job = worker[w].job /\ v.bad = (worker[w].bad \/ b)
<1> DEFINE x == worker[w]
           p == IF x.tries < MaxTries THEN "fetch" ELSE "end"
           t == IF x.tries < MaxTries THEN x.tries + 1 ELSE x.tries
           v == [x EXCEPT !.pc = p, !.tries = t, !.bad = x.bad \/ b, !.made = FALSE]
<1>1. worker \in [Workers -> WorkerRecs] /\ x \in WorkerRecs
  BY TypeParts
<1>2. worker' = [worker EXCEPT ![w] = v]
  BY <1>1 DEF NextTry
<1>3. t \in 0..MaxTries /\ p \in {"fetch", "end"} /\ (x.bad \/ b) \in BOOLEAN
  BY <1>1, DownloadsAssumption DEF WorkerRecs
<1> HIDE DEF t, p
<1>4. v \in WorkerRecs /\ v.pc = p /\ v.job = x.job /\ v.bad = (x.bad \/ b)
  BY <1>1, <1>3 DEF WorkerRecs
<1> QED BY <1>2, <1>3, <1>4

\* A fetch that fails keeps the reservation or drops it, and the job goes on.
LEMMA FetchFailsInv == ASSUME DLInv, NEW w \in Workers, FetchFails(w) PROVE DLInv'
<1>1. DLTypeOK /\ FALSE \in BOOLEAN
  BY DEF DLInv
<1>2. PICK v \in WorkerRecs :
        /\ worker' = [worker EXCEPT ![w] = v]
        /\ v.pc \in {"fetch", "end"} /\ v.job = worker[w].job /\ v.bad = (worker[w].bad \/ FALSE)
  BY <1>1, NextTryFacts DEF FetchFails
<1>3. blobs \subseteq Jobs /\ mu \in Workers \cup {"free"} /\ quarantined \subseteq Jobs
      /\ misread \subseteq Jobs
  BY <1>1 DEF DLTypeOK
<1>4. WorkerCall(w, v)
  BY <1>2, <1>3 DEF FetchFails, WorkerCall, mdVars, histVars
<1> QED BY <1>4, WorkerCallInv

\* A wrong content drops the reservation, and the job goes on.
LEMMA FetchMismatchInv == ASSUME DLInv, NEW w \in Workers, FetchMismatch(w) PROVE DLInv'
<1>1. DLTypeOK /\ TRUE \in BOOLEAN
  BY DEF DLInv
<1>2. PICK v \in WorkerRecs :
        /\ worker' = [worker EXCEPT ![w] = v]
        /\ v.pc \in {"fetch", "end"} /\ v.job = worker[w].job /\ v.bad = (worker[w].bad \/ TRUE)
  BY <1>1, NextTryFacts DEF FetchMismatch
<1>3. blobs \subseteq Jobs /\ mu \in Workers \cup {"free"} /\ quarantined \subseteq Jobs
      /\ misread \subseteq Jobs
  BY <1>1 DEF DLTypeOK
<1>4. WorkerCall(w, v)
  BY <1>2, <1>3 DEF FetchMismatch, WorkerCall, mdVars, histVars
<1> QED BY <1>4, WorkerCallInv

\* The commit keeps the job, and finds out whether the file is superseded.
LEMMA StoreCommitInv == ASSUME DLInv, NEW w \in Workers, StoreCommit(w) PROVE DLInv'
<1> DEFINE x == worker[w]
           j == x.job
           p == IF cur[j[1]] = j[2] THEN "accept" ELSE "discard"
           m == j \notin blobs
           v == [x EXCEPT !.pc = p, !.made = m]
<1>1. DLTypeOK /\ worker \in [Workers -> WorkerRecs] /\ x \in WorkerRecs /\ x.pc = "fetch"
  BY TypeParts DEF DLInv, StoreCommit
<1>2. Seen(j)
  BY <1>1 DEF DLInv, JobsSeen
<1>3. j \in Jobs /\ j[1] \in Names /\ j[2] \in Nat /\ cur[j[1]] \in Nat /\ j[2] <= cur[j[1]]
  BY <1>1, <1>2, JobParts, DownloadsAssumption DEF Seen, DLTypeOK
<1>4. worker' = [worker EXCEPT ![w] = v]
  BY <1>1 DEF StoreCommit
<1>5. p \in {"accept", "discard"} /\ m \in BOOLEAN /\ (p = "discard" => j[2] < cur[j[1]])
  BY <1>3
<1> HIDE DEF p, m
<1>6. v \in WorkerRecs /\ v.pc = p /\ v.job = j /\ v.bad = x.bad
  BY <1>1, <1>5 DEF WorkerRecs
<1>7. /\ blobs' \subseteq Jobs /\ mu' \in Workers \cup {"free"}
      /\ quarantined' \subseteq Jobs /\ misread' \subseteq Jobs
      /\ active' = active /\ intent' = intent
      /\ UNCHANGED <<cur, subs, queue, handler, rec, crashes>>
  BY <1>1, <1>3 DEF StoreCommit, DLTypeOK, mdVars, histVars
<1> HIDE DEF v
<1>8. WorkerCall(w, v)
  BY <1>1, <1>4, <1>5, <1>6, <1>7 DEF WorkerCall
<1> QED BY <1>8, WorkerCallInv

\* An accepted file completes its intent and its reservation.
LEMMA StoreAcceptInv == ASSUME DLInv, NEW w \in Workers, StoreAccept(w) PROVE DLInv'
<1>1. DLTypeOK
  BY DEF DLInv
<1>2. WorkerCall(w, IdleWorker)
  BY <1>1, IdleFacts DEF StoreAccept, Complete, WorkerCall, DLTypeOK, mdVars, histVars
<1> QED BY <1>2, WorkerCallInv

\* A failed lookup, or a failed removal of the intent, is a failed attempt.
LEMMA StoreFailsInv ==
  ASSUME DLInv, NEW w \in Workers, StoreLookupFails(w) \/ StoreAcceptFails(w) PROVE DLInv'
<1>1. DLTypeOK /\ FALSE \in BOOLEAN
  BY DEF DLInv
<1>2. PICK v \in WorkerRecs :
        /\ worker' = [worker EXCEPT ![w] = v]
        /\ v.pc \in {"fetch", "end"} /\ v.job = worker[w].job /\ v.bad = (worker[w].bad \/ FALSE)
  BY <1>1, NextTryFacts DEF StoreLookupFails, StoreAcceptFails
<1>3. worker[w].pc # "idle" /\ worker[w].job \in Jobs
  BY DEF DLInv, JobsSeen, Seen, StoreLookupFails, StoreAcceptFails
<1>4. /\ blobs' \subseteq Jobs /\ mu' \in Workers \cup {"free"}
      /\ quarantined' \subseteq Jobs /\ misread' \subseteq Jobs
      /\ active' = active /\ intent' = intent
      /\ UNCHANGED <<cur, subs, queue, handler, rec, crashes>>
  BY <1>1, <1>3 DEF StoreLookupFails, StoreAcceptFails, DLTypeOK, mdVars, histVars
<1>5. WorkerCall(w, v)
  BY <1>2, <1>3, <1>4 DEF WorkerCall
<1> QED BY <1>5, WorkerCallInv

\* A discarded file is superseded: its reservation, if it stays, blocks nothing.
LEMMA StoreDiscardInv == ASSUME DLInv, NEW w \in Workers, StoreDiscard(w) PROVE DLInv'
<1> DEFINE j == worker[w].job
<1>1. DLTypeOK /\ worker[w].pc = "discard" /\ j[2] < cur[j[1]] /\ Seen(j)
  BY DEF DLInv, Discarded, JobsSeen, StoreDiscard
<1>2. j[2] # cur[j[1]]
  BY <1>1, JobParts, DownloadsAssumption DEF Seen, DLTypeOK
<1>3. WorkerCall(w, IdleWorker)
  BY <1>1, <1>2, IdleFacts DEF StoreDiscard, Complete, WorkerCall, DLTypeOK, mdVars, histVars
<1> QED BY <1>3, WorkerCallInv

\* The end of a job drops its reservation, unless a quarantine fails.
LEMMA WorkerEndInv == ASSUME DLInv, NEW w \in Workers, WorkerEnd(w) PROVE DLInv'
<1>1. DLTypeOK /\ worker[w].pc = "end" /\ worker[w].job \in Jobs
  BY DEF DLInv, JobsSeen, Seen, WorkerEnd
<1>2. quarantined' \subseteq Jobs
  BY <1>1 DEF WorkerEnd, DLTypeOK
<1>3. WorkerCall(w, IdleWorker)
  BY <1>1, <1>2, IdleFacts DEF WorkerEnd, Complete, WorkerCall, DLTypeOK, mdVars
<1> QED BY <1>3, WorkerCallInv

\* Taking a job moves the answer from the queue to the worker.
LEMMA WorkerTakeInv == ASSUME DLInv, NEW w \in Workers, WorkerTake(w) PROVE DLInv'
<1> DEFINE v == [IdleWorker EXCEPT !.pc = "fetch", !.job = Head(queue), !.tries = 1]
<1>1. /\ worker[w].pc = "idle" /\ queue # <<>> /\ queue' = Tail(queue)
      /\ worker' = [worker EXCEPT ![w] = v]
      /\ UNCHANGED <<cur, subs, blobs, intent, active, mu, handler, rec, crashes, quarantined,
                     misread>>
  BY DEF WorkerTake, mdVars, histVars
<1>2. DLTypeOK /\ queue \in Seq(Jobs) /\ worker \in [Workers -> WorkerRecs] /\ Len(queue) <= QueueCap
  BY TypeParts DEF DLInv
<1>3. /\ Tail(queue) \in Seq(Jobs) /\ Len(Tail(queue)) = Len(queue) - 1 /\ Len(queue) \in Nat
      /\ Len(queue) > 0 /\ \A i \in 1..Len(queue) - 1 : Tail(queue)[i] = queue[i + 1]
      /\ Head(queue) = queue[1] /\ Head(queue) \in Jobs
  BY <1>1, <1>2, TailFacts
<1>4. v \in WorkerRecs /\ v.pc = "fetch" /\ v.job = queue[1] /\ ~ v.bad
  <2> DEFINE q == Head(queue)
  <2>1. 1 \in 0..MaxTries /\ q \in Jobs \cup {NoJob} /\ q = queue[1]
    BY <1>3, DownloadsAssumption
  <2> HIDE DEF q
  <2>2. /\ [IdleWorker EXCEPT !.pc = "fetch", !.job = q, !.tries = 1] \in WorkerRecs
        /\ [IdleWorker EXCEPT !.pc = "fetch", !.job = q, !.tries = 1].pc = "fetch"
        /\ [IdleWorker EXCEPT !.pc = "fetch", !.job = q, !.tries = 1].job = q
        /\ ~ [IdleWorker EXCEPT !.pc = "fetch", !.job = q, !.tries = 1].bad
    BY <2>1 DEF IdleWorker, WorkerRecs
  <2> QED BY <2>1, <2>2 DEF q
<1> HIDE DEF v
<1>5. worker'[w] = v /\ \A u \in Workers \ {w} : worker'[u] = worker[u]
  BY <1>1, <1>2
<1>6. DLTypeOK'
  <2>1. worker' \in [Workers -> WorkerRecs] /\ Len(queue') <= QueueCap
    BY <1>1, <1>2, <1>3, <1>4, DownloadsAssumption
  <2> QED BY <1>1, <1>2, <1>3, <2>1 DEF DLTypeOK, WorkerRecs
<1>7. 1 \in 1..Len(queue) /\ \A i \in 1..Len(queue') : i + 1 \in 1..Len(queue)
                                                      /\ queue'[i] = queue[i + 1]
  BY <1>1, <1>3
<1>8. JobsSeen'
  BY <1>1, <1>4, <1>5, <1>7 DEF DLInv, JobsSeen, Seen
<1>9. Discarded'
  BY <1>1, <1>4, <1>5 DEF DLInv, Discarded
<1>10. \A i \in 1..Len(queue) : i = 1 \/ (i - 1 \in 1..Len(queue') /\ queue'[i - 1] = queue[i])
  BY <1>1, <1>3
<1>11. ASSUME NEW n \in Names, Answered(n) PROVE Answered(n)'
  <2> DEFINE j == <<n, active[n].ver>>
  <2>0. active' = active /\ handler' = handler /\ rec' = rec
    BY <1>1
  <2>1. ASSUME NEW i \in 1..Len(queue), queue[i] = j PROVE Answered(n)'
    <3>1. CASE i = 1
      BY <1>4, <1>5, <2>0, <2>1, <3>1 DEF Answered
    <3>2. CASE i # 1
      BY <1>10, <2>0, <2>1, <3>2 DEF Answered
    <3> QED BY <3>1, <3>2
  <2>2. ASSUME NEW u \in Workers, worker[u].pc # "idle", ~ worker[u].bad, worker[u].job = j
        PROVE  Answered(n)'
    BY <1>1, <1>5, <2>0, <2>2 DEF Answered
  <2> QED BY <1>11, <2>0, <2>1, <2>2 DEF Answered
<1>12. AllAnswered'
  BY <1>1, <1>11 DEF DLInv, AllAnswered
<1> QED BY <1>6, <1>8, <1>9, <1>12 DEF DLInv

(* -------------------------- requests of handlers ------------------------- *)

\* Steps of processes that touch neither a reservation nor the queue.
Untouched ==
  UNCHANGED <<cur, subs, blobs, active, queue, mu, worker, crashes, quarantined, misread>>

\* A handler that is not about to enqueue moves on.
LEMMA HandlerMoves ==
  ASSUME DLInv, NEW h \in Handlers, NEW g \in HandlerRecs, handler[h].pc # "callback",
         handler' = [handler EXCEPT ![h] = g], g.pc # "idle" => Seen(g.job),
         intent' \in [Names -> 0..LastVersion], \A n \in Names : intent'[n] <= cur[n],
         Untouched, UNCHANGED rec
  PROVE  DLInv'
<1>1. /\ cur' = cur /\ subs' = subs /\ blobs' = blobs /\ active' = active /\ queue' = queue
      /\ mu' = mu /\ worker' = worker /\ crashes' = crashes /\ quarantined' = quarantined
      /\ misread' = misread /\ rec' = rec
  BY DEF Untouched
<1>2. DLTypeOK /\ handler \in [Handlers -> HandlerRecs]
  BY TypeParts DEF DLInv
<1>3. handler'[h] = g /\ \A k \in Handlers \ {h} : handler'[k] = handler[k]
  BY <1>2
<1>4. DLTypeOK'
  <2>1. handler' \in [Handlers -> HandlerRecs]
    BY <1>2
  <2> QED BY <1>1, <1>2, <2>1 DEF DLTypeOK, HandlerRecs
<1>5. JobsSeen' /\ Discarded'
  BY <1>1, <1>3 DEF DLInv, JobsSeen, Discarded, Seen
<1>6. ASSUME NEW n \in Names, Answered(n) PROVE Answered(n)'
  BY <1>1, <1>3, <1>6 DEF Answered
<1>7. AllAnswered'
  BY <1>1, <1>6 DEF DLInv, AllAnswered
<1> QED BY <1>4, <1>5, <1>7 DEF DLInv

\* The check looks at the current file.
LEMMA HandlerCheckInv ==
  ASSUME DLInv, NEW h \in Handlers, NEW n \in Names, HandlerCheck(h, n) PROVE DLInv'
<1> DEFINE j == <<n, cur[n]>>
           g == [pc |-> "persist", job |-> j]
<1>1. DLTypeOK /\ cur \in [Names -> 0..LastVersion] /\ intent \in [Names -> 0..LastVersion]
      /\ \A m \in Names : intent[m] <= cur[m]
  BY TypeParts DEF DLInv
<1>2. cur[n] # 0 /\ handler[h].pc = "idle" /\ handler' = [handler EXCEPT ![h] = g]
      /\ Untouched /\ UNCHANGED <<intent, rec>>
  BY DEF HandlerCheck, Untouched, mdVars, histVars
<1>3. j \in Jobs /\ j[1] = n /\ j[2] = cur[n] /\ cur[n] <= cur[n]
  BY <1>1, <1>2, DownloadsAssumption DEF Jobs, Versions
<1> HIDE DEF j
<1>4. g \in HandlerRecs /\ g.job = j /\ Seen(j)
  BY <1>3 DEF HandlerRecs, Seen
<1> HIDE DEF g
<1>5. handler[h].pc # "callback" /\ (g.pc # "idle" => Seen(g.job))
      /\ intent' \in [Names -> 0..LastVersion] /\ \A m \in Names : intent'[m] <= cur[m]
  BY <1>1, <1>2, <1>4
<1> QED BY <1>2, <1>4, <1>5, HandlerMoves

\* The intent that is stored is for the current version.
LEMMA HandlerPersistInv == ASSUME DLInv, NEW h \in Handlers, HandlerPersist(h) PROVE DLInv'
<1> DEFINE j == handler[h].job
<1>1. /\ DLTypeOK /\ cur \in [Names -> 0..LastVersion] /\ intent \in [Names -> 0..LastVersion]
      /\ \A m \in Names : intent[m] <= cur[m]
      /\ handler \in [Handlers -> HandlerRecs] /\ handler[h] \in HandlerRecs
  BY TypeParts DEF DLInv
<1>2. handler[h].pc = "persist" /\ Untouched /\ UNCHANGED rec
  BY DEF HandlerPersist, Untouched, mdVars, histVars
<1>3. Seen(j) /\ j[1] \in Names /\ j[2] \in 0..LastVersion /\ j[2] <= cur[j[1]]
  <2>1. Seen(j)
    BY <1>2 DEF DLInv, JobsSeen
  <2> QED BY <2>1, JobParts, DownloadsAssumption DEF Seen
<1>4. CASE /\ intent' = [intent EXCEPT ![j[1]] = j[2]]
           /\ handler' = [handler EXCEPT ![h].pc = "reserve"]
  <2> DEFINE g == [handler[h] EXCEPT !.pc = "reserve"]
  <2>1. handler' = [handler EXCEPT ![h] = g] /\ g \in HandlerRecs /\ g.job = j
    BY <1>1, <1>4 DEF HandlerRecs
  <2> HIDE DEF g
  <2>2. handler[h].pc # "callback" /\ (g.pc # "idle" => Seen(g.job))
        /\ intent' \in [Names -> 0..LastVersion] /\ \A m \in Names : intent'[m] <= cur[m]
    BY <1>1, <1>2, <1>3, <1>4, <2>1
  <2> QED BY <1>2, <2>1, <2>2, HandlerMoves
<1>5. CASE handler' = [handler EXCEPT ![h] = IdleHandler] /\ UNCHANGED intent
  <2>1. handler[h].pc # "callback" /\ (IdleHandler.pc # "idle" => Seen(IdleHandler.job))
        /\ intent' \in [Names -> 0..LastVersion] /\ \A m \in Names : intent'[m] <= cur[m]
    BY <1>1, <1>2, <1>5, IdleFacts
  <2> QED BY <1>2, <1>5, <2>1, IdleFacts, HandlerMoves
<1> QED BY <1>4, <1>5 DEF HandlerPersist

\* The reserver answers for its reservation: the effect of reserveDownload.
LEMMA ReserveFacts ==
  ASSUME DLTypeOK, NEW j, Seen(j), NEW who \in Handlers \cup {"reconcile"}, Reserve(j, who)
  PROVE  /\ active' \in Actives /\ active'[j[1]].ver = j[2] /\ active'[j[1]].by = who
         /\ j[1] \in Names /\ j = <<j[1], j[2]>>
         /\ \A n \in Names \ {j[1]} : active'[n] = active[n]
         /\ \A n \in Names : active'[n].ver <= cur[n]
<1>1. j[1] \in Names /\ j[2] \in 0..LastVersion /\ j = <<j[1], j[2]>> /\ j[2] <= cur[j[1]]
  BY JobParts, DownloadsAssumption DEF Seen
<1>2. active \in Actives /\ \A n \in Names : active[n].ver <= cur[n]
  BY TypeParts
<1> QED BY <1>1, <1>2 DEF Reserve, Actives

\* A handler reserves the file, unless it is reserved.
LEMMA HandlerReserveInv == ASSUME DLInv, NEW h \in Handlers, HandlerReserve(h) PROVE DLInv'
<1> DEFINE j == handler[h].job
<1>1. /\ DLTypeOK /\ intent \in [Names -> 0..LastVersion] /\ \A m \in Names : intent[m] <= cur[m]
      /\ handler \in [Handlers -> HandlerRecs] /\ handler[h] \in HandlerRecs
  BY TypeParts DEF DLInv
<1>2. /\ handler[h].pc = "reserve"
      /\ UNCHANGED <<cur, subs, blobs, intent, queue, mu, worker, rec, crashes, quarantined,
                     misread>>
  BY DEF HandlerReserve, mdVars, histVars
<1>3. Seen(j)
  BY <1>2 DEF DLInv, JobsSeen
<1>4. CASE handler' = [handler EXCEPT ![h] = IdleHandler] /\ UNCHANGED active
  <2>1. /\ handler[h].pc # "callback" /\ (IdleHandler.pc # "idle" => Seen(IdleHandler.job))
        /\ intent' \in [Names -> 0..LastVersion] /\ \A m \in Names : intent'[m] <= cur[m]
        /\ Untouched /\ UNCHANGED rec
    BY <1>1, <1>2, <1>4, IdleFacts DEF Untouched
  <2> QED BY <1>4, <2>1, IdleFacts, HandlerMoves
<1>5. CASE Reserve(j, h) /\ handler' = [handler EXCEPT ![h].pc = "callback"]
  <2> DEFINE g == [handler[h] EXCEPT !.pc = "callback"]
  <2>1. /\ handler' = [handler EXCEPT ![h] = g] /\ g \in HandlerRecs /\ g.job = j
        /\ g.pc = "callback"
    BY <1>1, <1>5 DEF HandlerRecs
  <2> HIDE DEF g
  <2>2. /\ active' \in Actives /\ active'[j[1]].ver = j[2] /\ active'[j[1]].by = h
        /\ j[1] \in Names /\ j = <<j[1], j[2]>>
        /\ \A n \in Names \ {j[1]} : active'[n] = active[n]
        /\ \A n \in Names : active'[n].ver <= cur[n]
    BY <1>1, <1>3, <1>5, ReserveFacts
  <2>3. handler'[h] = g /\ \A k \in Handlers \ {h} : handler'[k] = handler[k]
    BY <1>1, <2>1
  <2>4. DLTypeOK'
    <3>1. handler' \in [Handlers -> HandlerRecs]
      BY <1>1, <2>1
    <3> QED BY <1>1, <1>2, <2>2, <3>1 DEF DLTypeOK, HandlerRecs, Actives
  <2>5. JobsSeen' /\ Discarded'
    <3>1. \A x : Seen(x)' <=> Seen(x)
      BY <1>2 DEF Seen
    <3>2. ASSUME NEW k \in Handlers, handler'[k].pc # "idle" PROVE Seen(handler'[k].job)
      BY <1>3, <2>1, <2>3, <3>2 DEF DLInv, JobsSeen
    <3> QED BY <1>2, <3>1, <3>2 DEF DLInv, JobsSeen, Discarded
  <2>6. ASSUME NEW n \in Names, active'[n].ver # 0, active'[n].ver = cur[n] PROVE Answered(n)'
    <3>1. CASE n = j[1]
      BY <2>1, <2>2, <2>3, <3>1 DEF Answered
    <3>2. CASE n # j[1]
      <4>1. active'[n] = active[n] /\ Answered(n)
        BY <2>2, <2>6, <3>2 DEF DLInv, AllAnswered
      <4> QED BY <1>2, <2>3, <4>1 DEF Answered
    <3> QED BY <3>1, <3>2
  <2>7. AllAnswered'
    BY <1>2, <2>6 DEF AllAnswered
  <2> QED BY <2>4, <2>5, <2>7 DEF DLInv
<1> QED BY <1>4, <1>5 DEF HandlerReserve

\* A job in the queue answers for its reservation, and for nobody else's.
LEMMA EnqueueFacts ==
  ASSUME DLInv, NEW j, Seen(j), Len(queue) < QueueCap, queue' = Append(queue, j)
  PROVE  /\ queue' \in Seq(Jobs) /\ Len(queue') <= QueueCap
         /\ \A i \in 1..Len(queue') : queue'[i] = j \/ \E k \in 1..Len(queue) : queue'[i] = queue[k]
         /\ \A i \in 1..Len(queue) : i \in 1..Len(queue') /\ queue'[i] = queue[i]
         /\ \E i \in 1..Len(queue') : queue'[i] = j
<1>1. queue \in Seq(Jobs) /\ j \in Jobs
  BY TypeParts DEF DLInv, Seen
<1>2. /\ queue' \in Seq(Jobs) /\ Len(queue') = Len(queue) + 1 /\ Len(queue) \in Nat
      /\ \A i \in 1..Len(queue) : queue'[i] = queue[i]
      /\ queue'[Len(queue) + 1] = j
  BY <1>1, AppendFacts
<1>3. \A i \in 1..Len(queue') : i = Len(queue) + 1 \/ i \in 1..Len(queue)
  BY <1>2
<1>4. Len(queue) + 1 \in 1..Len(queue') /\ \A i \in 1..Len(queue) : i \in 1..Len(queue')
  BY <1>2
<1> QED BY <1>2, <1>3, <1>4, DownloadsAssumption

\* The handler's job is in the queue.
LEMMA HandlerEnqueueInv == ASSUME DLInv, NEW h \in Handlers, HandlerEnqueue(h) PROVE DLInv'
<1> DEFINE j == handler[h].job
<1>1. /\ handler[h].pc = "callback" /\ Len(queue) < QueueCap /\ queue' = Append(queue, j)
      /\ handler' = [handler EXCEPT ![h] = IdleHandler]
      /\ UNCHANGED <<cur, subs, blobs, intent, active, mu, worker, rec, crashes, quarantined,
                     misread>>
  BY DEF HandlerEnqueue, mdVars, histVars
<1>2. DLTypeOK /\ handler \in [Handlers -> HandlerRecs] /\ Seen(j)
  BY <1>1, TypeParts DEF DLInv, JobsSeen
<1>3. /\ queue' \in Seq(Jobs) /\ Len(queue') <= QueueCap
      /\ \A i \in 1..Len(queue') : queue'[i] = j \/ \E k \in 1..Len(queue) : queue'[i] = queue[k]
      /\ \A i \in 1..Len(queue) : i \in 1..Len(queue') /\ queue'[i] = queue[i]
      /\ \E i \in 1..Len(queue') : queue'[i] = j
  BY <1>1, <1>2, EnqueueFacts
<1>4. handler'[h] = IdleHandler /\ \A k \in Handlers \ {h} : handler'[k] = handler[k]
  BY <1>1, <1>2
<1>5. DLTypeOK'
  <2>1. handler' \in [Handlers -> HandlerRecs]
    BY <1>1, <1>2, IdleFacts
  <2> QED BY <1>1, <1>2, <1>3, <2>1 DEF DLTypeOK, HandlerRecs
<1>6. JobsSeen' /\ Discarded'
  <2>1. \A i \in 1..Len(queue') : Seen(queue'[i])
    BY <1>2, <1>3 DEF DLInv, JobsSeen
  <2> QED BY <1>1, <1>4, <2>1, IdleFacts DEF DLInv, JobsSeen, Discarded, Seen
<1>7. ASSUME NEW n \in Names, Answered(n) PROVE Answered(n)'
  <2> DEFINE a == <<n, active[n].ver>>
  <2>1. CASE \E i \in 1..Len(queue) : queue[i] = a
    BY <1>1, <1>3, <2>1 DEF Answered
  <2>2. CASE j = a
    BY <1>1, <1>3, <2>2 DEF Answered
  <2>3. CASE j # a /\ ~ \E i \in 1..Len(queue) : queue[i] = a
    BY <1>1, <1>4, <1>7, <2>3 DEF Answered
  <2> QED BY <2>1, <2>2, <2>3
<1>8. AllAnswered'
  BY <1>1, <1>7 DEF DLInv, AllAnswered
<1> QED BY <1>5, <1>6, <1>8 DEF DLInv

\* rollbackDownloadReservation drops at most the caller's own reservation.
LEMMA RollbackFacts ==
  ASSUME DLTypeOK, NEW j, Seen(j), NEW who, Rollback(j, who)
  PROVE  /\ active' \in Actives /\ j[1] \in Names
         /\ \A n \in Names : active'[n] = active[n] \/ active'[n].ver = 0
         /\ active'[j[1]].ver # 0 => active'[j[1]].by # who
         /\ \A n \in Names : active'[n].ver <= cur[n]
<1>1. j[1] \in Names
  BY JobParts DEF Seen
<1>2. /\ active \in Actives /\ \A n \in Names : active[n].ver <= cur[n]
      /\ cur \in [Names -> 0..LastVersion]
  BY TypeParts
<1>3. NotActive \in [ver : 0..LastVersion, by : Handlers \cup {"none", "reconcile"}]
      /\ NotActive.ver = 0
  BY DownloadsAssumption DEF NotActive
<1>4. CASE active[j[1]].by = who
  <2>1. active' = [active EXCEPT ![j[1]] = NotActive]
    BY <1>4 DEF Rollback
  <2> QED BY <1>1, <1>2, <1>3, <2>1, DownloadsAssumption DEF Actives
<1>5. CASE active[j[1]].by # who
  BY <1>1, <1>2, <1>5 DEF Rollback
<1> QED BY <1>4, <1>5

\* The queue has no room, or the peer is unknown: the handler rolls back.
LEMMA HandlerEnqueueFailsInv ==
  ASSUME DLInv, NEW h \in Handlers, HandlerEnqueueFails(h) PROVE DLInv'
<1> DEFINE j == handler[h].job
<1>1. /\ handler[h].pc = "callback" /\ Rollback(j, h)
      /\ handler' = [handler EXCEPT ![h] = IdleHandler]
      /\ UNCHANGED <<cur, subs, blobs, intent, queue, mu, worker, rec, crashes, quarantined,
                     misread>>
  BY DEF HandlerEnqueueFails, mdVars, histVars
<1>2. DLTypeOK /\ handler \in [Handlers -> HandlerRecs] /\ Seen(j)
  BY <1>1, TypeParts DEF DLInv, JobsSeen
<1>3. /\ active' \in Actives /\ j[1] \in Names
      /\ \A n \in Names : active'[n] = active[n] \/ active'[n].ver = 0
      /\ active'[j[1]].ver # 0 => active'[j[1]].by # h
      /\ \A n \in Names : active'[n].ver <= cur[n]
  BY <1>1, <1>2, RollbackFacts
<1>4. handler'[h] = IdleHandler /\ \A k \in Handlers \ {h} : handler'[k] = handler[k]
  BY <1>1, <1>2
<1>5. DLTypeOK'
  <2>1. handler' \in [Handlers -> HandlerRecs]
    BY <1>1, <1>2, IdleFacts
  <2> QED BY <1>1, <1>2, <1>3, <2>1 DEF DLTypeOK, HandlerRecs, Actives
<1>6. JobsSeen' /\ Discarded'
  BY <1>1, <1>4, IdleFacts DEF DLInv, JobsSeen, Discarded, Seen
<1>7. ASSUME NEW n \in Names, active'[n].ver # 0, active'[n].ver = cur[n] PROVE Answered(n)'
  <2>1. active'[n] = active[n] /\ Answered(n)
    BY <1>3, <1>7 DEF DLInv, AllAnswered
  <2>2. ~ (active[n].by = h /\ j = <<n, active[n].ver>>)
    BY <1>3, <1>7, <2>1
  <2> QED BY <1>1, <1>4, <2>1, <2>2 DEF Answered
<1>8. AllAnswered'
  BY <1>1, <1>7 DEF AllAnswered
<1> QED BY <1>5, <1>6, <1>8 DEF DLInv

(* ----------------------------- reconciliation ---------------------------- *)

\* The reconciliation moves on without the queue: it may release a file.
LEMMA RecMoves ==
  ASSUME DLInv, NEW r \in RecRecs, rec.pc # "callback", rec' = r, r.pc # "callback",
         \A j \in r.todo : Seen(j), r.pc \notin {"idle", "scan"} => Seen(r.job),
         intent' \in [Names -> 0..LastVersion], \A n \in Names : intent'[n] <= cur[n],
         active' \in Actives, \A n \in Names : active'[n] = active[n] \/ active'[n].ver = 0,
         misread' \subseteq Jobs,
         UNCHANGED <<cur, subs, blobs, queue, mu, worker, handler, crashes, quarantined>>
  PROVE  DLInv'
<1>1. DLTypeOK /\ cur \in [Names -> 0..LastVersion] /\ \A n \in Names : active[n].ver <= cur[n]
  BY TypeParts DEF DLInv
<1>2. \A n \in Names : active'[n].ver <= cur[n]
  BY <1>1, DownloadsAssumption
<1>3. DLTypeOK'
  BY <1>1, <1>2 DEF DLTypeOK, RecRecs, Actives
<1>4. JobsSeen' /\ Discarded'
  BY DEF DLInv, JobsSeen, Discarded, Seen
<1>5. ASSUME NEW n \in Names, active'[n].ver # 0, active'[n].ver = cur[n] PROVE Answered(n)'
  <2>1. active'[n] = active[n] /\ Answered(n)
    BY <1>5 DEF DLInv, AllAnswered
  <2> QED BY <2>1 DEF Answered
<1>6. AllAnswered'
  BY <1>5 DEF AllAnswered
<1> QED BY <1>3, <1>4, <1>6 DEF DLInv

\* What is known of the reconciliation and of the files.
LEMMA RecFacts ==
  ASSUME DLInv
  PROVE  /\ DLTypeOK /\ rec \in RecRecs /\ cur \in [Names -> 0..LastVersion]
         /\ intent \in [Names -> 0..LastVersion] /\ \A n \in Names : intent[n] <= cur[n]
         /\ active \in Actives /\ misread \subseteq Jobs /\ \A j \in rec.todo : Seen(j)
         /\ rec.pc \notin {"idle", "scan"} => Seen(rec.job)
BY TypeParts DEF DLInv, JobsSeen

\* After an intent the reconciliation takes the next one.
LEMMA RecNextFacts ==
  ASSUME DLInv, RecNext
  PROVE  rec' \in RecRecs /\ rec'.pc = "scan" /\ rec'.todo = rec.todo
<1>1. rec \in RecRecs
  BY RecFacts
<1> QED BY <1>1 DEF RecNext, RecRecs

\* The reconciliation lists the intents, and reads the files they name.
LEMMA RecReadInv ==
  ASSUME DLInv, RecList \/ RecDone \/ RecSkip \/ (\E job \in rec.todo : RecRead(job))
  PROVE  DLInv'
<1>1. /\ DLTypeOK /\ rec \in RecRecs /\ cur \in [Names -> 0..LastVersion]
      /\ intent \in [Names -> 0..LastVersion] /\ \A n \in Names : intent[n] <= cur[n]
      /\ active \in Actives /\ misread \subseteq Jobs /\ \A j \in rec.todo : Seen(j)
  BY RecFacts
<1>2. /\ UNCHANGED <<cur, subs, blobs, queue, mu, worker, handler, crashes, quarantined>>
      /\ intent' = intent /\ active' = active /\ misread' = misread
  BY DEF RecList, RecDone, RecSkip, RecRead, mdVars, histVars
<1>3. /\ intent' \in [Names -> 0..LastVersion] /\ \A n \in Names : intent'[n] <= cur[n]
      /\ active' \in Actives /\ \A n \in Names : active'[n] = active[n] \/ active'[n].ver = 0
      /\ misread' \subseteq Jobs
  BY <1>1, <1>2
<1>4. /\ rec' \in RecRecs /\ rec.pc # "callback" /\ rec'.pc # "callback"
      /\ \A j \in rec'.todo : Seen(j)
      /\ rec'.pc \notin {"idle", "scan"} => Seen(rec'.job)
  <2>1. CASE RecList
    <3> DEFINE S == {j \in Jobs : intent[j[1]] = j[2]}
    <3>1. S \subseteq Jobs /\ \A j \in S : Seen(j)
      BY <1>1, JobParts DEF Seen
    <3> HIDE DEF S
    <3>2. rec' = [IdleRec EXCEPT !.pc = "scan", !.todo = S] /\ rec.pc = "idle"
      BY <2>1 DEF RecList, S
    <3>3. rec' \in RecRecs /\ rec'.pc = "scan" /\ rec'.todo = S
      BY <3>1, <3>2 DEF IdleRec, RecRecs
    <3> QED BY <3>1, <3>2, <3>3
  <2>2. CASE RecDone
    BY <2>2, IdleFacts DEF RecDone
  <2>3. CASE RecSkip
    <3>1. CASE rec.pc = "scan" /\ \E job \in rec.todo : rec' = [rec EXCEPT !.todo = @ \ {job}]
      <4>1. PICK job \in rec.todo : rec' = [rec EXCEPT !.todo = @ \ {job}]
        BY <3>1
      <4>2. rec' \in RecRecs /\ rec'.pc = "scan" /\ rec'.todo = rec.todo \ {job}
        BY <1>1, <3>1, <4>1 DEF RecRecs
      <4> QED BY <1>1, <3>1, <4>2
    <3>2. CASE rec.pc = "complete" /\ RecNext
      BY <1>1, <3>2, RecNextFacts
    <3> QED BY <2>3, <3>1, <3>2 DEF RecSkip
  <2>4. CASE \E job \in rec.todo : RecRead(job)
    <3>1. PICK job \in rec.todo : RecRead(job)
      BY <2>4
    <3> DEFINE p == IF Wanted(job) /\ job \notin blobs THEN "reserve" ELSE "complete"
    <3>2. p \in {"reserve", "complete"} /\ Seen(job) /\ job \in Jobs
      BY <1>1, <3>1 DEF Seen
    <3>3. rec.pc = "scan" /\ rec' = [pc |-> p, todo |-> rec.todo \ {job}, job |-> job]
      BY <3>1 DEF RecRead
    <3> HIDE DEF p
    <3>4. rec' \in RecRecs /\ rec'.pc = p /\ rec'.todo = rec.todo \ {job} /\ rec'.job = job
      BY <1>1, <3>2, <3>3 DEF RecRecs
    <3> QED BY <1>1, <3>2, <3>3, <3>4
  <2> QED BY <2>1, <2>2, <2>3, <2>4
<1> QED BY <1>2, <1>3, <1>4, RecMoves

\* An obsolete or satisfied intent goes, with its reservation.
LEMMA RecCompleteInv == ASSUME DLInv, RecComplete PROVE DLInv'
<1> DEFINE j == rec.job
<1>1. /\ DLTypeOK /\ rec \in RecRecs /\ cur \in [Names -> 0..LastVersion]
      /\ intent \in [Names -> 0..LastVersion] /\ \A n \in Names : intent[n] <= cur[n]
      /\ misread \subseteq Jobs /\ \A k \in rec.todo : Seen(k)
  BY RecFacts
<1>2. /\ rec.pc = "complete" /\ RecNext
      /\ intent' = [intent EXCEPT ![j[1]] = IF @ = j[2] THEN 0 ELSE @]
      /\ active' = Released(active, j)
      /\ misread' \in {misread, misread \cup {j}}
      /\ UNCHANGED <<cur, subs, blobs, queue, mu, worker, handler, crashes, quarantined>>
  BY DEF RecComplete, Complete, mdVars
<1>3. Seen(j) /\ j \in Jobs
  BY <1>2, RecFacts DEF Seen
<1>4. /\ active' \in Actives /\ \A n \in Names : active'[n] = active[n] \/ active'[n].ver = 0
      /\ misread' \subseteq Jobs
  BY <1>1, <1>2, <1>3, ReleasedFacts
<1>5. /\ intent' \in [Names -> 0..LastVersion] /\ \A n \in Names : intent'[n] <= cur[n]
  <2>1. 0 \in 0..LastVersion /\ j[1] \in Names /\ \A n \in Names : 0 <= cur[n]
    BY <1>1, <1>3, JobParts, DownloadsAssumption
  <2> QED BY <1>1, <1>2, <2>1
<1>6. /\ rec' \in RecRecs /\ rec.pc # "callback" /\ rec'.pc # "callback"
      /\ \A k \in rec'.todo : Seen(k)
  BY <1>1, <1>2, RecNextFacts
<1>7. rec'.pc \notin {"idle", "scan"} => Seen(rec'.job)
  BY <1>2, RecNextFacts
<1> QED BY <1>2, <1>4, <1>5, <1>6, <1>7, RecMoves

\* The reconciliation reserves a file that nobody has reserved.
LEMMA RecReserveInv == ASSUME DLInv, RecReserve PROVE DLInv'
<1> DEFINE j == rec.job
<1>1. /\ DLTypeOK /\ rec \in RecRecs /\ cur \in [Names -> 0..LastVersion]
      /\ intent \in [Names -> 0..LastVersion] /\ \A n \in Names : intent[n] <= cur[n]
      /\ active \in Actives /\ misread \subseteq Jobs /\ \A k \in rec.todo : Seen(k)
  BY RecFacts
<1>2. /\ rec.pc = "reserve"
      /\ UNCHANGED <<cur, subs, blobs, queue, mu, worker, handler, crashes, quarantined>>
      /\ intent' = intent /\ misread' = misread
  BY DEF RecReserve, mdVars, histVars
<1>3. Seen(j)
  BY <1>2, RecFacts
<1>4. CASE RecNext /\ UNCHANGED active
  <2>1. /\ rec' \in RecRecs /\ rec.pc # "callback" /\ rec'.pc # "callback"
        /\ \A k \in rec'.todo : Seen(k)
        /\ rec'.pc \notin {"idle", "scan"} => Seen(rec'.job)
    BY <1>1, <1>2, <1>4, RecNextFacts
  <2>2. /\ intent' \in [Names -> 0..LastVersion] /\ \A n \in Names : intent'[n] <= cur[n]
        /\ active' \in Actives /\ \A n \in Names : active'[n] = active[n] \/ active'[n].ver = 0
        /\ misread' \subseteq Jobs
    BY <1>1, <1>2, <1>4
  <2> QED BY <1>2, <2>1, <2>2, RecMoves
<1>5. CASE Reserve(j, "reconcile") /\ rec' = [rec EXCEPT !.pc = "callback"]
  <2>1. /\ rec' \in RecRecs /\ rec'.pc = "callback" /\ rec'.todo = rec.todo /\ rec'.job = j
    BY <1>1, <1>5 DEF RecRecs
  <2>2. /\ active' \in Actives /\ active'[j[1]].ver = j[2] /\ active'[j[1]].by = "reconcile"
        /\ j[1] \in Names /\ j = <<j[1], j[2]>>
        /\ \A n \in Names \ {j[1]} : active'[n] = active[n]
        /\ \A n \in Names : active'[n].ver <= cur[n]
    BY <1>1, <1>3, <1>5, ReserveFacts
  <2>3. DLTypeOK'
    BY <1>1, <1>2, <2>1, <2>2 DEF DLTypeOK, RecRecs, Actives
  <2>4. JobsSeen' /\ Discarded'
    BY <1>2, <1>3, <2>1 DEF DLInv, JobsSeen, Discarded, Seen
  <2>5. ASSUME NEW n \in Names, active'[n].ver # 0, active'[n].ver = cur[n] PROVE Answered(n)'
    <3>1. CASE n = j[1]
      BY <2>1, <2>2, <3>1 DEF Answered
    <3>2. CASE n # j[1]
      <4>1. active'[n] = active[n] /\ Answered(n)
        BY <2>2, <2>5, <3>2 DEF DLInv, AllAnswered
      <4> QED BY <1>2, <4>1 DEF Answered
    <3> QED BY <3>1, <3>2
  <2>6. AllAnswered'
    BY <1>2, <2>5 DEF AllAnswered
  <2> QED BY <2>3, <2>4, <2>6 DEF DLInv
<1> QED BY <1>4, <1>5 DEF RecReserve

\* The job of the reconciliation is in the queue.
LEMMA RecEnqueueInv == ASSUME DLInv, RecEnqueue PROVE DLInv'
<1> DEFINE j == rec.job
<1>1. /\ rec.pc = "callback" /\ Len(queue) < QueueCap /\ queue' = Append(queue, j) /\ RecNext
      /\ UNCHANGED <<cur, subs, blobs, intent, active, mu, worker, handler, crashes, quarantined,
                     misread>>
  BY DEF RecEnqueue, mdVars, histVars
<1>2. DLTypeOK /\ Seen(j) /\ \A k \in rec.todo : Seen(k)
  BY <1>1, RecFacts
<1>3. /\ queue' \in Seq(Jobs) /\ Len(queue') <= QueueCap
      /\ \A i \in 1..Len(queue') : queue'[i] = j \/ \E k \in 1..Len(queue) : queue'[i] = queue[k]
      /\ \A i \in 1..Len(queue) : i \in 1..Len(queue') /\ queue'[i] = queue[i]
      /\ \E i \in 1..Len(queue') : queue'[i] = j
  BY <1>1, <1>2, EnqueueFacts
<1>4. rec' \in RecRecs /\ rec'.pc = "scan" /\ rec'.todo = rec.todo
  BY <1>1, RecNextFacts
<1>5. DLTypeOK'
  BY <1>1, <1>2, <1>3, <1>4 DEF DLTypeOK, RecRecs
<1>6. JobsSeen' /\ Discarded'
  <2>1. \A i \in 1..Len(queue') : Seen(queue'[i])
    BY <1>2, <1>3 DEF DLInv, JobsSeen
  <2> QED BY <1>1, <1>4, <2>1 DEF DLInv, JobsSeen, Discarded, Seen
<1>7. ASSUME NEW n \in Names, Answered(n) PROVE Answered(n)'
  <2> DEFINE a == <<n, active[n].ver>>
  <2>1. CASE \E i \in 1..Len(queue) : queue[i] = a
    BY <1>1, <1>3, <2>1 DEF Answered
  <2>2. CASE j = a
    BY <1>1, <1>3, <2>2 DEF Answered
  <2>3. CASE j # a /\ ~ \E i \in 1..Len(queue) : queue[i] = a
    BY <1>1, <1>7, <2>3 DEF Answered
  <2> QED BY <2>1, <2>2, <2>3
<1>8. AllAnswered'
  BY <1>1, <1>7 DEF DLInv, AllAnswered
<1> QED BY <1>5, <1>6, <1>8 DEF DLInv

\* The queue has no room: the reconciliation rolls back.
LEMMA RecEnqueueFailsInv == ASSUME DLInv, RecEnqueueFails PROVE DLInv'
<1> DEFINE j == rec.job
<1>1. /\ rec.pc = "callback" /\ Rollback(j, "reconcile") /\ RecNext
      /\ UNCHANGED <<cur, subs, blobs, intent, queue, mu, worker, handler, crashes, quarantined,
                     misread>>
  BY DEF RecEnqueueFails, mdVars, histVars
<1>2. DLTypeOK /\ Seen(j) /\ \A k \in rec.todo : Seen(k)
  BY <1>1, RecFacts
<1>3. /\ active' \in Actives /\ j[1] \in Names
      /\ \A n \in Names : active'[n] = active[n] \/ active'[n].ver = 0
      /\ active'[j[1]].ver # 0 => active'[j[1]].by # "reconcile"
      /\ \A n \in Names : active'[n].ver <= cur[n]
  BY <1>1, <1>2, RollbackFacts
<1>4. rec' \in RecRecs /\ rec'.pc = "scan" /\ rec'.todo = rec.todo
  BY <1>1, RecNextFacts
<1>5. DLTypeOK'
  BY <1>1, <1>2, <1>3, <1>4 DEF DLTypeOK, RecRecs, Actives
<1>6. JobsSeen' /\ Discarded'
  BY <1>1, <1>2, <1>4 DEF DLInv, JobsSeen, Discarded, Seen
<1>7. ASSUME NEW n \in Names, active'[n].ver # 0, active'[n].ver = cur[n] PROVE Answered(n)'
  <2>1. active'[n] = active[n] /\ Answered(n)
    BY <1>3, <1>7 DEF DLInv, AllAnswered
  <2>2. ~ (active[n].by = "reconcile" /\ j = <<n, active[n].ver>>)
    BY <1>3, <1>7, <2>1
  <2> QED BY <1>1, <2>1, <2>2 DEF Answered
<1>8. AllAnswered'
  BY <1>1, <1>7 DEF AllAnswered
<1> QED BY <1>5, <1>6, <1>8 DEF DLInv

(* ------------------------ metadata, crashes, theorems -------------------- *)

\* A newer version makes the reservations of the older ones harmless.
LEMMA AdvanceInv == ASSUME DLInv, NEW n \in Names, Advance(n) PROVE DLInv'
<1>1. /\ cur[n] < LastVersion /\ cur' = [cur EXCEPT ![n] = @ + 1]
      /\ blobs' \subseteq blobs /\ quarantined' \subseteq quarantined /\ misread' \subseteq misread
      /\ UNCHANGED <<subs, intent, active, queue, mu, worker, handler, rec, crashes>>
  BY DEF Advance, Forget
<1>2. /\ DLTypeOK /\ cur \in [Names -> 0..LastVersion] /\ intent \in [Names -> 0..LastVersion]
      /\ active \in Actives /\ \A m \in Names : intent[m] <= cur[m] /\ active[m].ver <= cur[m]
  BY TypeParts DEF DLInv
<1>3. /\ cur' \in [Names -> 0..LastVersion] /\ cur'[n] = cur[n] + 1
      /\ \A m \in Names \ {n} : cur'[m] = cur[m]
      /\ \A m \in Names : cur[m] \in Nat /\ cur'[m] \in Nat /\ cur[m] <= cur'[m]
  BY <1>1, <1>2, DownloadsAssumption
<1>4. \A m \in Names : intent[m] \in Nat /\ active[m].ver \in Nat
  BY <1>2, DownloadsAssumption DEF Actives
<1>5. \A m \in Names : intent[m] <= cur'[m] /\ active[m].ver <= cur'[m]
  BY <1>2, <1>3, <1>4
<1>6. DLTypeOK'
  BY <1>1, <1>2, <1>3, <1>5 DEF DLTypeOK
<1>7. ASSUME NEW j, Seen(j) PROVE Seen(j)' /\ (j[2] < cur[j[1]] => j[2] < cur'[j[1]])
  <2>1. j \in Jobs /\ j[1] \in Names /\ j[2] \in Nat /\ j[2] <= cur[j[1]]
    BY <1>7, JobParts, DownloadsAssumption DEF Seen
  <2> QED BY <1>3, <2>1 DEF Seen
<1>8. JobsSeen'
  BY <1>1, <1>7 DEF DLInv, JobsSeen
<1>9. Discarded'
  BY <1>1, <1>7 DEF DLInv, JobsSeen, Discarded
<1>10. ASSUME NEW m \in Names, active[m].ver # 0, active[m].ver = cur'[m] PROVE Answered(m)'
  <2>1. m # n
    BY <1>2, <1>3, <1>4, <1>10
  <2>2. Answered(m)
    BY <1>3, <1>10, <2>1 DEF DLInv, AllAnswered
  <2> QED BY <1>1, <2>2 DEF Answered
<1>11. AllAnswered'
  BY <1>1, <1>10 DEF AllAnswered
<1> QED BY <1>6, <1>8, <1>9, <1>11 DEF DLInv

\* Subscriptions concern no reservation.
LEMMA SubscriptionInv ==
  ASSUME DLInv, NEW n \in Names, Subscribe(n) \/ Unsubscribe(n) PROVE DLInv'
<1>1. /\ subs' \in {subs \cup {n}, subs \ {n}} /\ blobs' \subseteq blobs
      /\ quarantined' \subseteq quarantined /\ misread' \subseteq misread
      /\ UNCHANGED <<cur, intent, active, queue, mu, worker, handler, rec, crashes>>
  BY DEF Subscribe, Unsubscribe, Forget, histVars
<1>2. DLTypeOK'
  BY <1>1 DEF DLInv, DLTypeOK
<1>3. JobsSeen' /\ Discarded'
  BY <1>1 DEF DLInv, JobsSeen, Discarded, Seen
<1>4. AllAnswered'
  BY <1>1 DEF DLInv, AllAnswered, Answered
<1> QED BY <1>2, <1>3, <1>4 DEF DLInv

\* A crash takes the reservations with the processes that answer for them.
LEMMA CrashInv == ASSUME DLInv, Crash PROVE DLInv'
<1>1. /\ active' = [n \in Names |-> NotActive] /\ queue' = <<>> /\ mu' = "free"
      /\ worker' = [w \in Workers |-> IdleWorker] /\ handler' = [h \in Handlers |-> IdleHandler]
      /\ rec' = IdleRec /\ crashes < MaxCrashes /\ crashes' = crashes + 1
      /\ UNCHANGED <<cur, subs, blobs, intent, quarantined, misread>>
  BY DEF Crash, mdVars
<1>2. /\ NotActive \in [ver : 0..LastVersion, by : Handlers \cup {"none", "reconcile"}]
      /\ NotActive.ver = 0 /\ <<>> \in Seq(Jobs) /\ Len(<<>>) = 0
  BY DownloadsAssumption DEF NotActive
<1>3. DLTypeOK /\ cur \in [Names -> 0..LastVersion]
  BY TypeParts DEF DLInv
<1>4. /\ active' \in Actives /\ worker' \in [Workers -> WorkerRecs]
      /\ handler' \in [Handlers -> HandlerRecs] /\ rec' \in RecRecs
      /\ queue' \in Seq(Jobs) /\ Len(queue') <= QueueCap
      /\ \A n \in Names : active'[n].ver <= cur[n]
  BY <1>1, <1>2, <1>3, IdleFacts, DownloadsAssumption DEF Actives
<1>5. crashes' \in 0..MaxCrashes
  BY <1>1, <1>3, DownloadsAssumption DEF DLTypeOK
<1>6. DLTypeOK'
  BY <1>1, <1>3, <1>4, <1>5 DEF DLTypeOK, Actives, WorkerRecs, HandlerRecs, RecRecs
<1>7. JobsSeen' /\ Discarded'
  BY <1>1, <1>2, IdleFacts DEF JobsSeen, Discarded
<1>8. AllAnswered'
  BY <1>1, <1>2 DEF AllAnswered
<1> QED BY <1>6, <1>7, <1>8 DEF DLInv

\* Every step keeps the invariant.
LEMMA DNextInv == DLInv /\ [DLNext]_dlVars => DLInv'
<1> SUFFICES ASSUME DLInv, [DLNext]_dlVars PROVE DLInv'
  OBVIOUS
<1>1. CASE UNCHANGED dlVars
  <2>1. DLTypeOK'
    BY <1>1 DEF dlVars, DLInv, DLTypeOK
  <2>2. JobsSeen' /\ Discarded'
    BY <1>1 DEF dlVars, DLInv, JobsSeen, Discarded, Seen
  <2>3. AllAnswered'
    BY <1>1 DEF dlVars, DLInv, AllAnswered, Answered
  <2> QED BY <2>1, <2>2, <2>3 DEF DLInv
<1>2. ASSUME NEW n \in Names, Advance(n) \/ Subscribe(n) \/ Unsubscribe(n) PROVE DLInv'
  BY <1>2, AdvanceInv, SubscriptionInv
<1>3. ASSUME NEW h \in Handlers, HandlerStep(h) \/ \E n \in Names : HandlerCheck(h, n) PROVE DLInv'
  BY <1>3, HandlerCheckInv, HandlerPersistInv, HandlerReserveInv, HandlerEnqueueInv,
     HandlerEnqueueFailsInv DEF HandlerStep
<1>4. ASSUME NEW w \in Workers, WorkerTake(w) \/ WorkerStep(w) PROVE DLInv'
  BY <1>4, WorkerTakeInv, FetchFailsInv, FetchMismatchInv, StoreCommitInv, StoreAcceptInv,
     StoreFailsInv, StoreDiscardInv, WorkerEndInv DEF WorkerStep
<1>5. CASE RecStep
  BY <1>5, RecReadInv, RecCompleteInv, RecReserveInv, RecEnqueueInv, RecEnqueueFailsInv DEF RecStep
<1>6. CASE Crash
  BY <1>6, CrashInv
<1> QED BY <1>1, <1>2, <1>3, <1>4, <1>5, <1>6 DEF DLNext

\* The queue of downloads never exceeds its capacity, and no intent or
\* reservation is for a version its name has not reached.
THEOREM DownloadTypes == DLSpec => []DLTypeOK
<1>1. DLInv => DLTypeOK
  BY DEF DLInv
<1> QED BY <1>1, DInitInv, DNextInv, PTL DEF DLSpec

\* A reservation never blocks a download that nobody does: while the current
\* file of a name is reserved, its job is queued, with a worker, or about to be
\* queued (reserveDownload, rollbackDownloadReservation, StoreRemoteBlob,
\* downloadWorker), whatever fails and whenever the node crashes.
THEOREM ReservationAnswered == DLSpec => []NoStrandedReservation
BY DInitInv, DNextInv, DInvNotStranded, PTL DEF DLSpec
=============================================================================
