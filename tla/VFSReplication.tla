---------------------------- MODULE VFSReplication ----------------------------
(***************************************************************************)
(* The replication of one VFS name between nodes: gossip of local writes   *)
(* (HandleNotification at the receiver) and ExecuteSync, which fetches a   *)
(* peer's manifest, applies it and pushes back what the peer lacks         *)
(* (internal/server/vfs_sync.go, internal/storage).  The blobs are module  *)
(* Downloads and the delivery of gossip is module Outbox: here a           *)
(* notification of an entry somebody committed may arrive at any node, at  *)
(* any time, any number of times, or never.                                *)
(***************************************************************************)
EXTENDS VFSOrder, FiniteSets

CONSTANTS
  Nodes,
  Dialers,        \* the nodes that can reach their peers, and sync with them
  Hashes,
  MaxVersion      \* bound: no entry goes beyond this version

ASSUME ReplicationAssumption ==
  /\ Dialers \subseteq Nodes
  /\ Hashes \subseteq Nat \ {NoHash}
  /\ MaxVersion \in Nat

VARIABLES
  index,      \* the entry of the name in each node's vfs_index
  sync,       \* what each node's ExecuteSync does, with one peer at a time
  seen        \* history: the entries each node wrote or was told

vars == <<index, sync, seen>>

Name == 1

Entries ==
  [name : {Name}, version : 1..MaxVersion, deleted : BOOLEAN, hash : Hashes, size : Hashes]

IdleSync == [pc |-> "idle", peer |-> CHOOSE n \in Nodes : TRUE, manifest |-> NoEntry]

Wrote == UNION {seen[n] : n \in Nodes}

TypeOK ==
  /\ index \in [Nodes -> Entries \cup {NoEntry}]
  /\ sync \in [Nodes -> [pc : {"idle", "apply", "push"}, peer : Nodes,
                         manifest : Entries \cup {NoEntry}]]
  /\ seen \in [Nodes -> SUBSET Entries]

Init ==
  /\ index = [n \in Nodes |-> NoEntry]
  /\ sync = [n \in Nodes |-> IdleSync]
  /\ seen = [n \in Nodes |-> {}]

\* Upsert of an entry that node n is told of or writes itself.
Upsert(n, entry) ==
  /\ index' = [index EXCEPT ![n] = Resolve(entry, index[n])]
  /\ seen' = [seen EXCEPT ![n] = @ \cup {Written(entry, index[n])}]

\* SaveLocalFile: the next version of the name.  The size of content is a
\* function of its hash.
SaveLocalFile(n, h) ==
  /\ index[n].version < MaxVersion
  /\ Upsert(n, [name |-> Name, version |-> 0, deleted |-> FALSE, hash |-> h, size |-> h])
  /\ UNCHANGED sync

\* Mutant of DeleteLocalFile: a name that does not exist is deleted too.
DeleteMissingFile(n) ==
  /\ index[n].version < MaxVersion
  /\ Upsert(n, Tombstone(index[n]))
  /\ UNCHANGED sync

DeleteLocalFile(n) ==
  /\ Exists(index[n])
  /\ index[n].version < MaxVersion
  /\ Upsert(n, Tombstone(index[n]))
  /\ UNCHANGED sync

\* HandleNotification, for a live entry and for a tombstone.
Notification(n, e) ==
  /\ e \in Wrote
  /\ Upsert(n, e)
  /\ UNCHANGED sync

\* ExecuteSyncContext: FetchManifest.
SyncFetch(n, p) ==
  /\ n \in Dialers
  /\ n # p
  /\ sync[n].pc = "idle"
  /\ sync' = [sync EXCEPT ![n] = [pc |-> "apply", peer |-> p, manifest |-> index[p]]]
  /\ UNCHANGED <<index, seen>>

\* Mutant of SyncApply: the tombstones of a manifest are skipped.
SyncApplyLive(n) ==
  /\ sync[n].pc = "apply"
  /\ IF Live(sync[n].manifest)
     THEN Upsert(n, sync[n].manifest)
     ELSE UNCHANGED <<index, seen>>
  /\ sync' = [sync EXCEPT ![n].pc = "push"]

\* ProcessRemoteManifestE: the name's entry, if the manifest has one.
SyncApply(n) ==
  /\ sync[n].pc = "apply"
  /\ IF Exists(sync[n].manifest)
     THEN Upsert(n, sync[n].manifest)
     ELSE UNCHANGED <<index, seen>>
  /\ sync' = [sync EXCEPT ![n].pc = "push"]

\* The manifest shows that the peer has the entry, or one that is as new.
UpToDate(remote, local) ==
  /\ Exists(remote)
  /\ remote.version >= local.version
  /\ \/ ~local.deleted /\ remote.hash = local.hash
     \/ local.deleted /\ remote.deleted

\* The snapshot is compared with the manifest, and what the peer lacks is sent.
SyncPush(n) ==
  LET local == index[n]
  IN  /\ sync[n].pc = "push"
      /\ IF Exists(local) /\ ~UpToDate(sync[n].manifest, local)
         THEN Upsert(sync[n].peer, local)
         ELSE UNCHANGED <<index, seen>>
      /\ sync' = [sync EXCEPT ![n] = IdleSync]

\* An RPC or a local read fails, or the node restarts.
SyncFails(n) ==
  /\ sync[n].pc # "idle"
  /\ sync' = [sync EXCEPT ![n] = IdleSync]
  /\ UNCHANGED <<index, seen>>

Next ==
  \E n \in Nodes :
    \/ \E h \in Hashes : SaveLocalFile(n, h)
    \/ DeleteLocalFile(n)
    \/ \E e \in Wrote : Notification(n, e)
    \/ \E p \in Nodes : SyncFetch(n, p)
    \/ SyncApply(n)
    \/ SyncPush(n)
    \/ SyncFails(n)

Spec == Init /\ [][Next]_vars

(***************************************************************************)
(* A dialer syncs again and again with each of its peers, and not every    *)
(* attempt fails.  Gossip promises nothing here.                           *)
(***************************************************************************)
Fairness ==
  \A n \in Dialers :
    /\ \A p \in Nodes : SF_vars(SyncFetch(n, p))
    /\ SF_vars(SyncApply(n))
    /\ SF_vars(SyncPush(n))

FairSpec == Spec /\ Fairness

-----------------------------------------------------------------------------
(***************************************************************************)
(* The winner does not depend on the order of arrival: a node holds the    *)
(* greatest of all entries it was told, so nodes that were told the same   *)
(* entries hold the same one.  (compareIndexEntries: "Every peer therefore *)
(* chooses the same winner regardless of arrival order".)                  *)
(***************************************************************************)
SameWinner ==
  \A n, p \in Nodes : seen[n] = seen[p] => index[n] = index[p]

\* What makes SameWinner hold: every node holds the greatest entry it was told.
HoldsGreatest ==
  \A n \in Nodes :
    /\ IF seen[n] = {} THEN index[n] = NoEntry ELSE index[n] \in seen[n]
    /\ \A e \in seen[n] : e = index[n] \/ Wins(index[n], e)

\* Manifests in use were read from some node's index.
ManifestsWritten == \A n \in Nodes : sync[n].manifest \in Wrote \cup {NoEntry}

\* The inductive invariant.
IInv == TypeOK /\ HoldsGreatest /\ ManifestsWritten

(***************************************************************************)
(* When the writes have stopped (MaxVersion bounds them), syncs alone make *)
(* all nodes agree on the entry, whatever gossip was lost.                 *)
(***************************************************************************)
Converges == <>[](\A n, p \in Nodes : index[n] = index[p])

(***************************************************************************)
(* The nodes implement the replicated register: gossip and syncs only ever *)
(* move a node forward, to an entry somebody wrote.                        *)
(***************************************************************************)
Register == INSTANCE ReplicatedRegister WITH reg <- index, wrote <- Wrote

ImplementsRegister == Register!Spec

=============================================================================
