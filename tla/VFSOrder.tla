------------------------------- MODULE VFSOrder -------------------------------
(***************************************************************************)
(* The replicated VFS order and the write rule built on it, as operators:  *)
(* internal/storage/vfs.go.  An index entry is the record of               *)
(* protocol.IndexEntry.  Names, hashes and sizes are naturals: the code    *)
(* compares names and hashes as strings, and only their order matters.     *)
(* NoHash stands for the empty string.                                     *)
(***************************************************************************)
EXTENDS Naturals

NoHash == 0

\* The "key not found" result of a bucket read.
NoEntry == [name |-> 0, version |-> 0, deleted |-> FALSE, hash |-> NoHash, size |-> 0]

EntryType == [name : Nat, version : Nat, deleted : BOOLEAN, hash : Nat, size : Nat]

Exists(e) == e # NoEntry

Live(e) == Exists(e) /\ ~e.deleted

\* Mutant of Wins: ties between equal versions are not broken.
WinsByVersion(candidate, current) == candidate.version > current.version

(***************************************************************************)
(* compareIndexEntries(candidate, current) > 0: candidate wins.  The       *)
(* fields are compared in the order version, tombstone, hash, size, name.  *)
(***************************************************************************)
Wins(candidate, current) ==
  \/ candidate.version > current.version
  \/ /\ candidate.version = current.version
     /\ \/ candidate.deleted /\ ~current.deleted
        \/ /\ candidate.deleted = current.deleted
           /\ \/ candidate.hash > current.hash
              \/ /\ candidate.hash = current.hash
                 /\ \/ candidate.size > current.size
                    \/ /\ candidate.size = current.size
                       /\ candidate.name > current.name

\* Mutant of Applies: an entry of the same version replaces the existing one.
AppliesIfNotOlder(entry, existing) ==
  entry.version > 0 => ~Exists(existing) \/ entry.version >= existing.version

(***************************************************************************)
(* resolveVFSWrite: a version of zero asks for the next version; an        *)
(* explicit version is written only when it wins over the existing entry.  *)
(***************************************************************************)
Applies(entry, existing) ==
  entry.version > 0 => ~Exists(existing) \/ Wins(entry, existing)

NextVersion(existing) == IF Exists(existing) THEN existing.version + 1 ELSE 1

Written(entry, existing) ==
  IF entry.version > 0 THEN entry ELSE [entry EXCEPT !.version = NextVersion(existing)]

Resolve(entry, existing) ==
  IF Applies(entry, existing) THEN Written(entry, existing) ELSE existing

(***************************************************************************)
(* queueSupersededBlobGCTx: the hashes a write hands to the garbage        *)
(* collector.                                                              *)
(***************************************************************************)
Superseded(previous, next) ==
  IF \/ ~Exists(previous)
     \/ previous.hash = NoHash
     \/ ~next.deleted /\ previous.hash = next.hash
  THEN {}
  ELSE {previous.hash}

\* Mutant of Tombstone: the hash is dropped.
TombstoneWithoutHash(entry) ==
  [name |-> entry.name, version |-> entry.version + 1, deleted |-> TRUE,
   hash |-> NoHash, size |-> entry.size]

\* DeleteLocalFile: the tombstone keeps the hash and size of what it deletes.
Tombstone(entry) ==
  [name |-> entry.name, version |-> entry.version + 1, deleted |-> TRUE,
   hash |-> entry.hash, size |-> entry.size]

=============================================================================
