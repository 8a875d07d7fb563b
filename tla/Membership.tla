------------------------------ MODULE Membership ------------------------------
(* The cluster topology of one node: the peer registry, the records of it     *)
(* kept in the database, and the handlers that change both.  A record is the  *)
(* first of a list of addresses, the primary one, the set of the others and a *)
(* sequence number; its sponsor flag is left out.  A handler reads the record *)
(* there is, changes the registry under its lock, then deletes and saves      *)
(* records in the database, one step each: others and a restart come in       *)
(* between.                                                                   *)
EXTENDS Naturals

CONSTANTS Peers,     \* the other nodes
          Addresses, \* the addresses of nodes
          Others,    \* the sets of further addresses that are announced
          MaxSeq,    \* the largest sequence number of a record
          Handlers,  \* the requests served at the same time
          NoRecord   \* no record

ASSUME MembershipAssumption == MaxSeq \in Nat /\ Others \subseteq SUBSET Addresses

VARIABLES registry, \* registry[p]: PeerRegistry.peers[p].record, or none
          peerDB,   \* peerDB[p]: the record of p in the database
          hd,       \* hd[h]: where handler h stands
          loading   \* the peers server.New has still to load

mbVars == <<registry, peerDB, hd, loading>>

\* The records that are announced, and those that merges make of them.  Every
\* node announces its own address, so that no list is empty.
Records == [primary : Addresses, others : Others, seq : 0..MaxSeq]
Merged == [primary : Addresses, others : SUBSET Addresses, seq : 0..MaxSeq]

ASSUME NoRecordAssumption == NoRecord \notin Merged

Free == [pc |-> "free"]

Registered(p) == registry[p] # NoRecord

MBTypeOK == /\ \A p \in Peers : registry[p] \in Merged \cup {NoRecord}
            /\ \A p \in Peers : peerDB[p] \in Records \cup {NoRecord}
            /\ \A h \in Handlers :
                 hd[h].pc \in {"free", "add", "evict", "save", "delete"}
            /\ loading \subseteq Peers

MBInit == /\ registry = [p \in Peers |-> NoRecord]
          /\ peerDB = [p \in Peers |-> NoRecord]
          /\ hd = [h \in Handlers |-> Free]
          /\ loading = {}

\* A request is served once the peers are loaded.
Idle(h) == hd[h].pc = "free" /\ loading = {}
At(h, pc) == hd[h].pc = pc
Move(h, s) == hd' = [hd EXCEPT ![h] = s]

(* ------------------------------ the registry ----------------------------- *)

\* Mutant of Evicted: the peers that had the address stay.
EvictedNone(reg, p, rec) == {}

\* The registered peers that the record of p puts out: same primary address.
Evicted(reg, p, rec) ==
  {q \in Peers \ {p} : reg[q] # NoRecord /\ reg[q].primary = rec.primary}

\* A record older than the one there is refused; one of the same sequence keeps
\* the primary address there is and adds its addresses to the others.
Newer(reg, p, rec) == reg[p] = NoRecord \/ rec.seq >= reg[p].seq
Merge(old, rec) ==
  [old EXCEPT !.others = (@ \cup {rec.primary} \cup rec.others) \ {old.primary}]

\* PeerRegistry.AddPeer, one critical section.
AddPeer(reg, p, rec) ==
  LET out == Evicted(reg, p, rec)
      new == IF reg[p] # NoRecord /\ rec.seq = reg[p].seq
             THEN Merge(reg[p], rec) ELSE rec
  IN  [q \in Peers |-> IF q \in out THEN NoRecord
                       ELSE IF q = p /\ Newer(reg, p, rec) THEN new
                       ELSE reg[q]]

(* ------------------------------ the handlers ----------------------------- *)

\* HandleAnnounce, AnnouncePresenceContext for each record of the response, and
\* HandleAddPeer for the caller itself, up to AddPeer.
HandleAnnounce(h, p, rec) ==
  /\ Idle(h)
  /\ Move(h, [pc |-> "add", peer |-> p, rec |-> rec])
  /\ UNCHANGED <<registry, peerDB, loading>>

\* HandleAddPeer when another node passes the record of p on: never a sequence
\* above the one the registry has now.
HandleAddPeer(h, p, rec) ==
  /\ Idle(h)
  /\ Move(h, [pc |-> "add", peer |-> p,
              rec |-> [rec EXCEPT !.seq = IF Registered(p) /\ @ > registry[p].seq
                                          THEN registry[p].seq ELSE @]])
  /\ UNCHANGED <<registry, peerDB, loading>>

\* Server.AddPeer: the registry, then the records of the peers put out, then,
\* unless the record was refused, the record as it came (not as merged).  A
\* write that fails is only logged and leaves what a crash before it leaves.
AddPeerRegister(h) ==
  LET p == hd[h].peer
      rec == hd[h].rec
      out == Evicted(registry, p, rec)
  IN  /\ At(h, "add")
      /\ registry' = AddPeer(registry, p, rec)
      /\ Move(h, [pc |-> "evict", peer |-> p, rec |-> rec, out |-> out,
                  updated |-> Newer(registry, p, rec)])
      /\ UNCHANGED <<peerDB, loading>>

AddPeerEvict(h) ==
  /\ At(h, "evict")
  /\ peerDB' = [q \in Peers |-> IF q \in hd[h].out THEN NoRecord ELSE peerDB[q]]
  /\ Move(h, IF hd[h].updated
             THEN [pc |-> "save", peer |-> hd[h].peer, rec |-> hd[h].rec]
             ELSE Free)
  /\ UNCHANGED <<registry, loading>>

AddPeerSave(h) ==
  /\ At(h, "save")
  /\ peerDB' = [peerDB EXCEPT ![hd[h].peer] = hd[h].rec]
  /\ Move(h, Free)
  /\ UNCHANGED <<registry, loading>>

\* HandleLeavePeer, Server.RemovePeer: the registry, then the database.
HandleLeavePeer(h, p) ==
  /\ Idle(h)
  /\ registry' = [registry EXCEPT ![p] = NoRecord]
  /\ Move(h, [pc |-> "delete", peer |-> p])
  /\ UNCHANGED <<peerDB, loading>>

RemovePeerDelete(h) ==
  /\ At(h, "delete")
  /\ peerDB' = [peerDB EXCEPT ![hd[h].peer] = NoRecord]
  /\ Move(h, Free)
  /\ UNCHANGED <<registry, loading>>

\* server.New after a crash: the registry is filled from the database, in the
\* order of a Go map, through the registry's own AddPeer; what that puts out
\* stays in the database.  Records that cannot be read are only logged.
Restart ==
  /\ registry' = [p \in Peers |-> NoRecord]
  /\ hd' = [h \in Handlers |-> Free]
  /\ loading' \in {{p \in Peers : peerDB[p] # NoRecord}, {}}
  /\ UNCHANGED peerDB

LoadPeer(p) ==
  /\ p \in loading
  /\ registry' = AddPeer(registry, p, peerDB[p])
  /\ loading' = loading \ {p}
  /\ UNCHANGED <<peerDB, hd>>

MBNext ==
  \/ \E h \in Handlers, p \in Peers, rec \in Records :
       \/ HandleAnnounce(h, p, rec)
       \/ HandleAddPeer(h, p, rec)
  \/ \E h \in Handlers : \/ AddPeerRegister(h) \/ AddPeerEvict(h)
                         \/ AddPeerSave(h) \/ RemovePeerDelete(h)
  \/ \E h \in Handlers, p \in Peers : HandleLeavePeer(h, p)
  \/ Restart
  \/ \E p \in Peers : LoadPeer(p)

MBSpec == MBInit /\ [][MBNext]_mbVars

(* ------------------------------- properties ------------------------------ *)

\* No two registered peers have the same primary address, whatever announced,
\* passed-on and merged records, removals and reloads of the database came
\* before: a node that came back under another identity has replaced the old.
PrimaryUnique ==
  \A p, q \in Peers : p # q /\ Registered(p) /\ Registered(q)
                        => registry[p].primary # registry[q].primary
===============================================================================
