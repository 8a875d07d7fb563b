----------------------------- MODULE CatalogPush ------------------------------
(***************************************************************************)
(* The push of the local catalogue to a peer whose address record was      *)
(* added or refreshed (Server.AddPeer, syncCatalogToPeer), running beside  *)
(* the outbox.  Unlike a mutation, notifyWithOutbox reads the entity and   *)
(* stages it without the delivery lock; only the delivery takes it.  Its   *)
(* reservation can overtake the one of a mutation, or of the flush, whose  *)
(* row is then not put.                                                    *)
(***************************************************************************)
EXTENDS Outbox

CONSTANT
  AddRevs       \* the revisions that add the entity; the others remove it

VARIABLE push   \* the push to one peer: what it read, its generation

IdlePush == [pc |-> "idle", peer |-> 0, rev |-> 0, gen |-> 0]

pushVars == <<vars, push>>

PushInit == Init /\ push = IdlePush

\* syncOnJoin lists the entities that exist and builds their payloads.
PushRead(p) ==
  /\ push.pc = "idle"
  /\ cur \in AddRevs
  /\ push' = [pc |-> "reserve", peer |-> p, rev |-> cur, gen |-> 0]
  /\ UNCHANGED vars

PushReserve ==
  /\ push.pc = "reserve"
  /\ Reserve(push.peer)
  /\ push' = [pc |-> "put", peer |-> push.peer, rev |-> push.rev, gen |-> gen + 1]
  /\ UNCHANGED <<cur, revs, box, mu, lock, mut, waiting, sending, flush, peerVars, envVars, wanted,
                 sendable>>

\* The row is staged unless a later reservation overtook it; then it is sent.
PushPut ==
  LET row == [gen |-> push.gen, rev |-> push.rev]
  IN  /\ push.pc = "put"
      /\ Put(push.peer, row)
      /\ waiting' = waiting \cup
           (IF PutApplies(push.peer, row.gen) THEN {Attempt(push.peer, row, "join")} ELSE {})
      /\ push' = IdlePush
      /\ UNCHANGED <<cur, revs, gen, mu, lock, mut, sending, flush, peerVars, envVars, wanted,
                     sendable>>

PushNext ==
  \/ Next /\ push' = (IF crashes' > crashes THEN IdlePush ELSE push)
  \/ \E p \in Peers : PushRead(p)
  \/ PushReserve
  \/ PushPut

PushSpec == PushInit /\ [][PushNext]_pushVars

=============================================================================
