-------------------------- MODULE ReplicatedRegister --------------------------
(***************************************************************************)
(* What the replicated VFS promises of one name: every node holds an entry *)
(* that only moves forward in the order compareIndexEntries, and only to   *)
(* an entry that the node writes itself or that some node wrote before.    *)
(***************************************************************************)
EXTENDS VFSOrder

CONSTANTS Nodes, Entries

VARIABLES
  reg,      \* the entry each node holds
  wrote     \* every entry written so far

Init ==
  /\ reg = [n \in Nodes |-> NoEntry]
  /\ wrote = {}

\* A user writes at node n.
Write(n, e) ==
  /\ Wins(e, reg[n])
  /\ reg' = [reg EXCEPT ![n] = e]
  /\ wrote' = wrote \cup {e}

\* Node n takes over an entry that another node wrote.
Learn(n, e) ==
  /\ e \in wrote
  /\ Wins(e, reg[n])
  /\ reg' = [reg EXCEPT ![n] = e]
  /\ UNCHANGED wrote

Next == \E n \in Nodes, e \in Entries : Write(n, e) \/ Learn(n, e)

Spec == Init /\ [][Next]_<<reg, wrote>>

=============================================================================
