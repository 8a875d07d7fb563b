-------------------------------- MODULE MCNode --------------------------------
(***************************************************************************)
(* The components of a node that share no state, side by side.  A          *)
(* behaviour moves a single component, the focus; the others rest in their *)
(* initial state, so that the state spaces add and do not multiply.        *)
(***************************************************************************)
EXTENDS Lifetime, Transport, Relay, Membership, Invites, Rotation, JoinInstall, BindRuntime, TLC

VARIABLE focus

NodeInit ==
  /\ LTInit /\ TRInit /\ RLInit /\ MBInit /\ IVInit /\ ROInit /\ JIInit /\ BRInit
  /\ focus \in {"lifetime", "transport", "relay", "membership", "invites", "rotation", "join",
                "bind"}
  /\ focus # "transport" => lower
  /\ focus # "relay" => alive = Sponsors /\ online = Sponsors /\ polled = First(Sponsors)
  /\ focus # "join" => final = [i \in Items |-> "none"]

NodeNext ==
  /\ UNCHANGED focus
  /\ \/ /\ focus = "lifetime" /\ LTNext
        /\ UNCHANGED <<trVars, rlVars, mbVars, ivVars, roVars, jiVars, brVars>>
     \/ /\ focus = "transport" /\ TRNext
        /\ UNCHANGED <<ltVars, rlVars, mbVars, ivVars, roVars, jiVars, brVars>>
     \/ /\ focus = "relay" /\ RLNext
        /\ UNCHANGED <<ltVars, trVars, mbVars, ivVars, roVars, jiVars, brVars>>
     \/ /\ focus = "membership" /\ MBNext
        /\ UNCHANGED <<ltVars, trVars, rlVars, ivVars, roVars, jiVars, brVars>>
     \/ /\ focus = "invites" /\ IVNext
        /\ UNCHANGED <<ltVars, trVars, rlVars, mbVars, roVars, jiVars, brVars>>
     \/ /\ focus = "rotation" /\ RONext
        /\ UNCHANGED <<ltVars, trVars, rlVars, mbVars, ivVars, jiVars, brVars>>
     \/ /\ focus = "join" /\ JINext
        /\ UNCHANGED <<ltVars, trVars, rlVars, mbVars, ivVars, roVars, brVars>>
     \/ /\ focus = "bind" /\ BRNext
        /\ UNCHANGED <<ltVars, trVars, rlVars, mbVars, ivVars, roVars, jiVars>>

\* The type invariant of the component that moves.
NodeTypeOK ==
  CASE focus = "lifetime"   -> LTTypeOK
    [] focus = "transport"  -> TRTypeOK
    [] focus = "relay"      -> RLTypeOK
    [] focus = "membership" -> MBTypeOK
    [] focus = "invites"    -> IVTypeOK
    [] focus = "rotation"   -> ROTypeOK
    [] focus = "join"       -> JITypeOK
    [] focus = "bind"       -> BRTypeOK

NodeSymmetry == Permutations(Prewarms) \cup Permutations(Conns)
=============================================================================
