------------------------------- MODULE MCLiveNet ------------------------------
(***************************************************************************)
(* What must happen to a node on the network: shutdown, its address, the   *)
(* sponsor it polls, and the stop of the bind runtime, side by side.  A    *)
(* behaviour is a fair one of a single component, the focus; the others    *)
(* rest in their initial state.                                            *)
(***************************************************************************)
EXTENDS Lifetime, Relay, BindRuntime

VARIABLE focus

netVars == <<ltVars, rlVars, brVars, focus>>

NetInit ==
  /\ LTInit /\ RLInit /\ BRInit
  /\ focus \in {"lifetime", "relay", "bind"}
  /\ focus # "relay" => alive = Sponsors /\ online = Sponsors /\ polled = First(Sponsors)

NetNext ==
  /\ UNCHANGED focus
  /\ \/ focus = "lifetime" /\ LTNext /\ UNCHANGED <<rlVars, brVars>>
     \/ focus = "relay" /\ RLNext /\ UNCHANGED <<ltVars, brVars>>
     \/ focus = "bind" /\ BRNext /\ UNCHANGED <<ltVars, rlVars>>

\* A behaviour is fair to the component that moves.
NetFairness ==
  \/ focus = "lifetime" /\ LTFairness
  \/ focus = "relay" /\ RLFairness
  \/ focus = "bind" /\ BRFairness

NetSpec == NetInit /\ [][NetNext]_netVars /\ NetFairness
=============================================================================
