------------------------------ MODULE MCLiveWork ------------------------------
(***************************************************************************)
(* What must happen to work that was accepted: gossip and escrowed tasks,  *)
(* side by side.  A behaviour is a fair one of a single component, the     *)
(* focus; the other one rests in its initial state.                        *)
(***************************************************************************)
EXTENDS MCOutbox, Escrow

VARIABLE focus

\* Pipelines, with one peer and one crash.
MCLiveKinds == {PipelineKind(1)}

workVars == <<vars, esVars, focus>>

WorkInit ==
  /\ Init /\ ESInit
  /\ focus \in {"outbox", "escrow"}

WorkNext ==
  /\ UNCHANGED focus
  /\ \/ focus = "outbox" /\ Next /\ UNCHANGED esVars
     \/ focus = "escrow" /\ ESNext /\ UNCHANGED vars

\* A behaviour is fair to the component that moves.
WorkFairness ==
  \/ focus = "outbox" /\ Fairness
  \/ focus = "escrow" /\ ESFairness

WorkSpec == WorkInit /\ [][WorkNext]_workVars /\ WorkFairness
=============================================================================
