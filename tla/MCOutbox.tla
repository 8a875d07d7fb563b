------------------------------- MODULE MCOutbox -------------------------------
(***************************************************************************)
(* The instance of Outbox for TLC.                                         *)
(***************************************************************************)
EXTENDS Outbox

CONSTANTS m1, m2

\* The VFS: mutations hold mutationMu, so one mutator is enough.
VFSKind ==
  [mutationMu |-> TRUE, callers |-> {m1}, rollbackFails |-> TRUE, maxCrashes |-> 1]

\* Pipelines: no mutationMu, so two mutations run at once.
PipelineKind(crash) ==
  [mutationMu |-> FALSE, callers |-> {m1, m2}, rollbackFails |-> FALSE, maxCrashes |-> crash]

MCMutators == {m1, m2}
MCKinds    == {VFSKind, PipelineKind(0)}
=============================================================================
