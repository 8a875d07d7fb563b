------------------------------- MODULE MCCompute ------------------------------
(***************************************************************************)
(* The components of the compute engine, side by side.  A behaviour moves  *)
(* a single one, the focus; the others rest in their initial state, so     *)
(* that the state spaces add and do not multiply.  The rules on schemas    *)
(* have no state: graph is an input they are evaluated on.                 *)
(***************************************************************************)
EXTENDS TaskStatus, PipelineRun, Escrow, TLC

VARIABLES focus, graph

-----------------------------------------------------------------------------
(* One pipeline with three revisions: a step is added to the first, and    *)
(* the third drops its prefix.                                             *)

St(i, s) == [id |-> i, svc |-> s, tgt |-> NoNode]
Cn(f, t) == [from |-> f, fp |-> "out", to |-> t, tp |-> "in"]
Rev(v, steps, conns) == [ver |-> v, del |-> FALSE, steps |-> steps, conns |-> conns]

MCRevisions ==
  << Rev(1, <<St("a", "x"), St("b", "y")>>, {Cn("a", "b")}),
     Rev(2, <<St("a", "x"), St("b", "y"), St("d", "x")>>, {Cn("a", "b"), Cn("b", "d")}),
     Rev(3, <<St("d", "x")>>, {}) >>

\* Each service on another node, or one of them on two.
MCDeployments ==
  { "c" :> {} @@ "w" :> {"x"} @@ "v" :> {"y"},
    "c" :> {"x"} @@ "w" :> {"x", "y"} @@ "v" :> {"y"} }

MCPorts == [s \in {"x", "y"} |-> {"out"}]

ASSUME MCPortsAssumption == PortsDeclared

\* Schemas of up to three steps, with every set of connections.
Graphs ==
  LET ids == {"a", "b", "d"}
  IN {Rev(2, [i \in DOMAIN o |-> St(o[i], "x")], {Cn(e[1], e[2]) : e \in es}) :
        o \in {<<"a", "b", "d">>, <<"b", "a", "d">>, <<"a", "d">>}, es \in SUBSET (ids \X ids)}

-----------------------------------------------------------------------------
ComputeInit ==
  /\ TSInit /\ PRInit /\ ESInit
  /\ focus \in {"status", "pipeline", "escrow", "schemas"}
  /\ graph \in IF focus = "schemas" THEN Graphs ELSE {Revisions[1]}
  /\ focus # "pipeline" => hand = CHOOSE d \in Deployments : TRUE

ComputeNext ==
  /\ UNCHANGED <<focus, graph>>
  /\ \/ focus = "status" /\ TSNext /\ UNCHANGED <<prVars, esVars>>
     \/ focus = "pipeline" /\ PRNext /\ UNCHANGED <<tsVars, esVars>>
     \/ focus = "escrow" /\ ESNext /\ UNCHANGED <<tsVars, prVars>>

\* The type invariant of the component that moves, with the limits of its tables.
ComputeTypeOK ==
  CASE focus = "status"   -> TSTypeOK
    [] focus = "pipeline" -> PRTypeOK
    [] focus = "escrow"   -> ESTypeOK
    [] focus = "schemas"  -> graph \in Graphs

\* The queue of PipelineHasCycle finds a cycle exactly when there is a closed
\* walk; and a revision that ValidatePrefixMigration lets a task adopt feeds
\* every step that is still to run, whatever prefix is done and recorded.
SchemaRulesSound ==
  focus = "schemas" =>
    /\ PipelineHasCycle(graph) <=> ClosedWalk(graph)
    /\ \A k \in 0 .. 2 :
         LET done == SubSeq(<<"a", "b">>, 1, k)
         IN \A recorded \in SUBSET {"a", "b"} :
              LET outs == [id \in recorded |-> {"out"}]
              IN ValidatePrefixMigration(done, outs, Revisions[1], graph) =>
                   RunsFrom(graph, k + 1, outs)
=============================================================================
