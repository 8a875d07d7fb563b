------------------------------ MODULE Pipelines ------------------------------
(***************************************************************************)
(* The rules on pipeline schemas of internal/protocol/pipeline_validate.go *)
(* and pipeline_migration.go, as operators, with the reference definitions *)
(* they are checked against.                                               *)
(*                                                                         *)
(* A schema is a record of its version ver, the mark del of a tombstone,   *)
(* the sequence steps of records [id, svc, tgt] and the set conns of       *)
(* connections [from, fp, to, tp] (from port fp to port tp).               *)
(***************************************************************************)
EXTENDS Naturals, Sequences, FiniteSets

Initial == "$initial"   \* the source of the pipeline's own parameters

StepIDs(s) == {s.steps[i].id : i \in DOMAIN s.steps}
Pos(s, id) == CHOOSE i \in DOMAIN s.steps : s.steps[i].id = id

UniqueIDs(s) == Cardinality(StepIDs(s)) = Len(s.steps)

\* The edges PipelineHasCycle keeps: between defined steps, each once.
Edges(s) == {<<c.from, c.to>> : c \in s.conns} \cap (StepIDs(s) \X StepIDs(s))

\* The steps that still have an unvisited predecessor after k rounds of the queue.
Unvisited(s) ==
  LET left[k \in 0 .. Len(s.steps)] ==
        IF k = 0 THEN StepIDs(s)
        ELSE {t \in left[k - 1] : \E f \in left[k - 1] : <<f, t>> \in Edges(s)}
  IN left[Len(s.steps)]

\* Mutant of PipelineHasCycle: only looks at the sources of the graph.
PipelineHasNoSource(s) == \A t \in StepIDs(s) : \E e \in Edges(s) : e[2] = t

\* PipelineHasCycle compares the visited steps with the length of Steps.
PipelineHasCycle(s) == Cardinality(StepIDs(s) \ Unvisited(s)) < Len(s.steps)

\* ValidatePipelineSchema; lookup maps each known service to its params and
\* outs, functions from ports to types.
ValidatePipelineSchema(s, lookup) ==
  /\ s.steps # <<>>
  /\ UniqueIDs(s)
  /\ ~PipelineHasCycle(s)
  /\ \A c \in s.conns :
       /\ c.from # Initial => c.from \in StepIDs(s)
       /\ c.to \in StepIDs(s)
       /\ c.from # Initial => Pos(s, c.from) < Pos(s, c.to)
       /\ LET toSvc == s.steps[Pos(s, c.to)].svc
          IN toSvc \in DOMAIN lookup =>
               /\ c.tp \in DOMAIN lookup[toSvc].params
               /\ c.from # Initial =>
                    LET fromSvc == s.steps[Pos(s, c.from)].svc
                    IN fromSvc \in DOMAIN lookup /\ DOMAIN lookup[fromSvc].outs # {} =>
                         /\ c.fp \in DOMAIN lookup[fromSvc].outs
                         /\ lookup[fromSvc].outs[c.fp] = lookup[toSvc].params[c.tp]

\* ValidatePipelineRevision
ValidatePipelineRevision(cur, next) ==
  \/ next.ver > cur.ver
  \/ /\ next.ver = cur.ver
     /\ next.steps = cur.steps /\ next.conns = cur.conns
     /\ cur.del => next.del

\* ValidatePrefixMigration.  done is the sequence of completed step IDs, outs
\* maps each step with recorded outputs to its set of ports.
ValidatePrefixMigration(done, outs, cur, upd) ==
  /\ ~upd.del /\ upd.ver >= cur.ver
  /\ upd.steps # <<>> /\ ~PipelineHasCycle(upd)
  /\ Len(upd.steps) >= Len(done)
  /\ \A i \in DOMAIN done :
       /\ upd.steps[i].id = done[i]
       /\ done[i] \in StepIDs(cur)
       /\ upd.steps[i].svc = cur.steps[Pos(cur, done[i])].svc
       /\ upd.steps[i].tgt = cur.steps[Pos(cur, done[i])].tgt
  /\ UniqueIDs(upd)
  /\ \A c \in upd.conns : c.from # Initial =>
       /\ c.from \in StepIDs(upd) /\ c.to \in StepIDs(upd)
       /\ Pos(upd, c.from) < Pos(upd, c.to)
       /\ LET completed == \E i \in DOMAIN done : done[i] = c.from
          IN /\ completed => c.from \in DOMAIN outs /\ c.fp \in outs[c.from]
             /\ ~completed => Pos(upd, c.to) - 1 > Len(done)

-----------------------------------------------------------------------------
(* Reference definitions.                                                  *)

\* A walk along connections that returns to its start.
ClosedWalk(s) ==
  \E n \in 1 .. Len(s.steps) : \E p \in [0 .. n -> StepIDs(s)] :
    p[0] = p[n] /\ \A i \in 1 .. n : <<p[i - 1], p[i]>> \in Edges(s)

\* Every connection into a step from i on is fed when the steps run in order:
\* by a recorded port of an earlier completed step, or by a step that runs between.
RunsFrom(s, i, outs) ==
  \A c \in s.conns : c.from # Initial /\ c.to \in StepIDs(s) /\ Pos(s, c.to) >= i =>
    /\ c.from \in StepIDs(s)
    /\ Pos(s, c.from) < Pos(s, c.to)
    /\ Pos(s, c.from) < i => c.from \in DOMAIN outs /\ c.fp \in outs[c.from]
=============================================================================
