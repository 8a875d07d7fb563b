----------------------------- MODULE MCCatalogPush ----------------------------
(***************************************************************************)
(* The instance of CatalogPush for TLC: pipelines, and one crash.          *)
(***************************************************************************)
EXTENDS CatalogPush, MCOutbox

MCPushKinds == {PipelineKind(1)}
=============================================================================
