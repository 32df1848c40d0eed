-------------------------- MODULE MCImportPipeline --------------------------
(***************************************************************************)
(* TLC instances of ImportPipeline: every request against every upstream.  *)
(***************************************************************************)
EXTENDS ImportPipeline
=============================================================================
