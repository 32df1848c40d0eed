--------------------------- MODULE MCPagesPublish ---------------------------
(***************************************************************************)
(* TLC instances of PagesPublish.  A run is only ever compared for         *)
(* equality.                                                               *)
(***************************************************************************)
EXTENDS PagesPublish, TLC

Symmetry == Permutations(Runs)

=============================================================================
