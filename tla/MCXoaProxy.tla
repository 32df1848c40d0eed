----------------------------- MODULE MCXoaProxy -----------------------------
(***************************************************************************)
(* TLC instances of XoaProxy.  A connection is only ever compared for      *)
(* equality, so the safety run may permute them.                           *)
(***************************************************************************)
EXTENDS XoaProxy, TLC

Symmetry == Permutations(Conn)

=============================================================================
