----------------------------- MODULE MCUpgrade ------------------------------
(***************************************************************************)
(* TLC instances of Upgrade.  It has no parameters: the runs are the whole *)
(* state space.                                                            *)
(***************************************************************************)
EXTENDS Upgrade
=============================================================================
