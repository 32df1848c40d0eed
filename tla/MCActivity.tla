----------------------------- MODULE MCActivity -----------------------------
(***************************************************************************)
(* TLC instance of Activity: every interleaving of requests, polls of the  *)
(* idle future and ticks.                                                  *)
(***************************************************************************)
EXTENDS Activity
=============================================================================
