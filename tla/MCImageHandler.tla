--------------------------- MODULE MCImageHandler ---------------------------
(***************************************************************************)
(* TLC instances of ImageHandler.                                          *)
(***************************************************************************)
EXTENDS ImageHandler
=============================================================================
