--------------------------- MODULE MCModeControl ---------------------------
(***************************************************************************)
(* ModeControl on small instances.                                         *)
(***************************************************************************)
EXTENDS ModeControl, TLC
=============================================================================
