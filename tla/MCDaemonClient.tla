--------------------------- MODULE MCDaemonClient ---------------------------
(***************************************************************************)
(* DaemonClient on a small instance.                                       *)
(***************************************************************************)
EXTENDS DaemonClient, TLC
=============================================================================
