--------------------------- MODULE MCHeaterDaemon ---------------------------
(***************************************************************************)
(* HeaterDaemon on small instances.                                        *)
(***************************************************************************)
EXTENDS HeaterDaemonLink, HeaterDaemonHealth, TLC

ClientSymmetry == Permutations(Clients)
=============================================================================
