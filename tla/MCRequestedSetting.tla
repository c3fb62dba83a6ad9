------------------------- MODULE MCRequestedSetting -------------------------
(***************************************************************************)
(* RequestedSetting on small instances.                                    *)
(***************************************************************************)
EXTENDS RequestedSetting, TLC
=============================================================================
