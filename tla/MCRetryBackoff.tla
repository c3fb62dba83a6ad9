--------------------------- MODULE MCRetryBackoff ---------------------------
(***************************************************************************)
(* RetryBackoff with the delays of config.yaml, in seconds.                *)
(***************************************************************************)
EXTENDS RetryBackoff
=============================================================================
