------------------------- MODULE HeaterDaemonHealth -------------------------
(***************************************************************************)
(* HeaterDaemon implements DaemonHealth.  What counts of time is max_age:  *)
(* a valid frame has age 0 until max_age has passed since its success, and *)
(* age 1 from then on.                                                     *)
(***************************************************************************)
EXTENDS HeaterDaemon

CachedFrame ==
    IF Running /\ heater_response # NoFrame
    THEN [kind |-> IF heater_response.valid THEN "valid" ELSE "invalid",
          age  |-> IF heater_response.valid /\ status.last_success # "recent"
                   THEN 1 ELSE 0]
    ELSE [kind |-> "none", age |-> 0]

Health == INSTANCE DaemonHealth
            WITH MaxAge  <- 0,
                 AgeCap  <- 1,
                 up      <- Running,
                 linked  <- Running /\ status.connected /\ ~status.connecting,
                 failing <- Running /\ status.failures > 0,
                 frame   <- CachedFrame

(* Whatever commands, polls and disconnects do to the health record in     *)
(* between: a failure that was counted is ended by a valid frame and by    *)
(* nothing else, the frame served changes only with a poll, and a valid    *)
(* one is as old as the last success.                                      *)
ImplementsDaemonHealth == Health!DaemonSpec
=============================================================================
