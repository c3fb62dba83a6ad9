-------------------------- MODULE HeaterDaemonLink --------------------------
(***************************************************************************)
(* HeaterDaemon implements SerialLink.  The line is _command_lock: its     *)
(* holder, when there is one, and behind it those who wait for it.         *)
(***************************************************************************)
EXTENDS HeaterDaemon

Line == IF Locked(command_lock)
        THEN <<command_lock.holder>> \o command_lock.waiters
        ELSE command_lock.waiters

(* A status, a frame and "no cached pump_data" are data. *)
AnswerOf(r) == IF r \in {"none", "OK", "ERROR"} THEN r ELSE "data"

Link == INSTANCE SerialLink
            WITH line   <- Line,
                 active <- Locked(command_lock),
                 answer <- [c \in Clients |-> AnswerOf(reply[c])],
                 sent   <- writes

(* Whatever fails, and through a shutdown: requests are sent to the heater *)
(* first come, first served, one at a time; each is answered once, and as  *)
(* "OK" only when it was sent; none that a client waits for is dropped.    *)
ImplementsSerialLink == Link!Spec
=============================================================================
