--------------------------- MODULE RuntimeStatus ---------------------------
(***************************************************************************)
(* class RuntimeStatus of heater_daemon.py: the health record every        *)
(* `heater_status` reply is computed from.  Each method is an operator     *)
(* from records to records; HeaterDaemon calls them in the code's order.   *)
(*                                                                         *)
(* Clock values are abstracted to what the code compares them with:        *)
(*   last_success  "never"   0.0                                           *)
(*                 "recent"  at most max_age seconds ago                   *)
(*                 "old"     longer ago than max_age                       *)
(*   retry         "none"    next_retry_at = 0.0                           *)
(*                 "pending" next_retry_at in the future                   *)
(*                 "due"     next_retry_at reached                         *)
(* consecutive_failures is capped at FailureCap: HeaterDaemon only asks    *)
(* whether it is positive.                                                 *)
(***************************************************************************)
EXTENDS Naturals

CONSTANT FailureCap     \* bound on consecutive_failures

ASSUME FailureCapAssumption == FailureCap \in Nat \ {0}

Status == [connected    : BOOLEAN,
           connecting   : BOOLEAN,
           failures     : 0 .. FailureCap,
           last_success : {"never", "recent", "old"},
           retry        : {"none", "pending", "due"}]

NewStatus == [connected    |-> FALSE,
              connecting   |-> FALSE,
              failures     |-> 0,
              last_success |-> "never",
              retry        |-> "none"]

(* Operators introduced as a "Defect" are not part of the model: each is a *)
(* plausible slip in the method it stands before.                          *)

(* Defect: "connecting" outlives the connection set-up. *)
MarkConnectedOnly(s, up) == [s EXCEPT !.connected = up]

(* Defect: reaching the heater is taken for a success. *)
MarkConnectedHealed(s, up) ==
    [s EXCEPT !.connected = up, !.connecting = IF up THEN FALSE ELSE @,
              !.failures = IF up THEN 0 ELSE @]

(* mark_connected: reaching the heater also ends "connecting". *)
MarkConnected(s, up) ==
    [s EXCEPT !.connected = up, !.connecting = IF up THEN FALSE ELSE @]

MarkConnecting(s, busy) == [s EXCEPT !.connecting = busy]

(* Defect: the failure counter is decremented, not reset. *)
MarkSuccessDecrement(s) == [s EXCEPT !.failures     = @ - 1,
                                     !.connecting   = FALSE,
                                     !.last_success = "recent",
                                     !.retry        = "none"]

(* Defect: the time of the success is not taken. *)
MarkSuccessTimeless(s) == [s EXCEPT !.failures   = 0,
                                    !.connecting = FALSE,
                                    !.retry      = "none"]

MarkSuccess(s) == [s EXCEPT !.failures     = 0,
                            !.connecting   = FALSE,
                            !.last_success = "recent",
                            !.retry        = "none"]

(* Defect: "connecting" survives the failure that ended it. *)
MarkFailureConnecting(s) ==
    [s EXCEPT !.failures = IF @ < FailureCap THEN @ + 1 ELSE @]

MarkFailure(s) == [s EXCEPT !.failures   = IF @ < FailureCap THEN @ + 1 ELSE @,
                            !.connecting = FALSE]

(* schedule_retry; every configured delay is positive (config.yaml). *)
ScheduleRetry(s) == [s EXCEPT !.retry = "pending"]

(* retry_in() is positive: the poll loop goes back to sleep. *)
RetryPending(s) == s.retry = "pending"

(* heater_status(max_age, has_valid_data)["heater_status"] *)
HeaterStatus(s, hasValidData) ==
    IF s.connecting                  THEN "connecting"
    ELSE IF ~s.connected             THEN "disconnected"
    ELSE IF s.failures > 0           THEN "error"
    ELSE IF ~hasValidData            THEN "connected_no_data"
    ELSE IF s.last_success = "old"   THEN "stale"
    ELSE "ok"

HeaterStatuses == {"connecting", "disconnected", "error",
                   "connected_no_data", "stale", "ok"}

=============================================================================
