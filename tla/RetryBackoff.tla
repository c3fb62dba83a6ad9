---------------------------- MODULE RetryBackoff ----------------------------
(***************************************************************************)
(* When the daemon polls (heater_daemon.py): the retry delays of           *)
(* RuntimeStatus, poll_once and the sleeps of poll_loop, on a clock.       *)
(*                                                                         *)
(* A tick is a unit of time in which every delay is a whole number.  Time  *)
(* passes while the loop sleeps, waits for poll_lock or polls; what a task *)
(* does between two awaits takes none, and a sleep that is over is acted   *)
(* on before time goes on.  How long a poll takes is left open.            *)
(***************************************************************************)
EXTENDS Naturals

CONSTANTS Interval,      \* --interval
          Backoff,       \* --reconnect-backoff
          ReconnectMax,  \* --reconnect-backoff-max
          NotFoundMax,   \* --not-found-backoff-max
          FailureCap     \* bound on consecutive_failures

ASSUME DelaysAssumption ==
    /\ Interval \in Nat \ {0}     /\ Backoff \in Nat \ {0}
    /\ ReconnectMax \in Nat \ {0} /\ NotFoundMax \in Nat \ {0}

(* From the seventh failure on the exponent stays what it is. *)
ASSUME FailureCapAssumption == FailureCap \in Nat /\ FailureCap >= 7

VARIABLES
    failures,  \* status.consecutive_failures
    retry,     \* status.next_retry_at from now, 0 when there is none or it is past
    poller,    \* who holds poll_lock: "nobody", "loop", "client"
    queued,    \* the loop waits for poll_lock
    sleep,     \* what is left of the loop's sleep
    since,     \* history: time without a poll since the latest one ended
    delay,     \* history: the delay that one scheduled, 0 when it succeeded
    cap,       \* history: the cap of the latest failure
    missing    \* history: the latest poll failed and left no connection

statusVars == <<failures, retry>>
loopVars   == <<poller, queued, sleep>>
history    == <<since, delay, cap, missing>>
vars       == <<statusVars, loopVars, history>>

Lesser(a, b)  == IF a < b THEN a ELSE b
Greater(a, b) == IF a > b THEN a ELSE b

Init ==
    /\ failures = 0 /\ retry = 0
    /\ poller = "nobody" /\ queued = FALSE /\ sleep = 0
    /\ since = 0 /\ delay = 0 /\ cap = NotFoundMax /\ missing = FALSE

-----------------------------------------------------------------------------
(* RuntimeStatus.  An operator introduced as a "Defect" is not part of the *)
(* model: it is a plausible slip in the code it stands before.             *)

(* 2 ** exponent, of an exponent of at most 6 *)
Doubled == <<1, 2, 4, 8, 16, 32, 64>>

(* Defect: the exponent starts again instead of staying at its limit. *)
WrappingExponent(n) == IF n = 0 THEN 0 ELSE (n - 1) % 7

Exponent(n) == IF n = 0 THEN 0 ELSE Lesser(n - 1, 6)

(* Defect: the delay is not capped. *)
UncappedDelay(n, max) == Backoff * Doubled[Exponent(n) + 1]

(* retry_delay, after n failures *)
RetryDelay(n, max) == Lesser(max, Backoff * Doubled[Exponent(n) + 1])

(* Defect: the cap is chosen by the error alone. *)
CapByError(notFound, up) == IF notFound THEN NotFoundMax ELSE ReconnectMax

(* The cap poll_once hands over and retry_delay_for_error may replace. *)
CapFor(notFound, up) == IF notFound \/ ~up THEN NotFoundMax ELSE ReconnectMax

-----------------------------------------------------------------------------
(* How a poll ends for the task that made it; pause is what the loop then  *)
(* sleeps.  asyncio.Lock hands poll_lock to the loop when it waits for it; *)
(* a client that asks at that very moment is taken to ask after the loop's *)
(* poll (HeaterDaemon has the lock itself).                                *)
PollEnds(pause) ==
    /\ poller' = IF queued THEN "loop" ELSE "nobody"
    /\ queued' = FALSE
    /\ sleep'  = IF poller = "loop" THEN pause ELSE sleep
    /\ since'  = 0

PollSucceeds ==
    /\ poller # "nobody"
    /\ failures' = 0
    /\ retry'    = 0
    /\ delay'    = 0
    /\ missing'  = FALSE
    /\ PollEnds(Interval)
    /\ UNCHANGED cap

(* The except-branch of poll_once: notFound says that the error is of a    *)
(* heater that was not found, up that there is a connection.               *)
PollFails(notFound, up) ==
    /\ poller # "nobody"
    /\ failures' = Lesser(failures + 1, FailureCap)
    /\ cap'      = CapFor(notFound, up)
    /\ delay'    = RetryDelay(failures', cap')
    /\ retry'    = delay'
    /\ missing'  = ~up
    /\ PollEnds(Lesser(delay', Interval))

-----------------------------------------------------------------------------
(* Defect: a pending retry is slept through in one interval. *)
IntervalNap == Interval

(* min(retry_in, interval) *)
Nap == Lesser(retry, Interval)

(* The loop wakes up. *)
Awake == poller # "loop" /\ ~queued /\ sleep = 0

(* Defect: no `continue` after the nap. *)
RetryForgotten == FALSE

(* A retry is pending. *)
RetryPending == retry > 0

PollLoopNaps ==
    /\ Awake
    /\ RetryPending
    /\ sleep' = Nap
    /\ UNCHANGED <<statusVars, poller, queued, history>>

PollLoopPolls ==
    /\ Awake
    /\ ~RetryPending
    /\ \/ poller = "nobody" /\ poller' = "loop" /\ UNCHANGED queued
       \/ poller # "nobody" /\ queued' = TRUE /\ UNCHANGED poller
    /\ UNCHANGED <<statusVars, sleep, history>>

(* pump_data_force; while somebody polls it is answered at once. *)
PumpDataForce ==
    /\ poller = "nobody"
    /\ poller' = "client"
    /\ UNCHANGED <<statusVars, queued, sleep, history>>

Earlier(t) == IF t = 0 THEN 0 ELSE t - 1

Tick ==
    /\ ~Awake
    /\ retry' = Earlier(retry)
    /\ sleep' = Earlier(sleep)
    /\ since' = IF poller = "nobody" THEN since + 1 ELSE since
    /\ UNCHANGED <<failures, poller, queued, delay, cap, missing>>

Next ==
    \/ PollSucceeds
    \/ \E notFound, up \in BOOLEAN : PollFails(notFound, up)
    \/ PollLoopNaps \/ PollLoopPolls
    \/ PumpDataForce
    \/ Tick

Spec == Init /\ [][Next]_vars

-----------------------------------------------------------------------------
(* Correctness. *)

(* Every variable keeps its type; no delay is longer than its cap. *)
TypeOK ==
    /\ failures \in 0 .. FailureCap
    /\ retry \in Nat
    /\ poller \in {"nobody", "loop", "client"}
    /\ queued \in BOOLEAN
    /\ sleep \in 0 .. Interval
    /\ since \in Nat
    /\ cap \in {ReconnectMax, NotFoundMax}
    /\ delay \in 0 .. cap
    /\ missing \in BOOLEAN

(* The heater is polled again when the retry is due, or within an interval *)
(* where that is longer: naps that were begun earlier, by a loop that knew *)
(* nothing of a failed pump_data_force, never add up to more.              *)
PollsInTime == poller = "nobody" => since <= Greater(Interval, delay)

(* DOCS.md: a heater that is powered on again is noticed within            *)
(* not_found_backoff_max seconds, whatever error the polls failed with     *)
(* while there was no connection to it, and however often.                 *)
NoticedAfterPowerOn ==
    poller = "nobody" /\ missing => since <= Greater(Interval, NotFoundMax)

(* A loop that woke up by itself polls no sooner than the delay after the  *)
(* latest failure, its own or a client's.                                  *)
RetryWaitedFor == [][poller = "nobody" /\ poller' = "loop" => since >= delay]_vars

(* Repeated failures under the same cap never shorten the delay; only a    *)
(* success does.                                                           *)
BackoffGrows == [][cap' = cap /\ delay' < delay => delay' = 0]_vars
=============================================================================
