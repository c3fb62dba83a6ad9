---------------------------- MODULE DaemonClient ----------------------------
(***************************************************************************)
(* How the integration sees the daemon (daemon_client.py, coordinator.py,  *)
(* sensor.py): get_status merges the answers to three requests and keeps   *)
(* the result for half a second; the coordinator refreshes periodically    *)
(* and on request; a sensor shows a measurement while it may.              *)
(*                                                                         *)
(* A tick is a unit of time in which all delays are whole numbers.  The    *)
(* coordinator is the only caller of get_status, and Home Assistant makes  *)
(* it run one refresh at a time: what get_status returned last is both     *)
(* _cache and coordinator.data.                                            *)
(*                                                                         *)
(* phase: "idle", or what the refresh awaits: the answer to one of the     *)
(* three requests or, "reply", an answer to the last one that is on its    *)
(* way.  The daemon is the one of DaemonHealth, which HeaterDaemon keeps.   *)
(***************************************************************************)
EXTENDS DaemonHealth

CONSTANTS CacheTime,    \* get_status answers from _cache for so long
          Interval,     \* update_interval of the coordinator
          RequestTime   \* a request is answered or given up in this time

ASSUME TimesAssumption ==
    /\ CacheTime \in Nat \ {0} /\ Interval \in Nat \ {0}
    /\ RequestTime \in Nat     /\ MaxAge \in Nat

(* The longest that a refresh takes, and that data is shown: until it is   *)
(* not given out from the cache any more, or just until it was there, then *)
(* for an interval, and for the refresh after it.                          *)
RefreshTime == 3 * RequestTime
ShownTime   == (IF RequestTime < CacheTime THEN CacheTime ELSE RequestTime)
                 + Interval + RefreshTime

ASSUME AgeCapAssumption == AgeCap \in Nat /\ AgeCap > MaxAge + ShownTime

VARIABLES
    phase,
    waited,   \* how long the current request has taken
    begun,    \* how long the refresh has taken
    got,      \* data, the local of get_status
    data,     \* _cache and coordinator.data
    fetched,  \* how long ago _cache_ts is
    updated,  \* coordinator.last_update_success
    due,      \* when the next periodic refresh begins
    unseen,   \* history: age of the first frame not asked for since
    taken     \* history: the same, of those asked for and not shown yet

fetchVars  == <<phase, waited, begun, got>>
shownVars  == <<data, fetched, updated, due>>
history    == <<unseen, taken>>
vars       == <<daemonVars, fetchVars, shownVars, history>>

Nothing == -1     \* no such frame
Empty   == [ok |-> FALSE, frame |-> NothingCached]

Requests == {"daemon_status", "heater_status", "pump_data"}
Data     == [ok : BOOLEAN, frame : Frames]

(* The first refresh of a new client and coordinator has begun. *)
Init ==
    /\ DaemonInit
    /\ phase = "daemon_status" /\ waited = 0 /\ begun = 0 /\ got = Empty
    /\ data = Empty /\ fetched = AgeCap /\ updated = FALSE /\ due = Interval
    /\ unseen = Nothing /\ taken = Nothing

-----------------------------------------------------------------------------
(* The daemon; a frame that comes has not been asked for yet. *)

FrameComes == unseen' = IF unseen = Nothing THEN 0 ELSE unseen

PollSucceeds ==
    /\ ValidAnswer
    /\ FrameComes
    /\ UNCHANGED <<fetchVars, shownVars, taken>>

(* A poll with an answer that is not valid, or without one. *)
PollFails ==
    /\ \/ InvalidAnswer /\ FrameComes
       \/ NoAnswer /\ UNCHANGED unseen
    /\ UNCHANGED <<fetchVars, shownVars, taken>>

LinkChanges ==
    /\ LinkFlips
    /\ UNCHANGED <<fetchVars, shownVars, history>>

DaemonStops ==
    /\ Ends
    /\ unseen' = Nothing
    /\ UNCHANGED <<fetchVars, shownVars, taken>>

DaemonStarts ==
    /\ Begins
    /\ UNCHANGED <<fetchVars, shownVars, history>>

-----------------------------------------------------------------------------
(* get_status.  An operator introduced as a "Defect" is not part of the    *)
(* model: it is a plausible slip in the code it stands before.             *)

(* A refresh begins: when it is due, or because a button was pressed or    *)
(* the requested setting waits for a change.                               *)
BeginFetch ==
    /\ phase = "idle"
    /\ fetched >= CacheTime
    /\ phase' = "daemon_status"
    /\ UNCHANGED <<waited, begun, got, daemonVars, shownVars, history>>

(* The coordinator is told something, and waits for the next refresh. *)
Refreshed(success) ==
    /\ updated' = success
    /\ due'     = Interval

(* get_status is over; its locals are gone. *)
Returned ==
    /\ phase'  = "idle"
    /\ waited' = 0
    /\ begun'  = 0
    /\ got'    = Empty

(* What it asked for but did not get is as if not asked for. *)
Forgotten ==
    /\ unseen' = IF taken = Nothing THEN unseen ELSE taken
    /\ taken'  = Nothing

(* Defect: an answer from the cache makes it new. *)
SlidingCache ==
    /\ phase = "idle"
    /\ fetched < CacheTime
    /\ fetched' = 0
    /\ Refreshed(TRUE)
    /\ UNCHANGED <<data, daemonVars, fetchVars, history>>

AnswerFromCache ==
    /\ phase = "idle"
    /\ fetched < CacheTime
    /\ Refreshed(TRUE)
    /\ UNCHANGED <<data, fetched, daemonVars, fetchVars, history>>

(* Defect: without a frame the requests are made again. *)
AskedAgain(request) ==
    CASE request = "daemon_status" -> "heater_status"
      [] request = "heater_status" -> "pump_data"
      [] request = "pump_data" /\ frame = NothingCached -> "daemon_status"
      [] request = "pump_data" /\ frame # NothingCached -> "reply"

(* Defect: the frame is asked for before the health of the daemon. *)
FrameFirst(request) ==
    CASE request = "daemon_status" -> "pump_data"
      [] request = "heater_status" -> "reply"
      [] request = "pump_data"     -> "heater_status"

After(request) ==
    CASE request = "daemon_status" -> "heater_status"
      [] request = "heater_status" -> "pump_data"
      [] request = "pump_data"     -> "reply"

(* The daemon answers a request; the next one is made, if there is one. *)
Answered(request) ==
    /\ up
    /\ phase = request
    /\ phase' = After(request)
    /\ waited' = IF phase' = "reply" THEN waited ELSE 0
    /\ UNCHANGED <<begun, daemonVars, shownVars>>

DaemonStatus ==
    /\ Answered("daemon_status")
    /\ UNCHANGED <<got, history>>

HeaterStatus ==
    /\ Answered("heater_status")
    /\ got' = [got EXCEPT !.ok = DataOk]
    /\ UNCHANGED history

(* Without a frame there is an "error" instead. *)
PumpData ==
    /\ Answered("pump_data")
    /\ got'    = [got EXCEPT !.frame = frame]
    /\ taken'  = unseen
    /\ unseen' = Nothing

(* get_status returns. *)
Merged ==
    /\ phase = "reply"
    /\ data'    = got
    /\ fetched' = begun
    /\ taken'   = Nothing
    /\ Returned
    /\ Refreshed(TRUE)
    /\ UNCHANGED <<daemonVars, unseen>>

(* Defect: an update that failed is not told to the coordinator. *)
FailureUnnoticed ==
    /\ phase # "idle"
    /\ Returned
    /\ Forgotten
    /\ Refreshed(updated)
    /\ UNCHANGED <<data, fetched, daemonVars>>

(* DaemonError: no socket, no connection, a timeout, a reply cut short;    *)
(* UpdateFailed leaves the data as it is.                                  *)
RefreshFails ==
    /\ phase # "idle"
    /\ Returned
    /\ Forgotten
    /\ Refreshed(FALSE)
    /\ UNCHANGED <<data, fetched, daemonVars>>

(* The config entry is reloaded: its options changed. *)
Reload ==
    /\ phase'  = "daemon_status"
    /\ waited' = 0 /\ begun' = 0 /\ got' = Empty
    /\ data'   = Empty
    /\ fetched' = AgeCap
    /\ Refreshed(FALSE)
    /\ Forgotten
    /\ UNCHANGED daemonVars

-----------------------------------------------------------------------------
Longer(age) == IF age = Nothing THEN age ELSE Grown(age)

(* Time passes, but not beyond the end of a request or of the interval. *)
Tick ==
    /\ IF phase = "idle" THEN due > 0 ELSE waited < RequestTime
    /\ FrameAges
    /\ got'     = [got EXCEPT !.frame = Older(@)]
    /\ data'    = [data EXCEPT !.frame = Older(@)]
    /\ fetched' = Grown(fetched)
    /\ unseen'  = Longer(unseen)
    /\ taken'   = Longer(taken)
    /\ IF phase = "idle"
       THEN due' = due - 1 /\ UNCHANGED <<waited, begun>>
       ELSE waited' = waited + 1 /\ begun' = begun + 1 /\ UNCHANGED due
    /\ UNCHANGED <<phase, updated>>

Next ==
    \/ PollSucceeds \/ PollFails \/ LinkChanges \/ DaemonStops \/ DaemonStarts
    \/ BeginFetch \/ AnswerFromCache
    \/ DaemonStatus \/ HeaterStatus \/ PumpData \/ Merged \/ RefreshFails
    \/ Reload
    \/ Tick

Spec == Init /\ [][Next]_vars

-----------------------------------------------------------------------------
(* Correctness. *)

(* Every variable keeps its type; no refresh takes longer than its three   *)
(* requests may.                                                           *)
TypeOK ==
    /\ up \in BOOLEAN /\ linked \in BOOLEAN /\ failing \in BOOLEAN
    /\ updated \in BOOLEAN
    /\ frame \in Frames /\ got \in Data /\ data \in Data
    /\ phase \in Requests \cup {"idle", "reply"}
    /\ waited \in 0 .. RequestTime
    /\ begun \in 0 .. RefreshTime
    /\ due \in 0 .. Interval
    /\ fetched \in 0 .. AgeCap
    /\ unseen \in {Nothing} \cup (0 .. AgeCap)
    /\ taken \in {Nothing} \cup (0 .. AgeCap)

(* A sensor that requires_data_ok is available. *)
Available == updated /\ data.ok /\ data.frame.kind # "none"

(* A measurement is not shown for long beyond the daemon's max_age, even   *)
(* when the daemon hangs or is gone and refreshes that were requested kept *)
(* being answered from the cache.                                          *)
MeasurementFresh ==
    Available => data.frame.age <= MaxAge + ShownTime

(* The health of one moment is combined with the frame of a later one,     *)
(* never of an earlier one: an invalid frame is taken for a good one only  *)
(* when it came while the three requests were being made.                  *)
InvalidOnlyInPassing ==
    Available /\ data.frame.kind = "invalid" => data.frame.age <= fetched

(* A frame, one that a button asked for too, is shown soon, unless the     *)
(* update fails: the cache never hides it for longer than its half second. *)
NewFrameShown ==
    updated => unseen <= ShownTime /\ taken <= ShownTime
=============================================================================
