------------------------- MODULE DaemonClientProofs -------------------------
(***************************************************************************)
(* Theorems about DaemonClient, for any times.  Everything follows from    *)
(* how long ago the refresh began whose result the data is.                *)
(***************************************************************************)
EXTENDS DaemonClient, TLAPS

(* The longest the cache hides, or a request delays, what is new. *)
Hidden == IF RequestTime < CacheTime THEN CacheTime ELSE RequestTime

(* No more time has passed since the coordinator was last told something. *)
Elapsed == IF phase = "idle" THEN Interval - due ELSE Interval + begun

(* A refresh takes the time of the requests made so far. *)
PaceInv ==
    /\ waited <= begun
    /\ phase \in {"idle", "daemon_status"} => begun <= waited
    /\ phase = "heater_status" => begun <= RequestTime + waited
    /\ phase \in {"pump_data", "reply"} => begun <= 2 * RequestTime + waited

(* What get_status has so far is as old as the request for the frame. *)
GotInv ==
    /\ phase \in {"idle", "daemon_status", "heater_status"} => got = Empty
    /\ phase = "pump_data" => got.frame = NothingCached
    /\ phase = "pump_data" /\ got.ok =>
          /\ frame.age <= MaxAge + waited
          /\ frame.kind = "invalid" => frame.age <= waited
    /\ phase = "reply" /\ got.ok =>
          /\ got.frame.age <= MaxAge + waited
          /\ got.frame.kind = "invalid" => got.frame.age <= waited
    /\ phase = "reply" => unseen <= waited
    /\ phase # "reply" => taken = Nothing

(* What is shown, and what is not, against the refresh it came with. *)
CacheInv ==
    /\ data.ok => data.frame.age <= MaxAge + fetched
    /\ data.ok /\ data.frame.kind = "invalid" => data.frame.age <= fetched
    /\ unseen <= fetched /\ taken <= fetched

(* The same, against the time since the coordinator was told of it. *)
AgesShown ==
    /\ data.ok => data.frame.age <= MaxAge + Hidden + Elapsed
    /\ unseen <= Hidden + Elapsed /\ taken <= Hidden + Elapsed

ShownInv == updated => AgesShown

ClientInv == PaceInv /\ GotInv /\ CacheInv /\ ShownInv

-----------------------------------------------------------------------------
LEMMA RefreshTimeNat == RefreshTime = 3 * RequestTime /\ RefreshTime \in Nat
BY TimesAssumption DEF RefreshTime

LEMMA AgesNat == AgeCap \in Nat /\ MaxAge < AgeCap /\ ShownTime \in Nat
BY TimesAssumption, AgeCapAssumption DEF ShownTime, RefreshTime

(* A frame grows older by a tick at most, and only frames do. *)
LEMMA GrownAge ==
    ASSUME NEW a \in 0 .. AgeCap
    PROVE  Grown(a) \in 0 .. AgeCap /\ a <= Grown(a) /\ Grown(a) <= a + 1
BY AgesNat DEF Grown

LEMMA OlderFrame ==
    ASSUME NEW f \in Frames
    PROVE  /\ Older(f) \in Frames
           /\ Older(f).kind = f.kind
           /\ Older(f).age \in {f.age, Grown(f.age)}
BY GrownAge DEF Older, Frames

(* Two ages grow alike, up to AgeCap. *)
LEMMA GrowsAlong ==
    ASSUME NEW a \in 0 .. AgeCap, NEW b \in 0 .. AgeCap, NEW m \in Nat, a <= m + b
    PROVE  Grown(a) <= m + Grown(b)
BY AgesNat DEF Grown

LEMMA LongerAge ==
    ASSUME NEW a \in {Nothing} \cup (0 .. AgeCap)
    PROVE  /\ Longer(a) \in {Nothing} \cup (0 .. AgeCap)
           /\ Longer(a) = Nothing <=> a = Nothing
           /\ Longer(a) <= a + 1
           /\ a # Nothing => Longer(a) = Grown(a)
BY AgesNat DEF Longer, Grown, Nothing

(* TypeOK in two parts, for the provers: truth values and the rest. *)
FlagsOK ==
    /\ up \in BOOLEAN /\ linked \in BOOLEAN /\ failing \in BOOLEAN
    /\ updated \in BOOLEAN

RestOK ==
    /\ frame \in Frames /\ got \in Data /\ data \in Data
    /\ phase \in Requests \cup {"idle", "reply"}
    /\ waited \in 0 .. RequestTime
    /\ begun \in 0 .. RefreshTime
    /\ due \in 0 .. Interval
    /\ fetched \in 0 .. AgeCap
    /\ unseen \in {Nothing} \cup (0 .. AgeCap)
    /\ taken \in {Nothing} \cup (0 .. AgeCap)

LEMMA TypeParts == TypeOK <=> FlagsOK /\ RestOK
BY Zenon DEF TypeOK, FlagsOK, RestOK

LEMMA TypePartsNext == FlagsOK' /\ RestOK' => TypeOK'
BY Zenon DEF TypeOK, FlagsOK, RestOK

LEMMA ClientInit == Init => TypeOK /\ ClientInv
<1> SUFFICES ASSUME Init PROVE TypeOK /\ ClientInv
  OBVIOUS
<1> USE TimesAssumption, RefreshTimeNat, AgesNat DEF Init, DaemonInit
<1>1. NothingCached \in Frames /\ Empty \in Data
  BY DEF NothingCached, Empty, Frames, Data
<1>2. FlagsOK
  BY Zenon DEF FlagsOK
<1>5. RestOK
  BY <1>1 DEF RestOK, Requests
<1>3. PaceInv /\ GotInv
  BY DEF PaceInv, GotInv
<1>4. CacheInv /\ ShownInv
  BY DEF CacheInv, ShownInv, Empty, NothingCached, Nothing
<1> QED
  BY <1>2, <1>3, <1>4, <1>5, TypeParts DEF ClientInv

(* One lemma per part of the invariant: what a step that is not the clock  *)
(* leaves of it, then what the clock does.                                 *)
Step ==
    \/ PollSucceeds \/ PollFails \/ LinkChanges \/ DaemonStops \/ DaemonStarts
    \/ BeginFetch \/ AnswerFromCache
    \/ DaemonStatus \/ HeaterStatus \/ PumpData \/ Merged \/ RefreshFails
    \/ Reload

LEMMA FlagsStep ==
    ASSUME TypeOK, Step \/ Tick
    PROVE  FlagsOK'
<1>0. FlagsOK
  BY TypeParts
<1>1. CASE PollSucceeds \/ PollFails
  BY <1>0, <1>1, Zenon DEF FlagsOK, PollSucceeds, PollFails, ValidAnswer, InvalidAnswer, NoAnswer, shownVars
<1>2. CASE LinkChanges \/ DaemonStops \/ DaemonStarts
  BY <1>0, <1>2, Zenon DEF FlagsOK, LinkChanges, DaemonStops, DaemonStarts,
                             LinkFlips, Ends, Begins, shownVars
<1>3. CASE BeginFetch \/ AnswerFromCache \/ DaemonStatus \/ HeaterStatus \/ PumpData
  BY <1>0, <1>3, Zenon DEF FlagsOK, BeginFetch, AnswerFromCache, Refreshed,
        DaemonStatus, HeaterStatus, PumpData, Answered, daemonVars, shownVars
<1>4. CASE Merged \/ RefreshFails \/ Reload
  BY <1>0, <1>4, Zenon DEF FlagsOK, Merged, RefreshFails, Reload, Refreshed, daemonVars
<1>5. CASE Tick
  BY <1>0, <1>5, Zenon DEF FlagsOK, Tick, FrameAges
<1> QED
  BY <1>1, <1>2, <1>3, <1>4, <1>5 DEF Step

LEMMA TypeStep ==
    ASSUME TypeOK, PaceInv, Step
    PROVE  RestOK'
<1>0. RestOK
  BY TypeParts
<1> USE <1>0, TimesAssumption, RefreshTimeNat, AgesNat
<1>1. NothingCached \in Frames /\ Empty \in Data /\ Nothing \in Int
  BY DEF NothingCached, Empty, Frames, Data, Nothing
<1>2. CASE PollSucceeds \/ PollFails
  <2>1. \A kind \in {"valid", "invalid"} : [kind |-> kind, age |-> 0] \in Frames
    BY DEF Frames
  <2> QED
    BY <1>2, <2>1 DEF RestOK, PollSucceeds, PollFails, ValidAnswer, InvalidAnswer, NoAnswer,
                      Caches, FrameComes, fetchVars, shownVars
<1>3. CASE LinkChanges \/ DaemonStops \/ DaemonStarts
  BY <1>1, <1>3 DEF RestOK, LinkChanges, DaemonStops, DaemonStarts, LinkFlips, Ends, Begins,
                    fetchVars, shownVars, history
<1>4. CASE BeginFetch \/ AnswerFromCache
  BY <1>4 DEF RestOK, BeginFetch, AnswerFromCache, Refreshed, Requests,
              daemonVars, fetchVars, shownVars, history
<1>5. CASE DaemonStatus
  BY <1>5 DEF RestOK, DaemonStatus, Answered, After, Requests, daemonVars, shownVars, history
<1>6. CASE HeaterStatus
  <2>1. got' \in Data
    BY <1>6 DEF RestOK, HeaterStatus, Data, DataOk
  <2> QED
    BY <1>6, <2>1 DEF RestOK, HeaterStatus, Answered, After, Requests,
                      daemonVars, shownVars, history
<1>7. CASE PumpData
  <2>1. got' \in Data
    BY <1>7 DEF RestOK, PumpData, Data
  <2> QED
    BY <1>7, <2>1 DEF RestOK, PumpData, Answered, After, Requests, daemonVars, shownVars
<1>8. CASE Merged
  <2>1. fetched' \in 0 .. AgeCap
    BY <1>8, AgeCapAssumption DEF RestOK, Merged, ShownTime
  <2> QED
    BY <1>1, <1>8, <2>1 DEF RestOK, Merged, Returned, Refreshed, Requests, daemonVars
<1>9. CASE RefreshFails \/ Reload
  BY <1>1, <1>9 DEF RestOK, RefreshFails, Reload, Returned, Refreshed, Forgotten, Requests, daemonVars
<1> QED
  BY <1>2, <1>3, <1>4, <1>5, <1>6, <1>7, <1>8, <1>9 DEF Step

LEMMA TypeTick ==
    ASSUME TypeOK, PaceInv, Tick
    PROVE  RestOK'
<1>0. RestOK
  BY TypeParts
<1> USE <1>0, TimesAssumption, RefreshTimeNat, AgesNat
<1>1. frame' \in Frames
  BY OlderFrame DEF RestOK, Tick, FrameAges
<1>2. got' \in Data /\ data' \in Data
  <2>1. got.frame \in Frames /\ data.frame \in Frames
    BY DEF RestOK, Data
  <2> QED
    BY <2>1, OlderFrame DEF RestOK, Tick, Data
<1>3. fetched' \in 0 .. AgeCap
  BY GrownAge DEF RestOK, Tick
<1>4. /\ unseen' \in {Nothing} \cup (0 .. AgeCap)
      /\ taken' \in {Nothing} \cup (0 .. AgeCap)
  BY LongerAge DEF RestOK, Tick
<1>5. CASE phase = "idle"
  BY <1>1, <1>2, <1>3, <1>4, <1>5 DEF RestOK, Tick
<1>6. CASE phase # "idle"
  <2>1. waited' \in 0 .. RequestTime /\ begun' = begun + 1
    BY <1>6 DEF RestOK, Tick
  <2>2. begun' \in 0 .. RefreshTime
    BY <1>6, <2>1 DEF RestOK, Tick, PaceInv, Requests
  <2> QED
    BY <1>1, <1>2, <1>3, <1>4, <1>6, <2>1, <2>2 DEF RestOK, Tick
<1> QED
  BY <1>5, <1>6

LEMMA PaceStep ==
    ASSUME TypeOK, PaceInv, Step \/ Tick
    PROVE  PaceInv'
<1>0. RestOK
  BY TypeParts
<1> USE <1>0, TimesAssumption DEF PaceInv, RestOK
<1>1. CASE PollSucceeds \/ PollFails \/ LinkChanges \/ DaemonStops \/ DaemonStarts
  BY <1>1 DEF PollSucceeds, PollFails, LinkChanges, DaemonStops, DaemonStarts, fetchVars
<1>2. CASE BeginFetch \/ AnswerFromCache
  BY <1>2 DEF BeginFetch, AnswerFromCache, fetchVars
<1>3. CASE DaemonStatus \/ HeaterStatus \/ PumpData
  BY <1>3 DEF DaemonStatus, HeaterStatus, PumpData, Answered, After
<1>4. CASE Merged \/ RefreshFails \/ Reload
  <2>1. waited' = 0 /\ begun' = 0 /\ phase' \in {"idle", "daemon_status"}
    BY <1>4 DEF Merged, RefreshFails, Reload, Returned
  <2> QED
    BY <2>1
<1>5. CASE Tick
  BY <1>5 DEF Tick, Requests
<1> QED
  BY <1>1, <1>2, <1>3, <1>4, <1>5 DEF Step

(* What the daemon does to its frame between the requests. *)
DaemonStep == PollSucceeds \/ PollFails \/ LinkChanges \/ DaemonStops \/ DaemonStarts

LEMMA DaemonFrame ==
    ASSUME TypeOK, DaemonStep
    PROVE  /\ UNCHANGED <<fetchVars, shownVars, taken>>
           /\ frame' = frame \/ frame'.age = 0
           /\ unseen' \in {unseen, 0, Nothing}
BY DEF TypeOK, DaemonStep, PollSucceeds, PollFails, LinkChanges, DaemonStops, DaemonStarts,
       ValidAnswer, InvalidAnswer, NoAnswer, LinkFlips, Ends, Begins,
       Caches, FrameComes, NothingCached, history

LEMMA GotStep ==
    ASSUME TypeOK, GotInv, Step
    PROVE  GotInv'
<1>0. RestOK
  BY TypeParts
<1>a. /\ NothingCached.age = 0 /\ NothingCached.kind = "none"
      /\ Nothing = -1 /\ Empty.frame = NothingCached
      /\ Empty.ok = FALSE
  BY DEF Nothing, NothingCached, Empty
<1> USE <1>0, <1>a, TimesAssumption DEF GotInv, RestOK
<1>1. CASE DaemonStep
  BY <1>1, DaemonFrame DEF fetchVars
<1>2. CASE BeginFetch \/ AnswerFromCache
  BY <1>2 DEF BeginFetch, AnswerFromCache, fetchVars, history, daemonVars
<1>3. CASE DaemonStatus
  BY <1>3 DEF DaemonStatus, Answered, After, history
<1>4. CASE HeaterStatus
  <2>1. phase' = "pump_data" /\ waited' = 0 /\ UNCHANGED <<frame, unseen, taken>>
    BY <1>4 DEF HeaterStatus, Answered, After, daemonVars, history
  <2>2. got'.frame = NothingCached /\ got'.ok = DataOk
    BY <1>4 DEF HeaterStatus, Answered, Data
  <2>3. DataOk => frame.age <= MaxAge /\ frame.kind = "valid"
    BY DEF DataOk
  <2> QED
    BY <1>4, <2>1, <2>2, <2>3 DEF HeaterStatus, Answered
<1>5. CASE PumpData
  <2>1. phase = "pump_data" /\ phase' = "reply" /\ waited' = waited /\ unseen' = Nothing
    BY <1>5 DEF PumpData, Answered, After
  <2>2. got'.frame = frame /\ got'.ok = got.ok
    BY <1>5 DEF PumpData, Data
  <2> QED
    BY <2>1, <2>2
<1>6. CASE Merged \/ RefreshFails \/ Reload
  <2>1. /\ phase' \in {"idle", "daemon_status"}
        /\ got' = Empty /\ taken' = Nothing
    BY <1>6 DEF Merged, RefreshFails, Reload, Returned, Forgotten
  <2> QED
    BY <2>1
<1> QED
  BY <1>1, <1>2, <1>3, <1>4, <1>5, <1>6 DEF Step, DaemonStep

LEMMA CacheStep ==
    ASSUME TypeOK, PaceInv, GotInv, CacheInv, Step
    PROVE  CacheInv'
<1>0. RestOK
  BY TypeParts
<1>a. Nothing = -1 /\ Empty.ok = FALSE
  BY DEF Nothing, Empty
<1> USE <1>0, <1>a, TimesAssumption, AgesNat DEF CacheInv, RestOK
<1>1. CASE DaemonStep
  BY <1>1, DaemonFrame DEF shownVars
<1>2. CASE BeginFetch \/ AnswerFromCache \/ DaemonStatus \/ HeaterStatus
  BY <1>2 DEF BeginFetch, AnswerFromCache, DaemonStatus, HeaterStatus, Answered,
              shownVars, history
<1>3. CASE PumpData
  BY <1>3 DEF PumpData, Answered, shownVars
<1>4. CASE Merged
  <2>1. waited <= begun
    BY DEF PaceInv
  <2> QED
    BY <1>4, <2>1 DEF Merged, GotInv, Data, Frames
<1>5. CASE RefreshFails
  BY <1>5 DEF RefreshFails, Forgotten
<1>6. CASE Reload
  BY <1>6 DEF Reload, Forgotten
<1> QED
  BY <1>1, <1>2, <1>3, <1>4, <1>5, <1>6 DEF Step, DaemonStep

LEMMA NotNegative ==
    ASSUME NEW h \in Nat, NEW e \in Nat
    PROVE  0 <= h + e /\ -1 <= h + e
OBVIOUS

LEMMA Sooner ==
    ASSUME NEW h \in Nat, NEW e \in Nat, NEW f \in Nat, e <= f,
           NEW a \in Int, a <= h + e
    PROVE  a <= h + f
OBVIOUS

(* Time and the frames that came unseen only make AgesShown easier. *)
LEMMA AgesKept ==
    ASSUME RestOK, AgesShown, Elapsed \in Nat, Elapsed' \in Nat, Elapsed <= Elapsed',
           UNCHANGED data,
           unseen' \in {unseen, 0, Nothing}, taken' \in {taken, unseen}
    PROVE  AgesShown'
<1>1. Hidden \in Nat /\ MaxAge \in Nat
  BY TimesAssumption DEF Hidden
<1>2. data.frame.age \in Nat /\ unseen \in Int /\ taken \in Int /\ Nothing = -1
  BY AgesNat DEF RestOK, Data, Frames, Nothing
<1>3. data.ok => data.frame.age <= MaxAge + Hidden + Elapsed'
  BY <1>1, <1>2, Sooner DEF AgesShown
<1>4. unseen <= Hidden + Elapsed' /\ taken <= Hidden + Elapsed'
  BY <1>1, <1>2, Sooner DEF AgesShown
<1>5. 0 <= Hidden + Elapsed' /\ -1 <= Hidden + Elapsed'
  BY <1>1, NotNegative
<1> QED
  BY <1>2, <1>3, <1>4, <1>5, Zenon DEF AgesShown

LEMMA ShownKept ==
    ASSUME RestOK, ShownInv, Elapsed \in Nat, Elapsed' \in Nat, Elapsed <= Elapsed',
           UNCHANGED data, updated' = updated,
           unseen' \in {unseen, 0, Nothing}, taken' \in {taken, unseen}
    PROVE  ShownInv'
BY AgesKept, Zenon DEF ShownInv

LEMMA ShownStep ==
    ASSUME TypeOK, GotInv, CacheInv, ShownInv, Step
    PROVE  ShownInv'
<1>0. RestOK
  BY TypeParts
<1>a. Nothing = -1
  BY DEF Nothing
<1>b. Hidden \in Nat /\ RequestTime <= Hidden /\ CacheTime <= Hidden
  BY TimesAssumption DEF Hidden
<1> USE <1>0, <1>a, <1>b, TimesAssumption, AgesNat DEF ShownInv, RestOK, AgesShown
<1>1. CASE DaemonStep
  <2>1. Elapsed' = Elapsed /\ Elapsed \in Nat
    BY <1>1, DaemonFrame, RefreshTimeNat DEF Elapsed, fetchVars, shownVars
  <2> QED
    BY <1>1, <2>1, DaemonFrame, ShownKept DEF shownVars
<1>2. CASE BeginFetch
  <2>1. Elapsed \in Nat /\ Elapsed' \in Nat /\ Elapsed <= Elapsed'
    BY <1>2, RefreshTimeNat DEF Elapsed, BeginFetch, shownVars
  <2> QED
    BY <1>2, <2>1, ShownKept DEF BeginFetch, shownVars, history
<1>3. CASE AnswerFromCache
  <2>1. Elapsed' = 0
    BY <1>3, TimesAssumption DEF Elapsed, AnswerFromCache, Refreshed, fetchVars
  <2>2. fetched <= Hidden /\ UNCHANGED <<data, unseen, taken>>
    BY <1>3 DEF AnswerFromCache, history
  <2>3. data.frame.age \in Nat
    BY DEF Data, Frames
  <2>4. /\ data.ok => data.frame.age <= MaxAge + Hidden
        /\ unseen <= Hidden /\ taken <= Hidden
    BY <2>2, <2>3 DEF CacheInv
  <2>5. /\ data.ok => data.frame.age <= MaxAge + Hidden + 0
        /\ unseen <= Hidden + 0 /\ taken <= Hidden + 0
    BY <2>4
  <2> QED
    BY <2>1, <2>2, <2>5
<1>4. CASE DaemonStatus \/ HeaterStatus \/ PumpData
  <2>1. Elapsed' = Elapsed /\ Elapsed \in Nat
    BY <1>4, RefreshTimeNat DEF Elapsed, DaemonStatus, HeaterStatus, PumpData, Answered, After, shownVars
  <2>2. /\ unseen' \in {unseen, Nothing}
        /\ taken' \in {taken, unseen}
        /\ UNCHANGED <<data, updated>>
    BY <1>4 DEF DaemonStatus, HeaterStatus, PumpData, Answered, history, shownVars
  <2> QED
    BY <2>1, <2>2, ShownKept
<1>5. CASE Merged
  <2>1. Elapsed' = 0
    BY <1>5, TimesAssumption DEF Elapsed, Merged, Returned, Refreshed
  <2>2. taken' = Nothing /\ UNCHANGED unseen /\ data' = got /\ phase = "reply"
    BY <1>5 DEF Merged
  <2>3. got.frame.age \in Nat
    BY DEF Data, Frames
  <2>4. /\ got.ok => got.frame.age <= MaxAge + Hidden + 0
        /\ unseen <= Hidden + 0 /\ Nothing <= Hidden + 0
    BY <2>2, <2>3 DEF GotInv
  <2> QED
    BY <2>1, <2>2, <2>4
<1>6. CASE RefreshFails \/ Reload
  BY <1>6, Zenon DEF RefreshFails, Reload, Refreshed
<1> QED
  BY <1>1, <1>2, <1>3, <1>4, <1>5, <1>6 DEF Step, DaemonStep

-----------------------------------------------------------------------------
(* The clock. *)
LEMMA OlderAge ==
    ASSUME NEW f \in Frames, NEW n \in Nat, f.age <= n
    PROVE  Older(f).age <= n + 1
<1>1. f.age \in 0 .. AgeCap
  BY DEF Frames
<1> QED
  BY <1>1, OlderFrame, GrownAge

LEMMA OlderAlong ==
    ASSUME NEW f \in Frames, NEW b \in 0 .. AgeCap, NEW m \in Nat, f.age <= m + b
    PROVE  Older(f).age <= m + Grown(b)
<1>1. f.age \in 0 .. AgeCap
  BY DEF Frames
<1>2. Grown(f.age) <= m + Grown(b)
  BY <1>1, GrowsAlong
<1>3. f.age <= m + Grown(b)
  <2>1. b \in Nat /\ Grown(b) \in Nat /\ b <= Grown(b) /\ f.age \in Int
    BY <1>1, GrownAge, AgesNat
  <2> QED
    BY <2>1, Sooner
<1> QED
  BY <1>2, <1>3, OlderFrame

LEMMA LongerAlong ==
    ASSUME NEW a \in {Nothing} \cup (0 .. AgeCap), NEW b \in 0 .. AgeCap, a <= b
    PROVE  Longer(a) <= Grown(b)
BY AgesNat DEF Longer, Grown, Nothing

(* What an age becomes, in the terms of the step. *)
LEMMA TickFacts ==
    ASSUME RestOK, Tick
    PROVE  /\ frame' = Older(frame)
           /\ got'.ok = got.ok /\ got'.frame = Older(got.frame)
           /\ data'.ok = data.ok /\ data'.frame = Older(data.frame)
           /\ fetched' = Grown(fetched)
           /\ unseen' = Longer(unseen) /\ taken' = Longer(taken)
           /\ phase' = phase
           /\ frame \in Frames /\ got.frame \in Frames /\ data.frame \in Frames
BY DEF RestOK, Tick, FrameAges, Data

LEMMA GotTick ==
    ASSUME TypeOK, GotInv, Tick
    PROVE  GotInv'
<1>0. RestOK
  BY TypeParts
<1>1. MaxAge \in Nat /\ waited \in Nat
  BY <1>0, TimesAssumption DEF RestOK
<1>2. CASE phase \in {"idle", "daemon_status", "heater_status"}
  <2>1. got = Empty /\ taken = Nothing
    BY <1>2 DEF GotInv
  <2>2. Older(NothingCached) = NothingCached /\ Longer(Nothing) = Nothing
    BY DEF Older, NothingCached, Longer
  <2>3. got' = Empty /\ taken' = Nothing /\ phase' = phase
    BY <2>1, <2>2 DEF Tick, Empty
  <2> QED
    BY <1>2, <2>3 DEF GotInv
<1>3. CASE phase = "pump_data"
  <2>1. waited' = waited + 1 /\ phase' = phase
    BY <1>3 DEF Tick
  <2>2. got.frame = NothingCached /\ taken = Nothing
    BY <1>3 DEF GotInv
  <2>3. got'.frame = NothingCached /\ taken' = Nothing
    BY <1>0, <2>2, TickFacts DEF Older, NothingCached, Longer
  <2>4. got.ok => frame'.age <= MaxAge + waited + 1
    BY <1>0, <1>1, <1>3, TickFacts, OlderAge DEF GotInv
  <2>5. got.ok /\ frame.kind = "invalid" => frame'.age <= waited + 1
    BY <1>0, <1>1, <1>3, TickFacts, OlderAge DEF GotInv
  <2>6. frame'.kind = frame.kind /\ got'.ok = got.ok
    BY <1>0, TickFacts, OlderFrame
  <2> QED
    BY <1>1, <1>3, <2>1, <2>3, <2>4, <2>5, <2>6 DEF GotInv
<1>4. CASE phase = "reply"
  <2>1. waited' = waited + 1 /\ phase' = phase
    BY <1>4 DEF Tick
  <2>2. got.ok => got'.frame.age <= MaxAge + waited + 1
    BY <1>0, <1>1, <1>4, TickFacts, OlderAge DEF GotInv
  <2>3. got.ok /\ got.frame.kind = "invalid" => got'.frame.age <= waited + 1
    BY <1>0, <1>1, <1>4, TickFacts, OlderAge DEF GotInv
  <2>4. got'.frame.kind = got.frame.kind /\ got'.ok = got.ok
    BY <1>0, TickFacts, OlderFrame
  <2>5. unseen' <= waited + 1
    <3>1. unseen <= waited /\ unseen \in Int
      BY <1>0, <1>4, AgesNat DEF GotInv, RestOK, Nothing
    <3>2. Longer(unseen) <= unseen + 1 /\ Longer(unseen) \in Int
      BY <1>0, LongerAge, AgesNat DEF RestOK, Nothing
    <3> QED
      BY <1>0, <1>1, <3>1, <3>2, TickFacts
  <2> QED
    BY <1>1, <1>4, <2>1, <2>2, <2>3, <2>4, <2>5 DEF GotInv
<1> QED
  BY <1>0, <1>2, <1>3, <1>4 DEF RestOK, Requests

LEMMA CacheTick ==
    ASSUME TypeOK, CacheInv, Tick
    PROVE  CacheInv'
<1>0. RestOK
  BY TypeParts
<1>1. fetched \in 0 .. AgeCap /\ fetched' = Grown(fetched) /\ MaxAge \in Nat
  BY <1>0, TimesAssumption, TickFacts DEF RestOK
<1>2. data.ok => data'.frame.age <= MaxAge + fetched'
  BY <1>0, <1>1, TickFacts, OlderAlong DEF CacheInv
<1>3. data.ok /\ data.frame.kind = "invalid" => data'.frame.age <= fetched'
  <2>1. ASSUME data.ok, data.frame.kind = "invalid"
        PROVE  data'.frame.age <= 0 + fetched'
    <3>1. data.frame.age <= 0 + fetched
      BY <1>1, <2>1, AgesNat DEF CacheInv
    <3> QED
      BY <1>0, <1>1, <3>1, TickFacts, OlderAlong
  <2> QED
    BY <1>1, <2>1, GrownAge, AgesNat
<1>4. unseen' <= fetched' /\ taken' <= fetched'
  BY <1>0, <1>1, TickFacts, LongerAlong DEF CacheInv, RestOK
<1>5. data'.ok = data.ok /\ data'.frame.kind = data.frame.kind
  BY <1>0, TickFacts, OlderFrame
<1> QED
  BY <1>2, <1>3, <1>4, <1>5 DEF CacheInv

LEMMA ShownTick ==
    ASSUME TypeOK, ShownInv, Tick
    PROVE  ShownInv'
<1>0. RestOK
  BY TypeParts
<1>1. Hidden \in Nat /\ MaxAge \in Nat
  BY TimesAssumption DEF Hidden
<1>2. Elapsed \in Nat /\ Elapsed' = Elapsed + 1
  BY <1>0, TimesAssumption, RefreshTimeNat DEF Elapsed, RestOK, Tick
<1>3. ASSUME AgesShown
      PROVE  AgesShown'
  <2>1. data.ok => data'.frame.age <= MaxAge + Hidden + Elapsed + 1
    BY <1>0, <1>1, <1>2, <1>3, TickFacts, OlderAge DEF AgesShown
  <2>2. ASSUME NEW a \in {Nothing} \cup (0 .. AgeCap), a <= Hidden + Elapsed
        PROVE  Longer(a) <= Hidden + Elapsed + 1
    <3>1. Longer(a) <= a + 1 /\ Longer(a) \in Int /\ a \in Int
      BY <2>2, LongerAge, AgesNat DEF Nothing
    <3> QED
      BY <1>1, <1>2, <2>2, <3>1
  <2>3. unseen' <= Hidden + Elapsed + 1 /\ taken' <= Hidden + Elapsed + 1
    BY <1>0, <1>3, <2>2, TickFacts DEF AgesShown, RestOK
  <2>4. data'.ok = data.ok /\ Elapsed' = Elapsed + 1
    BY <1>0, <1>2, TickFacts
  <2> QED
    BY <1>1, <1>2, <2>1, <2>3, <2>4 DEF AgesShown
<1>4. updated' = updated
  BY DEF Tick
<1> QED
  BY <1>3, <1>4, Zenon DEF ShownInv

-----------------------------------------------------------------------------
LEMMA ClientNext ==
    ASSUME TypeOK, ClientInv, [Next]_vars
    PROVE  TypeOK' /\ ClientInv'
<1>1. CASE Step
  BY <1>1, FlagsStep, TypeStep, TypePartsNext, PaceStep, GotStep, CacheStep, ShownStep, Zenon
  DEF ClientInv
<1>2. CASE Tick
  BY <1>2, FlagsStep, TypeTick, TypePartsNext, PaceStep, GotTick, CacheTick, ShownTick, Zenon
  DEF ClientInv
<1>3. CASE UNCHANGED vars
  BY <1>3 DEF TypeOK, ClientInv, PaceInv, GotInv, CacheInv, ShownInv, AgesShown, Elapsed,
              vars, daemonVars, fetchVars, shownVars, history
<1> QED
  BY <1>1, <1>2, <1>3 DEF Next, Step

THEOREM ClientInvariant == Spec => [](TypeOK /\ ClientInv)
<1>1. Init => TypeOK /\ ClientInv
  BY ClientInit
<1>2. TypeOK /\ ClientInv /\ [Next]_vars => (TypeOK /\ ClientInv)'
  BY ClientNext
<1> QED
  BY <1>1, <1>2, PTL DEF Spec

(* Every variable keeps its type, and get_status takes no longer than its  *)
(* three requests (daemon_client.py _send_raw).                            *)
THEOREM ClientTypeCorrect == Spec => []TypeOK
BY ClientInvariant, PTL

(* The interval and the refresh bound the time since the coordinator was   *)
(* last told something.                                                    *)
LEMMA ElapsedBounded ==
    ASSUME TypeOK
    PROVE  Elapsed \in Nat /\ Elapsed <= Interval + RefreshTime
BY TypeParts, TimesAssumption, RefreshTimeNat DEF RestOK, Elapsed

LEMMA ShownInTime ==
    ASSUME TypeOK, ClientInv
    PROVE  MeasurementFresh /\ InvalidOnlyInPassing /\ NewFrameShown
<1>0. RestOK
  BY TypeParts
<1>1. Hidden \in Nat /\ MaxAge \in Nat /\ ShownTime = Hidden + Interval + RefreshTime
  BY TimesAssumption DEF Hidden, ShownTime
<1>2. Interval \in Nat /\ RefreshTime \in Nat
  BY TimesAssumption, RefreshTimeNat
<1>3. data.frame.age \in Nat /\ unseen \in Int /\ taken \in Int
  BY <1>0, AgesNat DEF RestOK, Data, Frames, Nothing
<1>4. AgesShown => /\ data.ok => data.frame.age <= MaxAge + ShownTime
                   /\ unseen <= ShownTime /\ taken <= ShownTime
  BY <1>1, <1>2, <1>3, ElapsedBounded DEF AgesShown
<1>5. MeasurementFresh
  BY <1>4, Zenon DEF MeasurementFresh, Available, ClientInv, ShownInv
<1>6. InvalidOnlyInPassing
  BY Zenon DEF InvalidOnlyInPassing, Available, ClientInv, CacheInv
<1>7. NewFrameShown
  BY <1>4, Zenon DEF NewFrameShown, ClientInv, ShownInv
<1> QED
  BY <1>5, <1>6, <1>7

(* For any cache time, interval, timeout and max_age, whatever the daemon  *)
(* does: a measurement that is shown is not older than max_age by more     *)
(* than the time data is shown (daemon_client.py get_status, sensor.py     *)
(* available).                                                             *)
THEOREM MeasurementFreshHolds == Spec => []MeasurementFresh
BY ClientInvariant, ShownInTime, PTL

(* An invalid frame is merged with good health only if it came between the *)
(* requests (daemon_client.py get_status).                                 *)
THEOREM InvalidOnlyInPassingHolds == Spec => []InvalidOnlyInPassing
BY ClientInvariant, ShownInTime, PTL

(* The cache hides a frame that came, forced by a button too, for no       *)
(* longer than the time data is shown (daemon_client.py get_status).       *)
THEOREM NewFrameShownHolds == Spec => []NewFrameShown
BY ClientInvariant, ShownInTime, PTL
=============================================================================
