------------------------- MODULE RetryBackoffProofs -------------------------
(***************************************************************************)
(* Theorems about RetryBackoff, for any delays.  The invariant counts with *)
(* what is left: of the loop's sleep, and of the retry.                    *)
(***************************************************************************)
EXTENDS RetryBackoff, TLAPS

(* Only a loop behind a client's poll waits for poll_lock. *)
QueueInv == queued => poller = "client"

(* The loop's sleep ends in time; the retry is due a delay after the poll. *)
WaitInv ==
    poller = "nobody" =>
        /\ since + sleep <= Greater(Interval, delay)
        /\ retry > 0 => since + retry = delay
        /\ retry = 0 => since >= delay

(* Without a connection the cap is the smaller one. *)
CapInv == missing => cap = NotFoundMax

(* The delay is the one the count of failures gives. *)
DelayInv == delay \in {0, RetryDelay(failures, cap)}

BackoffInv == QueueInv /\ WaitInv /\ CapInv /\ DelayInv

-----------------------------------------------------------------------------
(* TypeOK in two parts, for the provers: truth values and the rest. *)
FlagsOK == queued \in BOOLEAN /\ missing \in BOOLEAN

RestOK ==
    /\ failures \in 0 .. FailureCap
    /\ retry \in Nat
    /\ poller \in {"nobody", "loop", "client"}
    /\ sleep \in 0 .. Interval
    /\ since \in Nat
    /\ cap \in {ReconnectMax, NotFoundMax}
    /\ delay \in 0 .. cap

LEMMA TypeParts == TypeOK <=> FlagsOK /\ RestOK
BY Zenon DEF TypeOK, FlagsOK, RestOK

LEMMA TypePartsNext == FlagsOK' /\ RestOK' => TypeOK'
BY Zenon DEF TypeOK, FlagsOK, RestOK

(* The factor doubles with a failure, or stays what it is. *)
LEMMA FactorGrows ==
    ASSUME NEW n \in Nat
    PROVE  /\ Doubled[Exponent(n) + 1] \in Nat
           /\ Doubled[Exponent(n) + 1] <= Doubled[Exponent(n + 1) + 1]
<1>1. Exponent(n) \in 0 .. 6 /\ Exponent(n + 1) \in {Exponent(n), Exponent(n) + 1}
      /\ Exponent(n + 1) \in 0 .. 6
  BY DEF Exponent, Lesser
<1>2. \A i \in 0 .. 6 : Doubled[i + 1] \in Nat
  BY DEF Doubled
<1>3. \A i \in 0 .. 5 : Doubled[i + 1] <= Doubled[i + 1 + 1]
  BY DEF Doubled
<1>4. CASE Exponent(n + 1) = Exponent(n)
  BY <1>1, <1>2, <1>4
<1>5. CASE Exponent(n + 1) = Exponent(n) + 1
  BY <1>1, <1>2, <1>3, <1>5
<1> QED
  BY <1>1, <1>4, <1>5

LEMMA ProductGrows ==
    ASSUME NEW a \in Nat, NEW x \in Nat, NEW y \in Nat, x <= y
    PROVE  a * x \in Nat /\ a * x <= a * y
OBVIOUS

(* A delay keeps to its cap, and another failure does not shorten it. *)
LEMMA DelayRange ==
    ASSUME NEW n \in Nat, NEW max \in Nat
    PROVE  RetryDelay(n, max) \in 0 .. max /\ RetryDelay(n, max) \in Nat
<1>1. Backoff * Doubled[Exponent(n) + 1] \in Nat
  BY FactorGrows, ProductGrows, DelaysAssumption
<1> QED
  BY <1>1 DEF RetryDelay, Lesser

LEMMA DelayGrows ==
    ASSUME NEW n \in Nat, NEW max \in Nat
    PROVE  RetryDelay(n, max) <= RetryDelay(n + 1, max)
<1> DEFINE x == Backoff * Doubled[Exponent(n) + 1]
           y == Backoff * Doubled[Exponent(n + 1) + 1]
<1>1. x \in Nat /\ y \in Nat /\ x <= y
  BY FactorGrows, ProductGrows, DelaysAssumption
<1>2. RetryDelay(n, max) = Lesser(max, x) /\ RetryDelay(n + 1, max) = Lesser(max, y)
  BY DEF RetryDelay
<1> HIDE DEF x, y
<1> QED
  BY <1>1, <1>2 DEF Lesser

-----------------------------------------------------------------------------
(* What the actions do, without the truth values. *)
LEMMA Succeeded ==
    ASSUME RestOK, PollSucceeds
    PROVE  /\ failures' = 0 /\ retry' = 0 /\ delay' = 0 /\ cap' = cap
           /\ since' = 0 /\ sleep' \in {Interval, sleep}
           /\ poller' \in {"loop", "nobody"} /\ poller # "nobody"
<1>1. poller' \in {"loop", "nobody"} /\ sleep' \in {Interval, sleep}
  BY Zenon DEF PollSucceeds, PollEnds
<1> QED
  BY <1>1, Zenon DEF PollSucceeds, PollEnds

LEMMA Failed ==
    ASSUME RestOK, NEW notFound \in BOOLEAN, NEW up \in BOOLEAN, PollFails(notFound, up)
    PROVE  /\ failures' = Lesser(failures + 1, FailureCap)
           /\ cap' \in {ReconnectMax, NotFoundMax} /\ (~up => cap' = NotFoundMax)
           /\ delay' = RetryDelay(failures', cap') /\ retry' = delay'
           /\ since' = 0 /\ sleep' \in {Lesser(delay', Interval), sleep}
           /\ poller' \in {"loop", "nobody"} /\ poller # "nobody"
<1>1. poller' \in {"loop", "nobody"} /\ sleep' \in {Lesser(delay', Interval), sleep}
  BY Zenon DEF PollFails, PollEnds
<1>2. cap' \in {ReconnectMax, NotFoundMax} /\ (~up => cap' = NotFoundMax)
  BY Zenon DEF PollFails, CapFor
<1> QED
  BY <1>1, <1>2, Zenon DEF PollFails, PollEnds

LEMMA Napped ==
    ASSUME RestOK, PollLoopNaps
    PROVE  /\ sleep' = Lesser(retry, Interval) /\ retry > 0
           /\ UNCHANGED <<failures, retry, poller, since, delay, cap>>
BY Zenon DEF PollLoopNaps, Nap, RetryPending, statusVars, history

LEMMA Woke ==
    ASSUME RestOK, PollLoopPolls
    PROVE  /\ poller' # "nobody" /\ poller' \in {"loop", poller} /\ ~(retry > 0)
           /\ UNCHANGED <<failures, retry, sleep, since, delay, cap>>
BY Zenon DEF PollLoopPolls, RetryPending, statusVars, history

LEMMA Forced ==
    ASSUME RestOK, PumpDataForce
    PROVE  /\ poller' = "client"
           /\ UNCHANGED <<failures, retry, sleep, since, delay, cap>>
BY Zenon DEF PumpDataForce, statusVars, history

LEMMA Ticked ==
    ASSUME RestOK, QueueInv, Tick
    PROVE  /\ retry' = Earlier(retry) /\ sleep' = Earlier(sleep)
           /\ poller = "nobody" => since' = since + 1 /\ sleep # 0
           /\ poller # "nobody" => since' = since
           /\ UNCHANGED <<failures, poller, delay, cap>>
<1>1. poller = "nobody" => sleep # 0
  BY Zenon DEF Tick, Awake, QueueInv
<1> QED
  BY <1>1, Zenon DEF Tick

-----------------------------------------------------------------------------
LEMMA BackoffInit == Init => TypeOK /\ BackoffInv
<1> SUFFICES ASSUME Init PROVE TypeOK /\ BackoffInv
  OBVIOUS
<1>1. FlagsOK /\ QueueInv /\ CapInv
  BY Zenon DEF Init, FlagsOK, QueueInv, CapInv
<1>2. /\ failures = 0 /\ retry = 0 /\ poller = "nobody" /\ sleep = 0
      /\ since = 0 /\ delay = 0 /\ cap = NotFoundMax
  BY Zenon DEF Init
<1>3. RestOK /\ WaitInv /\ DelayInv
  BY <1>2, DelaysAssumption, FailureCapAssumption
  DEF RestOK, WaitInv, DelayInv, Greater
<1> QED
  BY <1>1, <1>3, TypeParts DEF BackoffInv

LEMMA FlagsStep ==
    ASSUME FlagsOK, RestOK, QueueInv, CapInv, [Next]_vars
    PROVE  FlagsOK' /\ QueueInv' /\ CapInv'
<1> USE DEF FlagsOK, QueueInv, CapInv
<1>1. CASE PollSucceeds
  BY <1>1, Zenon DEF PollSucceeds, PollEnds
<1>2. ASSUME NEW notFound \in BOOLEAN, NEW up \in BOOLEAN, PollFails(notFound, up)
      PROVE  FlagsOK' /\ QueueInv' /\ CapInv'
  BY <1>2, Zenon DEF PollFails, PollEnds, CapFor
<1>3. CASE PollLoopNaps
  BY <1>3, Zenon DEF PollLoopNaps, history
<1>4. CASE PollLoopPolls
  <2>1. poller \in {"nobody", "loop", "client"} /\ "nobody" # "client"
    BY DEF RestOK
  <2>2. UNCHANGED missing /\ UNCHANGED cap /\ poller # "loop" /\ ~queued
    BY <1>4, Zenon DEF PollLoopPolls, Awake, history
  <2>3. CASE poller = "nobody" /\ poller' = "loop" /\ UNCHANGED queued
    BY <2>2, <2>3, Zenon
  <2>4. CASE poller # "nobody" /\ queued' = TRUE /\ UNCHANGED poller
    <3>1. poller' = "client"
      BY <2>1, <2>2, <2>4, Zenon
    <3> QED
      BY <2>2, <2>4, <3>1, Zenon
  <2> QED
    BY <1>4, <2>3, <2>4, Zenon DEF PollLoopPolls
<1>5. CASE PumpDataForce
  BY <1>5, Zenon DEF PumpDataForce, history
<1>6. CASE Tick
  BY <1>6, Zenon DEF Tick
<1>7. CASE UNCHANGED vars
  BY <1>7, Zenon DEF vars, loopVars, history
<1> QED
  BY <1>1, <1>2, <1>3, <1>4, <1>5, <1>6, <1>7, Zenon DEF Next

LEMMA RestStep ==
    ASSUME RestOK, QueueInv, [Next]_vars
    PROVE  RestOK'
<1> USE DelaysAssumption, FailureCapAssumption
<1>1. CASE PollSucceeds
  BY <1>1, Succeeded DEF RestOK
<1>2. ASSUME NEW notFound \in BOOLEAN, NEW up \in BOOLEAN, PollFails(notFound, up)
      PROVE  RestOK'
  <2>1. failures' \in 0 .. FailureCap /\ cap' \in {ReconnectMax, NotFoundMax} /\ cap' \in Nat
    BY <1>2, Failed DEF RestOK, Lesser
  <2>2. delay' \in 0 .. cap' /\ retry' = delay'
    BY <1>2, <2>1, Failed, DelayRange
  <2>3. sleep' \in 0 .. Interval
    BY <1>2, <2>1, <2>2, Failed DEF RestOK, Lesser
  <2> QED
    BY <1>2, <2>1, <2>2, <2>3, Failed DEF RestOK
<1>3. CASE PollLoopNaps
  BY <1>3, Napped DEF RestOK, Lesser
<1>4. CASE PollLoopPolls
  BY <1>4, Woke DEF RestOK
<1>5. CASE PumpDataForce
  BY <1>5, Forced DEF RestOK
<1>6. CASE Tick
  <2>1. since' \in Nat
    BY <1>6, Ticked DEF RestOK
  <2> QED
    BY <1>6, <2>1, Ticked DEF RestOK, Earlier
<1>7. CASE UNCHANGED vars
  BY <1>7 DEF RestOK, vars, statusVars, loopVars, history
<1> QED
  BY <1>1, <1>2, <1>3, <1>4, <1>5, <1>6, <1>7, Zenon DEF Next

LEMMA FromNow ==
    ASSUME NEW d \in Nat, NEW s \in 0 .. Interval
    PROVE  0 + s <= Greater(Interval, d) /\ 0 + d = d /\ (d = 0 => 0 >= d)
BY DelaysAssumption DEF Greater

LEMMA JustEnded ==
    ASSUME since' = 0, retry' = delay', delay' \in Nat, sleep' \in 0 .. Interval
    PROVE  WaitInv'
<1>1. 0 + sleep' <= Greater(Interval, delay') /\ 0 + delay' = delay'
      /\ (delay' = 0 => 0 >= delay')
  BY FromNow, Zenon
<1> QED
  BY <1>1, Zenon DEF WaitInv

LEMMA WaitStep ==
    ASSUME RestOK, QueueInv, WaitInv, [Next]_vars
    PROVE  WaitInv'
<1> USE DelaysAssumption
<1>0. /\ retry \in Nat /\ sleep \in 0 .. Interval /\ since \in Nat
      /\ delay \in Nat /\ Interval \in Nat
  BY DEF RestOK
<1>1. CASE PollSucceeds
  BY <1>0, <1>1, Succeeded DEF WaitInv, Greater
<1>2. ASSUME NEW notFound \in BOOLEAN, NEW up \in BOOLEAN, PollFails(notFound, up)
      PROVE  WaitInv'
  <2>1. delay' \in Nat
    BY <1>2, RestStep DEF RestOK, Next
  <2>2. since' = 0 /\ retry' = delay' /\ sleep' \in {Lesser(delay', Interval), sleep}
    BY <1>2, Failed
  <2>3. sleep' \in 0 .. Interval
    BY <1>0, <2>1, <2>2 DEF Lesser
  <2> QED
    BY <2>1, <2>2, <2>3, JustEnded
<1>3. CASE PollLoopNaps
  <2>1. sleep' <= retry /\ sleep' \in Nat
    BY <1>0, <1>3, Napped DEF Lesser
  <2> QED
    BY <1>0, <1>3, <2>1, Napped DEF WaitInv, Greater
<1>4. CASE PollLoopPolls \/ PumpDataForce
  <2>1. poller' # "nobody"
    BY <1>4, Woke, Forced
  <2> QED
    BY <2>1 DEF WaitInv
<1>5. CASE Tick
  <2>1. CASE poller = "nobody"
    <3>1. since' = since + 1 /\ sleep' = sleep - 1 /\ retry' = Earlier(retry) /\ delay' = delay
          /\ sleep # 0
      BY <1>5, <2>1, Ticked DEF Earlier
    <3> QED
      BY <1>0, <2>1, <3>1 DEF WaitInv, Greater, Earlier
  <2>2. CASE poller # "nobody"
    BY <1>5, <2>2, Ticked DEF WaitInv
  <2> QED
    BY <2>1, <2>2
<1>6. CASE UNCHANGED vars
  BY <1>6 DEF WaitInv, vars, statusVars, loopVars, history
<1> QED
  BY <1>1, <1>2, <1>3, <1>4, <1>5, <1>6, Zenon DEF Next

LEMMA DelayStep ==
    ASSUME RestOK, QueueInv, DelayInv, [Next]_vars
    PROVE  DelayInv'
<1>1. CASE PollSucceeds
  BY <1>1, Succeeded DEF DelayInv
<1>2. ASSUME NEW notFound \in BOOLEAN, NEW up \in BOOLEAN, PollFails(notFound, up)
      PROVE  DelayInv'
  BY <1>2, Failed DEF DelayInv
<1>3. CASE PollLoopNaps \/ PollLoopPolls \/ PumpDataForce \/ Tick
  <2>1. UNCHANGED failures /\ UNCHANGED cap /\ UNCHANGED delay
    BY <1>3, Napped, Woke, Forced, Ticked
  <2> QED
    BY <2>1 DEF DelayInv
<1>4. CASE UNCHANGED vars
  BY <1>4 DEF DelayInv, vars, statusVars, history
<1> QED
  BY <1>1, <1>2, <1>3, <1>4, Zenon DEF Next

LEMMA BackoffNext ==
    ASSUME TypeOK, BackoffInv, [Next]_vars
    PROVE  TypeOK' /\ BackoffInv'
<1>1. FlagsOK /\ RestOK /\ QueueInv /\ WaitInv /\ CapInv /\ DelayInv
  BY TypeParts, Zenon DEF BackoffInv
<1>2. FlagsOK' /\ QueueInv' /\ CapInv'
  BY <1>1, FlagsStep
<1>3. RestOK' /\ WaitInv' /\ DelayInv'
  BY <1>1, RestStep, WaitStep, DelayStep
<1> QED
  BY <1>2, <1>3, TypePartsNext, Zenon DEF BackoffInv

(* The invariant everything else follows from. *)
THEOREM BackoffInvariant == Spec => [](TypeOK /\ BackoffInv)
<1>1. Init => TypeOK /\ BackoffInv
  BY BackoffInit
<1>2. TypeOK /\ BackoffInv /\ [Next]_vars => (TypeOK /\ BackoffInv)'
  BY BackoffNext
<1> QED
  BY <1>1, <1>2, PTL DEF Spec

(* Every variable keeps its type, and no delay exceeds its cap             *)
(* (RuntimeStatus.retry_delay).                                            *)
THEOREM BackoffTypeCorrect == Spec => []TypeOK
BY BackoffInvariant, PTL

(* For any delays: the loop polls within the interval or the delay,        *)
(* whichever is longer, of the end of the latest poll (poll_loop).         *)
THEOREM PollsInTimeHolds == Spec => []PollsInTime
<1>1. TypeOK /\ BackoffInv => PollsInTime
  <2> SUFFICES ASSUME RestOK, WaitInv, poller = "nobody"
               PROVE  since <= Greater(Interval, delay)
    BY TypeParts DEF BackoffInv, PollsInTime
  <2>1. since \in Nat /\ sleep \in Nat /\ Interval \in Nat /\ delay \in Nat
    BY DelaysAssumption DEF RestOK
  <2> QED
    BY <2>1 DEF WaitInv, Greater
<1> QED
  BY <1>1, BackoffInvariant, PTL

(* For any delays: a heater that left no connection is asked for within    *)
(* not_found_backoff_max, however its polls failed (poll_once).            *)
THEOREM NoticedAfterPowerOnHolds == Spec => []NoticedAfterPowerOn
<1>1. TypeOK /\ BackoffInv => NoticedAfterPowerOn
  <2> SUFFICES ASSUME RestOK, WaitInv, poller = "nobody", cap = NotFoundMax
               PROVE  since <= Greater(Interval, NotFoundMax)
    BY TypeParts, Zenon DEF BackoffInv, CapInv, NoticedAfterPowerOn
  <2>1. /\ since \in Nat /\ sleep \in Nat /\ Interval \in Nat
        /\ delay \in 0 .. NotFoundMax /\ NotFoundMax \in Nat
    BY DelaysAssumption DEF RestOK
  <2> QED
    BY <2>1 DEF WaitInv, Greater
<1> QED
  BY <1>1, BackoffInvariant, PTL

(* For any delays: a loop that wakes up by itself has let the delay of the *)
(* latest failure pass, its own or a client's (retry_in, poll_loop).       *)
THEOREM RetryWaitedForHolds == Spec => RetryWaitedFor
<1> DEFINE Waited == poller = "nobody" /\ poller' = "loop" => since >= delay
<1>1. TypeOK /\ BackoffInv /\ [Next]_vars => [Waited]_vars
  <2> SUFFICES ASSUME RestOK, QueueInv, WaitInv, Next, poller = "nobody", poller' = "loop"
               PROVE  since >= delay
    BY TypeParts, Zenon DEF BackoffInv
  <2>1. CASE PollLoopPolls
    <3>1. retry = 0
      BY <2>1, Woke DEF RestOK
    <3> QED
      BY <3>1 DEF WaitInv
  <2>2. CASE PollSucceeds
    BY <2>2, Succeeded
  <2>3. ASSUME NEW notFound \in BOOLEAN, NEW up \in BOOLEAN, PollFails(notFound, up)
        PROVE  FALSE
    BY <2>3, Failed
  <2>4. CASE PollLoopNaps \/ PumpDataForce \/ Tick
    <3>1. poller' \in {"nobody", "client"}
      BY <2>4, Napped, Forced, Ticked
    <3> QED
      BY <3>1
  <2> QED
    BY <2>1, <2>2, <2>3, <2>4, Zenon DEF Next
<1> QED
  BY <1>1, BackoffInvariant, PTL DEF Spec, RetryWaitedFor

(* For any delays: while the cap stays the same, only a success shortens   *)
(* the delay (RuntimeStatus.retry_delay).                                  *)
THEOREM BackoffGrowsHolds == Spec => BackoffGrows
<1> DEFINE Grows == cap' = cap /\ delay' < delay => delay' = 0
<1>1. TypeOK /\ BackoffInv /\ [Next]_vars => [Grows]_vars
  <2> SUFFICES ASSUME RestOK, QueueInv, DelayInv, Next, cap' = cap, delay' < delay
               PROVE  delay' = 0
    BY TypeParts, Zenon DEF BackoffInv
  <2>1. CASE PollSucceeds
    BY <2>1, Succeeded
  <2>2. ASSUME NEW notFound \in BOOLEAN, NEW up \in BOOLEAN, PollFails(notFound, up)
        PROVE  FALSE
    <3>1. failures \in Nat /\ cap \in Nat /\ delay \in Nat /\ failures' \in {failures, failures + 1}
          /\ failures' \in Nat
      BY <2>2, Failed, DelaysAssumption, FailureCapAssumption DEF RestOK, Lesser
    <3>2. delay' = RetryDelay(failures', cap) /\ delay' \in Nat
      BY <2>2, <3>1, Failed, DelayRange
    <3>3. RetryDelay(failures, cap) <= delay' /\ RetryDelay(failures, cap) \in Nat
      <4>1. RetryDelay(failures, cap) \in Nat
        BY <3>1, DelayRange, Zenon
      <4>2. /\ RetryDelay(failures, cap) <= RetryDelay(failures, cap)
            /\ RetryDelay(failures, cap) <= RetryDelay(failures + 1, cap)
        BY <3>1, <4>1, DelayGrows
      <4> QED
        BY <3>1, <3>2, <4>1, <4>2, Zenon
    <3>4. delay = 0 \/ delay = RetryDelay(failures, cap)
      BY Zenon DEF DelayInv
    <3>5. CASE delay = 0
      BY <3>2, <3>5
    <3>6. CASE delay = RetryDelay(failures, cap)
      BY <3>1, <3>2, <3>3, <3>6
    <3> QED
      BY <3>4, <3>5, <3>6
  <2>3. CASE PollLoopNaps \/ PollLoopPolls \/ PumpDataForce \/ Tick
    <3>1. UNCHANGED delay /\ delay \in Nat
      BY <2>3, Napped, Woke, Forced, Ticked, DelaysAssumption DEF RestOK
    <3> QED
      BY <3>1
  <2> QED
    BY <2>1, <2>2, <2>3, Zenon DEF Next
<1> QED
  BY <1>1, BackoffInvariant, PTL DEF Spec, BackoffGrows
=============================================================================
