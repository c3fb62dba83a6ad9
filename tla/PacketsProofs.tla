--------------------------- MODULE PacketsProofs ---------------------------
(***************************************************************************)
(* What holds of every notification and every request: no bound on the     *)
(* frames that may be cached or on the arguments asked for.                *)
(***************************************************************************)
EXTENDS Packets, SequenceTheorems, WellFoundedInduction, TLAPS

(* The cached frame, of which no request changes anything. *)
ResponseOK == response \in Notification \cup {None}

LEMMA ResponseInit == Init => ResponseOK
  BY InputsAssumption DEF Init, ResponseOK

LEMMA ResponseStep == [Next]_vars => UNCHANGED response
  BY DEF Next, vars, SendCommand, SendRawCommand, SendHcaloryPowerAction,
         SendHcalorySetGear, SendHcalorySetTemperature, Handled, Answer

LEMMA ResponseCorrect == Spec => []ResponseOK
  <1>1. ResponseOK /\ [Next]_vars => ResponseOK'
    BY ResponseStep DEF ResponseOK
  <1> QED
    BY <1>1, ResponseInit, PTL DEF Spec

(* The fields of a frame that the properties are about. *)
LEMMA ParsedFields ==
    ASSUME NEW raw
    PROVE  LET state == At(raw, 20, raw.state)
           IN  /\ Parsed(raw).heater_state = Named(HeaterState, state)
               /\ Parsed(raw).heater_mode = Named(HeaterMode, At(raw, 21, raw.mode))
               /\ Parsed(raw).heater_setting = At(raw, 22, raw.setting)
               /\ Parsed(raw).body_temperature = Tenths(raw, 28, raw.body)
               /\ Parsed(raw).ambient_temperature = Tenths(raw, 31, raw.ambient)
               /\ Parsed(raw).temperature_unit = At(raw, 37, raw.unit)
               /\ Parsed(raw).voltage
                      = IF raw.length > 25 THEN raw.voltage \div 10 ELSE None
               /\ Parsed(raw).error_code
                      = ErrorCode(state, At(raw, 22, raw.setting))
               /\ Parsed(raw).running = RunningState(state)
               /\ Parsed(raw).cooldown = CooldownState(state)
               /\ Parsed(raw).preheating = PreheatingState(state)
  BY DEF Parsed

-----------------------------------------------------------------------------
(* A named running state has the status nibble of heating, and a named     *)
(* cooldown state that of turning off.                                     *)
LEMMA RunningNibble ==
    ASSUME NEW s \in Byte \cup {None}, RunningState(s)
    PROVE  s # None /\ s \div 16 = StatusHeating
  <1>1. \A n \in {"ignition_received", "ignition_starting", "igniting",
                  "running", "heating"} :
            HeaterState[n] \in {128, 129, 131, 133, 135}
    BY DEF HeaterState
  <1>2. CASE Among(s, HeaterState, {"ignition_received", "ignition_starting",
                                    "igniting", "running", "heating"})
    <2>1. s \in {128, 129, 131, 133, 135}
      BY <1>1, <1>2 DEF Among
    <2> QED
      BY <2>1, NoneAssumption DEF StatusHeating
  <1> QED
    BY <1>2 DEF RunningState

LEMMA CooldownNibble ==
    ASSUME NEW s \in Byte \cup {None}, CooldownState(s)
    PROVE  s # None /\ s \div 16 = StatusTurning
  <1>1. \A n \in {"cooldown_received", "cooldown_starting", "cooldown"} :
            HeaterState[n] \in {65, 67, 69}
    BY DEF HeaterState
  <1>2. CASE Among(s, HeaterState, {"cooldown_received", "cooldown_starting",
                                    "cooldown"})
    <2>1. s \in {65, 67, 69}
      BY <1>1, <1>2 DEF Among
    <2> QED
      BY <2>1, NoneAssumption DEF StatusTurning
  <1> QED
    BY <1>2 DEF CooldownState

LEMMA RunningNotCoolingOfFrame == ResponseOK => RunningNotCooling
  <1> SUFFICES ASSUME ResponseOK, response # None,
                      Parsed(response).running, Parsed(response).cooldown
               PROVE  FALSE
    BY DEF RunningNotCooling
  <1> DEFINE state == At(response, 20, response.state)
  <1>1. state \in Byte \cup {None}
    BY DEF ResponseOK, Notification, At
  <1>2. RunningState(state) /\ CooldownState(state)
    BY ParsedFields
  <1> QED
    BY <1>1, <1>2, RunningNibble, CooldownNibble DEF StatusHeating, StatusTurning

(* Whatever notification is cached, the flags running and cooldown of      *)
(* HeaterResponse exclude each other.                                      *)
THEOREM RunningNotCoolingHolds == Spec => []RunningNotCooling
  BY ResponseCorrect, RunningNotCoolingOfFrame, PTL

-----------------------------------------------------------------------------
(* A part that is valid reaches past its last reading. *)
LEMMA ValidIsLong ==
    ASSUME NEW raw, Valid(raw)
    PROVE  raw.length > 31
  BY ParsedFields DEF Valid, Tenths

LEMMA TruncationSafeOfFrame == ResponseOK => TruncationSafe
  <1> SUFFICES ASSUME ResponseOK, response # None,
                      NEW n \in 0 .. response.length,
                      Valid([response EXCEPT !.length = n]),
                      NEW f \in {"heater_state", "heater_mode", "heater_setting",
                                 "voltage", "body_temperature",
                                 "ambient_temperature", "error_code", "running",
                                 "cooldown", "preheating"}
               PROVE  Parsed([response EXCEPT !.length = n])[f] = Parsed(response)[f]
    BY DEF TruncationSafe
  <1> DEFINE part == [response EXCEPT !.length = n]
  <1>1. response \in Notification
    BY DEF ResponseOK
  <1>2. /\ part.length = n
        /\ part.state = response.state     /\ part.mode = response.mode
        /\ part.setting = response.setting /\ part.voltage = response.voltage
        /\ part.body = response.body       /\ part.ambient = response.ambient
    BY <1>1 DEF Notification
  <1>3. n > 31 /\ response.length > 31 /\ response.length \in Nat /\ n \in Nat
    BY <1>1, <1>2, ValidIsLong DEF Notification
  <1>4. /\ At(part, 20, part.state) = At(response, 20, response.state)
        /\ At(part, 21, part.mode) = At(response, 21, response.mode)
        /\ At(part, 22, part.setting) = At(response, 22, response.setting)
        /\ Tenths(part, 28, part.body) = Tenths(response, 28, response.body)
        /\ Tenths(part, 31, part.ambient) = Tenths(response, 31, response.ambient)
    BY <1>2, <1>3 DEF At, Tenths
  <1>5. Parsed(part).voltage = Parsed(response).voltage
    <2>1. /\ Parsed(part).voltage
               = IF part.length > 25 THEN part.voltage \div 10 ELSE None
          /\ Parsed(response).voltage
               = IF response.length > 25 THEN response.voltage \div 10 ELSE None
      BY ParsedFields
    <2> HIDE DEF part
    <2> QED
      BY <1>2, <1>3, <2>1
  <1> HIDE DEF part
  <1>6. /\ Parsed(part).heater_state = Parsed(response).heater_state
        /\ Parsed(part).heater_mode = Parsed(response).heater_mode
        /\ Parsed(part).heater_setting = Parsed(response).heater_setting
        /\ Parsed(part).body_temperature = Parsed(response).body_temperature
        /\ Parsed(part).ambient_temperature = Parsed(response).ambient_temperature
        /\ Parsed(part).error_code = Parsed(response).error_code
        /\ Parsed(part).running = Parsed(response).running
        /\ Parsed(part).cooldown = Parsed(response).cooldown
        /\ Parsed(part).preheating = Parsed(response).preheating
    BY <1>4, ParsedFields
  <1>7. Parsed(part)[f] = Parsed(response)[f]
    BY <1>5, <1>6
  <1> QED
    BY <1>7 DEF part

(* A notification of any content, cut at any byte, is invalid or parsed    *)
(* as the whole is, in every field the integration decides on.             *)
THEOREM TruncationSafeHolds == Spec => []TruncationSafe
  BY ResponseCorrect, TruncationSafeOfFrame, PTL

-----------------------------------------------------------------------------
(* Where the two bytes of a temperature packet stand. *)
LEMMA TemperaturePacket ==
    ASSUME NEW t, NEW u
    PROVE  LET p == BuildCommand(SetTemp, <<t, u>>)
           IN  p # << >> /\ p[13] = t /\ p[14] = u
  BY DEF BuildCommand, SetTemp

LEMMA TemperatureStep ==
    ResponseOK /\ TemperatureInUnit /\ [Next]_vars => TemperatureInUnit'
  <1> SUFFICES ASSUME ResponseOK, TemperatureInUnit, [Next]_vars
               PROVE  TemperatureInUnit'
    OBVIOUS
  <1>1. CASE SendHcalorySetTemperature
    <2>1. PICK t \in Temperatures, given \in {0, 1, None} :
              Handled([kind |-> "temperature", unit |-> given],
                      t \in RangeOf(UnitOf(given)),
                      BuildCommand(SetTemp, <<t, UnitOf(given)>>))
      BY <1>1 DEF SendHcalorySetTemperature
    <2> DEFINE unit == UnitOf(given)
    <2>2. CASE t \notin RangeOf(unit)
      BY <2>1, <2>2 DEF Handled, TemperatureInUnit
    <2>3. CASE t \in RangeOf(unit)
      <3>1. /\ request'.unit = given /\ response' = response
            /\ packet'[13] = t /\ packet'[14] = unit
        BY <2>1, <2>3, TemperaturePacket DEF Handled
      <3>2. unit \in {0, 1} /\ (unit = 0 => t \in 0 .. 40) /\ (unit = 1 => t \in 32 .. 104)
        BY <2>3 DEF RangeOf
      <3>3. \/ unit = given
            \/ given = None /\ response = None /\ unit = 0
            \/ given = None /\ response # None
               /\ response.length > 37 /\ response.unit = unit
        BY <3>2, ParsedFields, NoneAssumption DEF UnitOf, At
      <3> HIDE DEF unit
      <3>4. (unit = 0 => t <= 40) /\ (unit = 1 => t \in 32 .. 104)
        BY <3>2
      <3> QED
        BY <3>1, <3>3, <3>4, Zenon DEF TemperatureInUnit
    <2> QED
      BY <2>2, <2>3
  <1>2. CASE SendCommand \/ SendRawCommand \/ SendHcaloryPowerAction \/ SendHcalorySetGear
    <2>1. request'.kind # "temperature"
      <3>1. CASE SendCommand
        BY <3>1 DEF SendCommand, Handled
      <3>2. CASE SendRawCommand
        BY <3>2 DEF SendRawCommand, Handled
      <3>3. CASE SendHcaloryPowerAction
        BY <3>3 DEF SendHcaloryPowerAction, Handled
      <3>4. CASE SendHcalorySetGear
        BY <3>4 DEF SendHcalorySetGear, Handled
      <3> QED
        BY <1>2, <3>1, <3>2, <3>3, <3>4
    <2> QED
      BY <2>1 DEF TemperatureInUnit
  <1>3. CASE Answer
    BY <1>3 DEF Answer, TemperatureInUnit
  <1>4. CASE UNCHANGED vars
    BY <1>4 DEF vars, TemperatureInUnit
  <1> QED
    BY <1>1, <1>2, <1>3, <1>4 DEF Next

(* For every argument, every given unit and every cached frame: the unit   *)
(* of a temperature is the request's, or that of a frame long enough to    *)
(* have one, or Celsius when nothing is cached, and the temperature is in  *)
(* the range of its unit.                                                  *)
THEOREM TemperatureInUnitHolds == Spec => []TemperatureInUnit
  <1>1. Init => TemperatureInUnit
    BY DEF Init, TemperatureInUnit
  <1> QED
    BY <1>1, ResponseCorrect, TemperatureStep, PTL DEF Spec

-----------------------------------------------------------------------------
(* The sum of a packet's bytes. *)

(* Induction over the numbers, as a statement about sets. *)
LEMMA InductiveSet ==
    ASSUME NEW S, 0 \in S, \A n \in Nat : n \in S => n + 1 \in S
    PROVE  Nat \subseteq S
  <1> SUFFICES ASSUME Nat \ S # {}
               PROVE  FALSE
    OBVIOUS
  <1> DEFINE R == {ss \in Nat \X Nat : ss[1] < ss[2]}
  <1>1. IsWellFoundedOn(R, Nat)
    BY NatLessThanWellFounded, Zenon DEF OpToRel
  <1>2. Nat \ S \subseteq Nat
    OBVIOUS
  <1> HIDE DEF R
  <1>3. PICK x \in Nat \ S : \A y \in Nat \ S : ~(<<y, x>> \in R)
    BY <1>1, <1>2, WFMin
  <1>4. x - 1 \in Nat \ S
    BY <1>3
  <1>5. <<x - 1, x>> \in R
    BY <1>4 DEF R
  <1> QED
    BY <1>3, <1>4, <1>5

(* f adds up the first m elements of s. *)
Adds(f, s, m) == f = [n \in 0 .. m |-> IF n = 0 THEN 0 ELSE f[n - 1] + s[n]]

LEMMA AddsFirst ==
    ASSUME NEW f, NEW s, NEW m \in Nat
    PROVE  Adds(f, s, m) <=>
              /\ f = [n \in 0 .. m |-> f[n]]
              /\ f[0] = 0
              /\ \A n \in 1 .. m : f[n] = f[n - 1] + s[n]
  <1> DEFINE g == [n \in 0 .. m |-> IF n = 0 THEN 0 ELSE f[n - 1] + s[n]]
  <1>1. g[0] = 0 /\ \A n \in 1 .. m : g[n] = f[n - 1] + s[n]
    OBVIOUS
  <1>2. ASSUME Adds(f, s, m)
        PROVE  /\ f = [n \in 0 .. m |-> f[n]]
               /\ f[0] = 0
               /\ \A n \in 1 .. m : f[n] = f[n - 1] + s[n]
    <2>1. f = g
      BY <1>2 DEF Adds
    <2> HIDE DEF g
    <2>2. g = [n \in 0 .. m |-> g[n]]
      BY DEF g
    <2> QED
      BY <1>1, <2>1, <2>2
  <1>3. ASSUME /\ f = [n \in 0 .. m |-> f[n]]
               /\ f[0] = 0
               /\ \A n \in 1 .. m : f[n] = f[n - 1] + s[n]
        PROVE  Adds(f, s, m)
    <2>1. \A n \in 0 .. m : f[n] = g[n]
      <3> HIDE DEF g
      <3>1. f[0] = g[0] /\ \A n \in 1 .. m : f[n] = g[n]
        BY <1>1, <1>3, Zenon
      <3> QED
        BY <3>1
    <2>2. g = [n \in 0 .. m |-> g[n]]
      OBVIOUS
    <2> HIDE DEF g
    <2>3. f = g
      BY <1>3, <2>1, <2>2
    <2> QED
      BY <2>3 DEF Adds, g
  <1> QED
    BY <1>2, <1>3

LEMMA AddsStep ==
    ASSUME NEW f, NEW s, NEW m \in Nat, Adds(f, s, m)
    PROVE  f[0] = 0 /\ \A n \in 1 .. m : f[n] = f[n - 1] + s[n]
  BY AddsFirst

(* Every sequence has such a function, *)
LEMMA AddsExists ==
    ASSUME NEW s \in Seq(Int)
    PROVE  \E f : Adds(f, s, Len(s))
  <1> DEFINE S == {m \in Nat : m <= Len(s) =>
                      \E f \in [0 .. m -> Int] : Adds(f, s, m)}
  <1>1. 0 \in S
    <2> DEFINE f == [n \in 0 .. 0 |-> 0]
    <2>1. f \in [0 .. 0 -> Int] /\ Adds(f, s, 0)
      BY DEF Adds
    <2> QED
      BY <2>1
  <1>2. ASSUME NEW m \in Nat, m \in S PROVE m + 1 \in S
    <2> SUFFICES ASSUME m + 1 <= Len(s)
                 PROVE  \E g \in [0 .. m + 1 -> Int] : Adds(g, s, m + 1)
      OBVIOUS
    <2>1. PICK f \in [0 .. m -> Int] : Adds(f, s, m)
      BY <1>2
    <2> DEFINE g == [n \in 0 .. m + 1 |-> IF n = m + 1 THEN f[m] + s[m + 1] ELSE f[n]]
    <2>2. g \in [0 .. m + 1 -> Int]
      OBVIOUS
    <2>3. f[0] = 0 /\ \A n \in 1 .. m : f[n] = f[n - 1] + s[n]
      BY <2>1, AddsFirst, SMTT(20)
    <2>4. g[0] = 0 /\ \A n \in 1 .. m + 1 : g[n] = g[n - 1] + s[n]
      BY <2>3
    <2>5. g = [n \in 0 .. m + 1 |-> g[n]]
      OBVIOUS
    <2> HIDE DEF g
    <2>6. Adds(g, s, m + 1)
      <3>1. m + 1 \in Nat /\ g[0] = 0
        BY <2>4
      <3> QED
        BY <3>1, <2>4, <2>5, AddsFirst
    <2> QED
      BY <2>2, <2>6
  <1> HIDE DEF S
  <1>3. Len(s) \in S
    BY <1>1, <1>2, InductiveSet, LenProperties
  <1> QED
    BY <1>3 DEF S

(* and only one. *)
LEMMA AddsUnique ==
    ASSUME NEW s \in Seq(Int), NEW t \in Seq(Int), NEW f, NEW g,
           Adds(f, s, Len(s)), Adds(g, t, Len(t)),
           NEW k \in Nat, k <= Len(s), k <= Len(t),
           \A n \in 1 .. k : s[n] = t[n]
    PROVE  f[k] = g[k] /\ f[k] \in Int
  <1> DEFINE S == {m \in Nat : m <= k => f[m] = g[m] /\ f[m] \in Int}
  <1>00. Len(s) \in Nat /\ Len(t) \in Nat
    BY LenProperties
  <1>0. /\ f[0] = 0 /\ \A n \in 1 .. Len(s) : f[n] = f[n - 1] + s[n]
        /\ g[0] = 0 /\ \A n \in 1 .. Len(t) : g[n] = g[n - 1] + t[n]
    BY <1>00, AddsFirst
  <1>1. 0 \in S
    BY <1>0
  <1>2. ASSUME NEW m \in Nat, m \in S PROVE m + 1 \in S
    <2> SUFFICES ASSUME m + 1 <= k
                 PROVE  f[m + 1] = g[m + 1] /\ f[m + 1] \in Int
      OBVIOUS
    <2>1. m + 1 \in 1 .. Len(s) /\ m + 1 \in 1 .. Len(t)
      OBVIOUS
    <2>2. f[m] = g[m] /\ f[m] \in Int
      BY <1>2
    <2>3. f[m + 1] = f[m] + s[m + 1] /\ g[m + 1] = g[m] + t[m + 1] 
      BY <1>0, <2>1
    <2>4. s[m + 1] = t[m + 1] /\ s[m + 1] \in Int
      BY <2>1, ElementOfSeq
    <2> QED
      BY <2>2, <2>3, <2>4
  <1> HIDE DEF S
  <1>3. Nat \subseteq S
    BY <1>1, <1>2, InductiveSet
  <1>4. k \in S
    BY <1>00, <1>3
  <1> QED
    BY <1>4 DEF S

LEMMA SumOfAdds ==
    ASSUME NEW s \in Seq(Int)
    PROVE  \E f : Adds(f, s, Len(s)) /\ SumOf(s) = f[Len(s)]
  BY AddsExists DEF SumOf, Adds

LEMMA SumSteps ==
    ASSUME NEW s \in Seq(Int)
    PROVE  \E f : /\ f[0] = 0 /\ SumOf(s) = f[Len(s)]
                  /\ \A n \in 1 .. Len(s) : f[n] = f[n - 1] + s[n]
  <1>1. PICK f : Adds(f, s, Len(s)) /\ SumOf(s) = f[Len(s)]
    BY SumOfAdds
  <1>2. Len(s) \in Nat
    BY LenProperties
  <1>3. f[0] = 0 /\ \A n \in 1 .. Len(s) : f[n] = f[n - 1] + s[n]
    BY <1>1, <1>2, AddsStep
  <1> QED
    BY <1>1, <1>3

LEMMA SumIsInt ==
    ASSUME NEW s \in Seq(Int)
    PROVE  SumOf(s) \in Int
  BY SumOfAdds, AddsUnique, LenProperties

(* The sum of a power action's body. *)
LEMMA SumOfAction ==
    ASSUME NEW id \in Int, NEW t \in Seq(Int), Len(t) = 13,
           t[1] = 4, t[4] = 9, t[13] = id,
           \A n \in {2, 3, 5, 6, 7, 8, 9, 10, 11, 12} : t[n] = 0
    PROVE  SumOf(t) = 13 + id
  <1>3. PICK f : /\ f[0] = 0 /\ SumOf(t) = f[Len(t)]
                 /\ \A n \in 1 .. Len(t) : f[n] = f[n - 1] + t[n]
    BY SumSteps
  <1>4. f[0] = 0 /\ \A n \in 1 .. 13 : f[n] = f[n - 1] + t[n]
    BY <1>3
  <1>5. f[3] = 4 /\ f[4] = 13
    BY <1>4
  <1>6. f[8] = 13
    BY <1>4, <1>5
  <1>7. f[12] = 13
    BY <1>4, <1>6
  <1> QED
    BY <1>3, <1>4, <1>7

-----------------------------------------------------------------------------
(* Where the parts of a concatenation stand, *)
LEMMA Concatenated ==
    ASSUME NEW a \in Seq(Byte), NEW b \in Seq(Byte)
    PROVE  /\ a \o b \in Seq(Byte) /\ Len(a \o b) = Len(a) + Len(b)
           /\ \A i \in 1 .. Len(a) : (a \o b)[i] = a[i]
           /\ \A i \in 1 .. Len(b) : (a \o b)[Len(a) + i] = b[i]
  <1> DEFINE c == a \o b
             m == Len(a)
             n == Len(b)
  <1>1. /\ c \in Seq(Byte) /\ Len(c) = m + n
        /\ \A i \in 1 .. m + n : c[i] = IF i <= m THEN a[i] ELSE b[i - m]
    BY ConcatProperties, Zenon
  <1>2. m \in Nat /\ n \in Nat
    BY LenProperties
  <1> HIDE DEF c, m, n
  <1>3. \A i \in 1 .. m : c[i] = a[i]
    BY <1>1, <1>2
  <1>4. \A i \in 1 .. n : c[m + i] = b[i]
    <2> TAKE i \in 1 .. n
    <2>1. m + i \in 1 .. m + n /\ ~(m + i <= m) /\ (m + i) - m = i
      BY <1>2
    <2> QED
      BY <1>1, <2>1
  <1> QED
    BY <1>1, <1>3, <1>4 DEF c, m, n

LEMMA SameBytes ==
    ASSUME NEW a \in Seq(Byte), NEW b \in Seq(Byte), Len(a) = Len(b),
           \A i \in 1 .. Len(a) : a[i] = b[i]
    PROVE  a = b
  BY SeqEqual

LEMMA Regrouped ==
    ASSUME NEW a \in Seq(Byte), NEW b \in Seq(Byte), NEW c \in Seq(Byte)
    PROVE  a \o (b \o c) = (a \o b) \o c
  BY ConcatAssociative, SMTT(20)

(* one byte more at the end, *)
LEMMA Appended ==
    ASSUME NEW a \in Seq(Byte), NEW e \in Byte
    PROVE  Append(a, e) \in Seq(Byte) /\ Len(Append(a, e)) = Len(a) + 1
  BY AppendProperties, ZenonT(30)

(* and what is cut out of a sequence. *)
LEMMA CutOut ==
    ASSUME NEW S, NEW s \in Seq(S), NEW k \in Nat, NEW n \in Nat, k + n <= Len(s)
    PROVE  LET c == SubSeq(s, k + 1, k + n)
           IN  c \in Seq(S) /\ Len(c) = n /\ \A i \in 1 .. n : c[i] = s[k + i]
  <1> DEFINE c == SubSeq(s, k + 1, k + n)
             from == k + 1
             to == k + n
  <1>1. from \in Int /\ to \in Int /\ \A i \in from .. to : s[i] \in S
    <2>1. Len(s) \in Nat
      BY LenProperties
    <2>2. \A i \in from .. to : i \in 1 .. Len(s)
      BY <2>1
    <2> QED
      BY <2>2, ElementOfSeq
  <1> HIDE DEF from, to
  <1>2. /\ SubSeq(s, from, to) \in Seq(S)
        /\ Len(SubSeq(s, from, to)) = IF from <= to THEN to - from + 1 ELSE 0
        /\ \A i \in 1 .. to - from + 1 : SubSeq(s, from, to)[i] = s[from + i - 1]
    BY <1>1, SubSeqProperties
  <1>3. c = SubSeq(s, from, to)
    BY DEF from, to
  <1> HIDE DEF c
  <1>4. /\ c \in Seq(S)
        /\ Len(c) = IF k + 1 <= k + n THEN (k + n) - (k + 1) + 1 ELSE 0
        /\ \A i \in 1 .. (k + n) - (k + 1) + 1 : c[i] = s[(k + 1) + i - 1]
    BY <1>2, <1>3 DEF from, to
  <1>5. /\ (k + n) - (k + 1) + 1 = n
        /\ \A i \in 1 .. n : (k + 1) + i - 1 = k + i
    OBVIOUS
  <1>6. Len(c) = n
    BY <1>4
  <1>7. \A i \in 1 .. n : c[i] = s[k + i]
    BY <1>4, <1>5
  <1> QED
    BY <1>4, <1>6, <1>7 DEF c

(* A header of eight bytes, a body and one more byte. *)
Encloses(p, head, body, n, sum) ==
    /\ p \in Seq(Byte) /\ Len(p) = 13 + n
    /\ \A i \in 1 .. 7 : p[i] = head[i]
    /\ p[12] = body[4]
    /\ SubSeq(p, 9, 12 + n) = body
    /\ p[13 + n] = sum

LEMMA FramedBody ==
    ASSUME NEW head \in Seq(Byte), Len(head) = 8, NEW n \in Nat,
           NEW body \in Seq(Byte), Len(body) = 4 + n, NEW sum \in Byte
    PROVE  Encloses(head \o body \o <<sum>>, head, body, n, sum)
  <1> DEFINE front == head \o body
             last  == <<sum>>
             p     == front \o last
  <1>1. /\ front \in Seq(Byte) /\ Len(front) = 8 + (4 + n)
        /\ \A i \in 1 .. 8 : front[i] = head[i]
        /\ \A i \in 1 .. 4 + n : front[8 + i] = body[i]
    <2>1. /\ front \in Seq(Byte) /\ Len(front) = Len(head) + Len(body)
          /\ \A i \in 1 .. Len(head) : front[i] = head[i]
          /\ \A i \in 1 .. Len(body) : front[Len(head) + i] = body[i]
      BY Concatenated
    <2> HIDE DEF front
    <2> QED
      BY <2>1
  <1>2. last \in Seq(Byte) /\ Len(last) = 1 /\ last[1] = sum
    OBVIOUS
  <1> HIDE DEF front, last
  <1>3. /\ p \in Seq(Byte) /\ Len(p) = (12 + n) + 1
        /\ \A i \in 1 .. 12 + n : p[i] = front[i]
        /\ \A i \in 1 .. 1 : p[(12 + n) + i] = last[i]
    <2>1. /\ p \in Seq(Byte) /\ Len(p) = Len(front) + Len(last)
          /\ \A i \in 1 .. Len(front) : p[i] = front[i]
          /\ \A i \in 1 .. Len(last) : p[Len(front) + i] = last[i]
      BY <1>1, <1>2, Concatenated
    <2>2. Len(front) = 12 + n /\ Len(last) = 1
      BY <1>1, <1>2
    <2> HIDE DEF p
    <2> QED
      BY <2>1, <2>2
  <1> HIDE DEF p
  <1>4. \A i \in 1 .. 7 : p[i] = head[i]
    BY <1>1, <1>3, SMTT(20)
  <1>5. \A i \in 1 .. 4 + n : p[8 + i] = body[i]
    <2> TAKE i \in 1 .. 4 + n
    <2>1. 8 + i \in 1 .. 12 + n
      OBVIOUS
    <2> QED
      BY <1>1, <1>3, <2>1
  <1>6. p[12] = body[4]
    BY <1>5
  <1>7. SubSeq(p, 8 + 1, 8 + (4 + n)) = body
    <2> DEFINE cut == SubSeq(p, 8 + 1, 8 + (4 + n))
    <2>1. 8 \in Nat /\ 4 + n \in Nat /\ 8 + (4 + n) <= Len(p)
      BY <1>3
    <2>2. /\ cut \in Seq(Byte) /\ Len(cut) = 4 + n
          /\ \A i \in 1 .. 4 + n : cut[i] = p[8 + i]
      BY <1>3, <2>1, CutOut
    <2> HIDE DEF cut
    <2>3. cut = body
      BY <1>5, <2>2, SeqEqual
    <2> QED
      BY <2>3 DEF cut
  <1>8. 8 + 1 = 9 /\ 8 + (4 + n) = 12 + n /\ p[13 + n] = sum
    <2>1. (12 + n) + 1 = 13 + n /\ 1 \in 1 .. 1
      OBVIOUS
    <2> QED
      BY <1>2, <1>3, <2>1
  <1>9. Encloses(p, head, body, n, sum)
    BY <1>3, <1>4, <1>6, <1>7, <1>8 DEF Encloses
  <1> QED
    BY <1>9 DEF p, front, last

(* What build_hcalory_command makes of a payload of at most 255 bytes. *)
LEMMA BuiltPacket ==
    ASSUME NEW type \in Seq(Byte), Len(type) = 2,
           NEW payload \in Seq(Byte), Len(payload) \in Byte
    PROVE  LET p == BuildCommand(type, payload)
           IN  /\ p \in Seq(Byte)
               /\ Len(p) = 13 + Len(payload)
               /\ \A i \in 1 .. 7 : p[i] = <<0, 2, 0, 1, 0, 1, 0>>[i]
               /\ p[12] = Len(payload)
               /\ p[Len(p)] = SumOf(SubSeq(p, 9, Len(p) - 1)) % 256
  <1> DEFINE head == <<0, 2, 0, 1, 0, 1, 0, type[1]>>
             four == <<type[2], 0, 0, Len(payload)>>
             body == four \o payload
             sum  == SumOf(body) % 256
             p    == head \o body \o <<sum>>
             n    == Len(payload)
  <1>1. type[1] \in Byte /\ type[2] \in Byte
    BY ElementOfSeq, SMTT(20)
  <1>2. /\ head \in Seq(Byte) /\ Len(head) = 8
        /\ four \in Seq(Byte) /\ Len(four) = 4 /\ four[4] = n
        /\ \A i \in 1 .. 7 : head[i] = <<0, 2, 0, 1, 0, 1, 0>>[i]
    BY <1>1 DEF Byte
  <1>3. BuildCommand(type, payload) = p
    BY DEF BuildCommand
  <1>4. n \in Nat
    BY LenProperties
  <1> HIDE DEF head, four, n
  <1>5. body \in Seq(Byte) /\ Len(body) = 4 + n /\ body[4] = n
    <2>1. /\ body \in Seq(Byte) /\ Len(body) = Len(four) + n
          /\ \A i \in 1 .. Len(four) : body[i] = four[i]
      BY <1>2, Concatenated DEF n
    <2> HIDE DEF body
    <2> QED
      BY <1>2, <1>4, <2>1
  <1> HIDE DEF body
  <1>6. sum \in Byte
    <2>1. body \in Seq(Int)
      <3>1. Byte \subseteq Int
        BY DEF Byte
      <3> QED
        BY <1>5, <3>1, SeqMonotonic, Zenon
    <2>2. SumOf(body) \in Int
      BY <2>1, SumIsInt, Zenon
    <2>3. \A k \in Int : k % 256 \in 0 .. 255
      OBVIOUS
    <2> QED
      BY <2>2, <2>3, Zenon DEF Byte
  <1> HIDE DEF sum
  <1>7. Encloses(p, head, body, n, sum)
    <2>1. /\ head \in Seq(Byte) /\ body \in Seq(Byte) /\ sum \in Byte /\ n \in Nat
          /\ Len(head) = 8 /\ Len(body) = 4 + n
      BY <1>2, <1>4, <1>5, <1>6
    <2> QED
      BY <2>1, FramedBody, Zenon
  <1> HIDE DEF p
  <1>8. p[Len(p)] = SumOf(SubSeq(p, 9, Len(p) - 1)) % 256
    <2>1. Len(p) - 1 = 12 + n
      BY <1>4, <1>7 DEF Encloses
    <2> QED
      BY <1>7, <2>1 DEF Encloses, sum
  <1> QED
    BY <1>2, <1>3, <1>5, <1>7, <1>8 DEF Encloses, n

(* What TypeOK and WellFormed say of a packet that was made. *)
Framed(p) ==
    /\ p \in Seq(Byte)
    /\ SubSeq(p, 1, 7) = <<0, 2, 0, 1, 0, 1, 0>>
    /\ Len(p) = 12 + p[12] + 1
    /\ p[Len(p)] = SumOf(SubSeq(p, 9, Len(p) - 1)) % 256

LEMMA BuildIsFramed ==
    ASSUME NEW type \in Seq(Byte), Len(type) = 2,
           NEW payload \in Seq(Byte), Len(payload) \in Byte
    PROVE  Framed(BuildCommand(type, payload))
  <1> DEFINE p == BuildCommand(type, payload)
             start == <<0, 2, 0, 1, 0, 1, 0>>
             cut == SubSeq(p, 0 + 1, 0 + 7)
  <1>1. /\ p \in Seq(Byte) /\ Len(p) = 13 + Len(payload)
        /\ \A i \in 1 .. 7 : p[i] = start[i]
        /\ p[12] = Len(payload)
        /\ p[Len(p)] = SumOf(SubSeq(p, 9, Len(p) - 1)) % 256
    BY BuiltPacket
  <1> HIDE DEF p
  <1>2. Len(payload) \in Nat
    BY LenProperties
  <1>3. start \in Seq(Byte) /\ Len(start) = 7
    BY DEF Byte
  <1>4. cut \in Seq(Byte) /\ Len(cut) = 7 /\ \A i \in 1 .. 7 : cut[i] = p[0 + i]
    <2>1. 0 \in Nat /\ 7 \in Nat /\ 0 + 7 <= Len(p)
      BY <1>1, <1>2
    <2> QED
      BY <1>1, <2>1, CutOut
  <1>5. \A i \in 1 .. 7 : p[0 + i] = start[i]
    BY <1>1
  <1>6. SubSeq(p, 1, 7) = cut
    OBVIOUS
  <1> HIDE DEF start, cut
  <1>7. cut = start
    BY <1>3, <1>4, <1>5, SeqEqual, ZenonT(30)
  <1>8. Len(p) = 12 + p[12] + 1
    BY <1>1, <1>2
  <1> QED
    BY <1>1, <1>6, <1>7, <1>8 DEF Framed, start, p

(* The envelope that build_hcalory_command makes of a power action is the  *)
(* fixed header of a raw command.                                          *)
LEMMA RawIsPowerAction ==
    ASSUME NEW id \in Byte
    PROVE  RawCommand(id) = PowerAction(id)
  <1> DEFINE eight == <<0, 2, 0, 1, 0, 1, 0, 14>>
             four  == <<4, 0, 0, 9>>
             zeros == Zeros(8)
             one   == <<id>>
             body  == four \o (zeros \o one)
             sum   == SumOf(body) % 256
             last  == <<sum>>
  <1>1. /\ eight \in Seq(Byte) /\ four \in Seq(Byte) /\ one \in Seq(Byte)
        /\ Len(four) = 4 /\ Len(one) = 1 /\ one[1] = id
        /\ four[1] = 4 /\ four[2] = 0 /\ four[3] = 0 /\ four[4] = 9
    BY DEF Byte
  <1>2. /\ zeros \in Seq(Byte) /\ Len(zeros) = 8
        /\ \A i \in 1 .. 8 : zeros[i] = 0
    BY DEF Zeros, Byte
  <1>3. eight \o four = <<0, 2, 0, 1, 0, 1, 0, 14, 4, 0, 0, 9>>
    <2> DEFINE t == <<0, 2, 0, 1, 0, 1, 0, 14, 4, 0, 0, 9>>
               u == eight \o four
    <2>1. t \in Seq(Byte) /\ Len(t) = 12
      BY DEF Byte
    <2>2. /\ \A i \in 1 .. 8 : t[i] = eight[i]
          /\ \A i \in 1 .. 4 : t[8 + i] = four[i]
      OBVIOUS
    <2>3. Len(eight) = 8
      OBVIOUS
    <2> HIDE DEF eight, four, t
    <2>4. /\ u \in Seq(Byte) /\ Len(u) = Len(eight) + Len(four)
          /\ \A i \in 1 .. Len(eight) : u[i] = eight[i]
          /\ \A i \in 1 .. Len(four) : u[Len(eight) + i] = four[i]
      BY <1>1, Concatenated
    <2> HIDE DEF u
    <2>5. \A i \in 1 .. 12 : u[i] = t[i]
      <3> TAKE i \in 1 .. 12
      <3>1. CASE i \in 1 .. 8
        BY <1>1, <2>2, <2>3, <2>4, <3>1
      <3>2. CASE i \in 9 .. 12
        <4>1. i - 8 \in 1 .. 4 /\ 8 + (i - 8) = i
          BY <3>2
        <4>2. t[8 + (i - 8)] = four[i - 8] /\ u[8 + (i - 8)] = four[i - 8]
          BY <1>1, <2>2, <2>3, <2>4, <4>1
        <4> QED
          BY <4>1, <4>2
      <3> QED
        BY <3>1, <3>2
    <2>6. Len(u) = 12
      BY <1>1, <2>3, <2>4
    <2>7. u = t
      BY <2>1, <2>4, <2>5, <2>6, SameBytes
    <2> QED
      BY <2>7 DEF u, t
  <1>4. Append(zeros, id) = zeros \o one
    BY <1>2, AppendIsConcat
  <1> HIDE DEF zeros, four, one
  <1> DEFINE tail == zeros \o one
  <1>5. /\ tail \in Seq(Byte) /\ Len(tail) = 9
        /\ \A i \in 1 .. 8 : tail[i] = 0
        /\ tail[9] = id
    <2>1. /\ tail \in Seq(Byte) /\ Len(tail) = Len(zeros) + Len(one)
          /\ \A i \in 1 .. Len(zeros) : tail[i] = zeros[i]
          /\ \A i \in 1 .. Len(one) : tail[Len(zeros) + i] = one[i]
      BY <1>1, <1>2, Concatenated
    <2> HIDE DEF tail
    <2>2. tail[8 + 1] = one[1]
      BY <1>1, <1>2, <2>1
    <2> QED
      BY <1>1, <1>2, <2>1, <2>2
  <1>6. /\ body \in Seq(Byte) /\ Len(body) = 13
        /\ \A i \in 1 .. 4 : body[i] = four[i]
        /\ \A i \in 1 .. 9 : body[4 + i] = tail[i]
    <2> HIDE DEF tail
    <2> DEFINE b == four \o tail
    <2>1. /\ b \in Seq(Byte) /\ Len(b) = Len(four) + Len(tail)
          /\ \A i \in 1 .. Len(four) : b[i] = four[i]
          /\ \A i \in 1 .. Len(tail) : b[Len(four) + i] = tail[i]
      BY <1>1, <1>5, Concatenated
    <2>2. body = b
      BY DEF tail
    <2> HIDE DEF b, body
    <2> QED
      BY <1>1, <1>5, <2>1, <2>2
  <1> HIDE DEF body, tail
  <1>7. SumOf(body) = 13 + id
    <2>1. body \in Seq(Int) /\ id \in Int
      <3>1. Byte \subseteq Int
        BY DEF Byte
      <3> QED
        BY <1>6, <3>1, SeqMonotonic
    <2>2. /\ body[1] = 4 /\ body[2] = 0 /\ body[3] = 0 /\ body[4] = 9
      BY <1>1, <1>6
    <2>3. /\ body[4 + 1] = 0 /\ body[4 + 2] = 0 /\ body[4 + 3] = 0 /\ body[4 + 4] = 0
          /\ body[4 + 5] = 0 /\ body[4 + 6] = 0 /\ body[4 + 7] = 0 /\ body[4 + 8] = 0
          /\ body[4 + 9] = id
      BY <1>5, <1>6
    <2>4. body[13] = id
      BY <2>3
    <2>5. \A n \in {2, 3, 5, 6, 7, 8, 9, 10, 11, 12} : body[n] = 0
      BY <2>2, <2>3
    <2> QED
      BY <1>6, <2>1, <2>2, <2>4, <2>5, SumOfAction
  <1>8. sum = (id + 13) % 256 /\ sum \in Byte
    BY <1>7 DEF Byte
  <1> HIDE DEF sum
  <1>9. PowerAction(id) = (eight \o body) \o last
    <2>1. Len(zeros \o one) = 9
      BY <1>5 DEF tail
    <2> QED
      BY <1>4, <2>1 DEF PowerAction, BuildCommand, CmdPower, zeros, four, body, sum
  <1>10. RawCommand(id) = ((eight \o four) \o zeros) \o (one \o last)
    <2>1. one \o last = Append(one, sum)
      BY <1>1, <1>8, AppendIsConcat
    <2>2. <<id, sum>> = Append(one, sum)
      <3>1. id \in Int /\ sum \in Int
        BY <1>8 DEF Byte
      <3> QED
        BY <3>1 DEF one
    <2> QED
      BY <1>3, <1>8, <2>1, <2>2 DEF RawCommand, CommandHeader, zeros
  <1>11. last \in Seq(Byte)
    BY <1>8
  <1> HIDE DEF eight, last
  <1>12. (eight \o body) \o last = ((eight \o four) \o zeros) \o (one \o last)
    <2>1. body = (four \o zeros) \o one
      BY <1>1, <1>2, Regrouped DEF body
    <2> DEFINE middle == four \o zeros
               front  == eight \o middle
    <2>2. middle \in Seq(Byte)
      BY <1>1, <1>2, Concatenated, ZenonT(30)
    <2> HIDE DEF middle
    <2>3. front \in Seq(Byte)
      BY <1>1, <2>2, Concatenated, ZenonT(30)
    <2>4. eight \o (middle \o one) = front \o one
      BY <1>1, <2>2, Regrouped, ZenonT(30)
    <2> HIDE DEF front
    <2>5. (front \o one) \o last = front \o (one \o last)
      BY <1>1, <1>11, <2>3, Regrouped, ZenonT(30)
    <2>6. eight \o (four \o zeros) = (eight \o four) \o zeros
      BY <1>1, <1>2, Regrouped, ZenonT(30)
    <2> QED
      BY <2>1, <2>4, <2>5, <2>6 DEF middle, front
  <1> QED
    BY <1>9, <1>10, <1>12

(* A fixed packet of class Command, a raw command and a power action of    *)
(* one number are the same bytes: it does not matter which of the three    *)
(* ways a client's request takes through the daemon.                       *)
THEOREM OnePowerFormat ==
    /\ \A id \in Byte : RawCommand(id) = PowerAction(id)
    /\ \A c \in DOMAIN Command :
           CommandHeader \o Command[c] = PowerAction(Command[c][1])
  <1>1. ASSUME NEW id \in 0 .. 8
        PROVE  CommandHeader \o <<id, id + 13>> = PowerAction(id)
    <2>1. (id + 13) % 256 = id + 13 /\ id \in Byte
      BY DEF Byte
    <2> QED
      BY <2>1, RawIsPowerAction DEF RawCommand
  <1>2. ASSUME NEW c \in DOMAIN Command
        PROVE  CommandHeader \o Command[c] = PowerAction(Command[c][1])
    <2>1. \E id \in 0 .. 8 : Command[c] = <<id, id + 13>>
      BY DEF Command
    <2>2. PICK id \in 0 .. 8 : Command[c] = <<id, id + 13>>
      BY <2>1
    <2>3. Command[c][1] = id
      BY <2>2
    <2> QED
      BY <1>1, <2>2, <2>3
  <1> QED
    BY <1>2, RawIsPowerAction

-----------------------------------------------------------------------------
(* Every packet in the model is one that is framed, or none. *)
PacketOK == packet = << >> \/ Framed(packet)

LEMMA MadeOrRefused ==
    ASSUME NEW p, (Framed(p) /\ packet' = p) \/ packet' = << >>
    PROVE  PacketOK'
  BY DEF PacketOK, Framed

(* A power action, and so a fixed or a raw packet, is framed. *)
LEMMA PowerActionFramed ==
    ASSUME NEW action \in Byte
    PROVE  Framed(PowerAction(action))
  <1> DEFINE zeros == Zeros(8)
             payload == Append(zeros, action)
  <1>1. zeros \in Seq(Byte) /\ Len(zeros) = 8
    BY DEF Zeros, Byte
  <1> HIDE DEF zeros
  <1>2. payload \in Seq(Byte) /\ Len(payload) = 9
    <2>1. payload \in Seq(Byte) /\ Len(payload) = Len(zeros) + 1
      BY <1>1, Appended
    <2>2. Len(zeros) + 1 = 9
      BY <1>1
    <2> QED
      BY <2>1, <2>2
  <1>3. CmdPower \in Seq(Byte) /\ Len(CmdPower) = 2
    BY DEF CmdPower, Byte
  <1>4. Len(payload) \in Byte
    BY <1>2 DEF Byte
  <1> HIDE DEF payload
  <1>5. Framed(BuildCommand(CmdPower, payload))
    BY <1>2, <1>3, <1>4, BuildIsFramed
  <1> QED
    BY <1>5 DEF PowerAction, payload, zeros

LEMMA PacketStep == [Next]_vars /\ PacketOK => PacketOK'
  <1> SUFFICES ASSUME [Next]_vars, PacketOK
               PROVE  PacketOK'
    OBVIOUS
  <1>1. CASE SendCommand
    <2>1. PICK c \in DOMAIN Command :
              Handled([kind |-> "command"], TRUE, CommandHeader \o Command[c])
      BY <1>1 DEF SendCommand
    <2>2. Command[c][1] \in 0 .. 8
      BY DEF Command
    <2>3. Framed(PowerAction(Command[c][1]))
      BY <2>2, PowerActionFramed DEF Byte
    <2>4. Framed(CommandHeader \o Command[c])
      BY <2>3, OnePowerFormat
    <2> QED
      BY <2>1, <2>4, MadeOrRefused DEF Handled
  <1>2. CASE SendRawCommand
    <2>1. PICK id \in RawIds :
              Handled([kind |-> "raw", id |-> id], id \in 0 .. 255, RawCommand(id % 256))
      BY <1>2 DEF SendRawCommand
    <2>2. id \in 0 .. 255 => Framed(RawCommand(id % 256))
      <3>1. ASSUME id \in 0 .. 255 PROVE id % 256 = id /\ id \in Byte
        BY <3>1 DEF Byte
      <3> QED
        BY <3>1, PowerActionFramed, OnePowerFormat
    <2>3. (id \in 0 .. 255 /\ packet' = RawCommand(id % 256)) \/ packet' = << >>
      BY <2>1 DEF Handled
    <2> QED
      BY <2>2, <2>3, MadeOrRefused
  <1>3. CASE SendHcaloryPowerAction
    <2>1. PICK a \in DOMAIN PowerActions :
              Handled([kind |-> "power"], TRUE, PowerAction(PowerActions[a]))
      BY <1>3 DEF SendHcaloryPowerAction
    <2>2. PowerActions[a] \in Byte
      BY DEF PowerActions, Byte
    <2> QED
      BY <2>1, <2>2, PowerActionFramed, MadeOrRefused DEF Handled
  <1>4. CASE SendHcalorySetGear
    <2>1. PICK level \in Levels :
              Handled([kind |-> "gear", level |-> level],
                      level \in 1 .. 10, BuildCommand(SetGear, <<level>>))
      BY <1>4 DEF SendHcalorySetGear
    <2>2. level \in 1 .. 10 => Framed(BuildCommand(SetGear, <<level>>))
      <3> SUFFICES ASSUME level \in 1 .. 10
                   PROVE  Framed(BuildCommand(SetGear, <<level>>))
        OBVIOUS
      <3>1. <<level>> \in Seq(Byte) /\ Len(<<level>>) \in Byte
        BY DEF Byte
      <3>2. SetGear \in Seq(Byte) /\ Len(SetGear) = 2
        BY DEF SetGear, Byte
      <3> QED
        BY <3>1, <3>2, BuildIsFramed
    <2>3. (level \in 1 .. 10 /\ packet' = BuildCommand(SetGear, <<level>>)) \/ packet' = << >>
      BY <2>1 DEF Handled
    <2> QED
      BY <2>2, <2>3, MadeOrRefused
  <1>5. CASE SendHcalorySetTemperature
    <2>1. PICK t \in Temperatures, given \in {0, 1, None} :
              Handled([kind |-> "temperature", unit |-> given],
                      t \in RangeOf(UnitOf(given)),
                      BuildCommand(SetTemp, <<t, UnitOf(given)>>))
      BY <1>5 DEF SendHcalorySetTemperature
    <2> DEFINE unit == UnitOf(given)
    <2> HIDE DEF unit
    <2>2. t \in RangeOf(unit) => Framed(BuildCommand(SetTemp, <<t, unit>>))
      <3> SUFFICES ASSUME t \in RangeOf(unit)
                   PROVE  Framed(BuildCommand(SetTemp, <<t, unit>>))
        OBVIOUS
      <3>1. unit \in {0, 1} /\ t \in 0 .. 104
        BY DEF RangeOf
      <3>2. <<t, unit>> \in Seq(Byte) /\ Len(<<t, unit>>) \in Byte
        BY <3>1 DEF Byte
      <3>3. SetTemp \in Seq(Byte) /\ Len(SetTemp) = 2
        BY DEF SetTemp, Byte
      <3> QED
        BY <3>2, <3>3, BuildIsFramed
    <2>3. (t \in RangeOf(unit) /\ packet' = BuildCommand(SetTemp, <<t, unit>>)) \/ packet' = << >>
      BY <2>1 DEF Handled, unit
    <2> QED
      BY <2>2, <2>3, MadeOrRefused
  <1>6. CASE Answer
    BY <1>6 DEF Answer, PacketOK
  <1>7. CASE UNCHANGED vars
    BY <1>7 DEF vars, PacketOK, Framed
  <1> QED
    BY <1>1, <1>2, <1>3, <1>4, <1>5, <1>6, <1>7 DEF Next

LEMMA PacketCorrect == Spec => []PacketOK
  <1>1. Init => PacketOK
    BY DEF Init, PacketOK
  <1> QED
    BY <1>1, PacketStep, PTL DEF Spec

(* For any argument a client gives: a packet that is built is a sequence   *)
(* of bytes, so bytes() does not raise after the range checks.             *)
THEOREM PacketsTypeCorrect == Spec => []TypeOK
  <1> DEFINE Cached == response \in Responses \cup {None}
  <1>1. Init => Cached
    BY DEF Init
  <1>2. Cached /\ [Next]_vars => Cached'
    BY ResponseStep
  <1>3. Spec => []Cached
    BY <1>1, <1>2, PTL DEF Spec
  <1>4. Cached /\ PacketOK => TypeOK
    BY EmptySeq DEF PacketOK, Framed, TypeOK
  <1> QED
    BY <1>3, <1>4, PacketCorrect, PTL

(* Whatever is asked for and by whichever of the three constructors: the   *)
(* length byte of a packet counts its payload, and its last byte is the    *)
(* sum modulo 256 of the bytes from the second command byte on.            *)
THEOREM WellFormedHolds == Spec => []WellFormed
  <1>1. PacketOK => WellFormed
    BY DEF PacketOK, Framed, WellFormed
  <1> QED
    BY <1>1, PacketCorrect, PTL

=============================================================================
