----------------------- MODULE RequestedSettingProofs -----------------------
(***************************************************************************)
(* Theorems about RequestedSetting, for any ranges, entities and bounds.   *)
(***************************************************************************)
EXTENDS RequestedSetting, TLAPS

(* The setting as the heater has it and as an entity sees it. *)
Now     == settings[KindOf(mode)]
Seen(e) == data[e].setting

(* What the entity steps towards once it sees the heater's mode. *)
Wanted(e) == targets[e][IF auto THEN "level" ELSE KindOf(mode)]

(* Between two steps, before a step takes effect, and after it.  Data that *)
(* came while a step was sent shows the heater without that step, and is   *)
(* news only if the step was decided on older data.                        *)
PacedTask(e) ==
    /\ Seen(e) = Unset \/ data[e].mode = mode
    /\ pc[e] \in {"idle", "adjusting"} /\ data[e].ok /\ Seen(e) # Unset
          => Now - Seen(e) \in -unseen .. unseen
    /\ pc[e] = "sending" =>
          /\ Now - step[e].previous \in -unseen .. unseen
          /\ Seen(e) \in {step[e].previous, Now, Unset}
    /\ pc[e] = "waiting" =>
          /\ Ahead(e) \in -unseen .. unseen + 1
          /\ Seen(e) \notin {step[e].previous, Now, Unset}
                => unseen > 0 /\ Now - Seen(e) \in -1 .. 1

(* Nothing is under way but the step of the one task there is. *)
Paced ==
    /\ late = {}
    /\ \A e \in Entities \ {current} : pc[e] = "idle"
    /\ PacedTask(current)

PacedInv == Undisturbed => Paced

-----------------------------------------------------------------------------
(* Type correctness. *)

LEMMA RangesFacts ==
    /\ \A kind : ValuesOf(kind) \subseteq Values
    /\ Values \subseteq Nat
    /\ Unset \notin Values
    /\ GearMin \in ValuesOf("level")
    /\ ThermostatMin \in ValuesOf("thermostat")
BY RangesAssumption, UnsetAssumption DEF ValuesOf, Values, NativeMin, NativeMax

(* A value is clamped to the range of the kind of setting at hand. *)
LEMMA ClampedInRange ==
    ASSUME NEW v \in Values
    PROVE  Clamped(v) \in ValuesOf(SettingKind(current))
BY RangesAssumption DEF Clamped, ValuesOf, Values, NativeMin, NativeMax

LEMMA SettingKinds ==
    ASSUME NEW e \in Entities
    PROVE  SettingKind(e) \in {"level", "thermostat"}
BY DEF SettingKind, KindOf

(* What the daemon tells is data. *)
LEMMA ToldTyped ==
    ASSUME TypeOK
    PROVE  Told \subseteq [ok : BOOLEAN, mode : Modes, setting : Values \cup {Unset}]
BY RangesFacts DEF TypeOK, Told, Reading, NoData, KindOf, Modes

(* A step keeps the heater within its ranges. *)
LEMMA SteppedTyped ==
    ASSUME TypeOK, NEW c
    PROVE  Stepped(c) \in [level : ValuesOf("level"), thermostat : ValuesOf("thermostat")]
BY DEF TypeOK, Stepped, KindOf

LEMMA SpendTyped ==
    ASSUME TypeOK, NEW b \in DOMAIN Bounds, Spend(b)
    PROVE  spent' \in [DOMAIN Bounds -> Nat]
BY DEF TypeOK, Spend

LEMMA TypeInit == Init => TypeOK
<1> SUFFICES ASSUME Init PROVE TypeOK
  OBVIOUS
<1> USE RangesFacts
<1>1. current \in Entities
  BY EntitiesAssumption DEF Init
<1>2. targets \in [Entities -> [level : Values \cup {Unset},
                               thermostat : ValuesOf("thermostat") \cup {Unset}]]
  <2>1. PICK level \in ValuesOf("level") \cup {Unset} :
            targets = [e \in Entities |-> IF e = current
                          THEN OnlyLevel(level) ELSE NoTargets]
    BY DEF Init
  <2> QED
    BY <2>1 DEF OnlyLevel, NoTargets
<1>3. settings[KindOf(mode)] \in Values
  BY DEF Init, KindOf
<1>4. data \in [Entities -> [ok : BOOLEAN, mode : Modes, setting : Values \cup {Unset}]]
  BY <1>3 DEF Init, Reading, NoData, Modes
<1>5. /\ pc \in [Entities -> {"idle", "adjusting", "sending", "waiting"}]
      /\ step \in [Entities -> [command : Commands, previous : Values] \cup {NoStep}]
      /\ \A e \in Entities : step[e] = NoStep <=> pc[e] \in {"idle", "adjusting"}
  BY DEF Init
<1>6. /\ auto \in BOOLEAN /\ mode \in Modes /\ late \subseteq Commands
      /\ settings \in [level : ValuesOf("level"), thermostat : ValuesOf("thermostat")]
      /\ unseen \in Nat
      /\ spent \in [DOMAIN Bounds -> Nat]
  BY DEF Init
<1> QED
  BY <1>1, <1>2, <1>4, <1>5, <1>6 DEF TypeOK

(* A real step of a task is not the absence of one. *)
LEMMA StepIsNotNoStep == NoStep \notin [command : Commands, previous : Values]
BY RangesFacts DEF NoStep, Commands

LEMMA AddedTyped ==
    ASSUME TypeOK, NEW e \in Entities, NEW orphans, Added(e, orphans)
    PROVE  /\ targets' \in [Entities -> [level : Values \cup {Unset},
                                  thermostat : ValuesOf("thermostat") \cup {Unset}]]
           /\ data' \in [Entities -> [ok : BOOLEAN, mode : Modes,
                                     setting : Values \cup {Unset}]]
<1>1. NativeValue \in Values \cup {Unset}
  BY SettingKinds, RangesFacts DEF TypeOK, NativeValue, Target
<1>2. data' \in [Entities -> [ok : BOOLEAN, mode : Modes, setting : Values \cup {Unset}]]
  <2>1. PICK told \in Told :
            data' = [x \in Entities |->
                        IF x = e THEN told
                        ELSE IF x \in orphans THEN data[x] ELSE NoData]
    BY DEF Added
  <2>2. told \in [ok : BOOLEAN, mode : Modes, setting : Values \cup {Unset}]
    BY ToldTyped
  <2>3. NoData \in [ok : BOOLEAN, mode : Modes, setting : Values \cup {Unset}]
    BY DEF NoData, Modes
  <2> QED
    BY <2>1, <2>2, <2>3 DEF TypeOK
<1>3. PICK level \in Values \cup {Unset} :
          targets' = [x \in Entities |->
                         IF x = e THEN OnlyLevel(level)
                         ELSE IF x \in orphans THEN targets[x] ELSE NoTargets]
  BY <1>1 DEF Added
<1>4. targets' \in [Entities -> [level : Values \cup {Unset},
                                thermostat : ValuesOf("thermostat") \cup {Unset}]]
  BY <1>3 DEF TypeOK, OnlyLevel, NoTargets
<1> QED
  BY <1>2, <1>4

(* An orphan whose task ends is forgotten. *)
LEMMA FinishesTyped ==
    ASSUME TypeOK, NEW e \in Entities, Finishes(e)
    PROVE  /\ targets' \in [Entities -> [level : Values \cup {Unset},
                                  thermostat : ValuesOf("thermostat") \cup {Unset}]]
           /\ data' \in [Entities -> [ok : BOOLEAN, mode : Modes,
                                     setting : Values \cup {Unset}]]
           /\ e = current => UNCHANGED <<targets, data>>
<1>1. CASE e = current
  BY <1>1 DEF TypeOK, Finishes
<1>2. CASE e # current
  <2>1. targets' = [targets EXCEPT ![e] = NoTargets] /\ data' = [data EXCEPT ![e] = NoData]
    BY <1>2 DEF Finishes
  <2>2. NoData \in [ok : BOOLEAN, mode : Modes, setting : Values \cup {Unset}]
    BY DEF NoData, Modes
  <2> QED
    BY <1>2, <2>1, <2>2 DEF TypeOK, OnlyLevel, NoTargets
<1> QED
  BY <1>1, <1>2

LEMMA TypeStep == TypeOK /\ [Next]_vars => TypeOK'
<1> SUFFICES ASSUME TypeOK, [Next]_vars PROVE TypeOK'
  OBVIOUS
<1>1. ASSUME NEW e \in Entities, AdjustEnds(e) PROVE TypeOK'
  BY <1>1, StepIsNotNoStep, FinishesTyped DEF TypeOK, AdjustEnds, Finishes, Turns, heaterVars
<1>2. ASSUME NEW e \in Entities, SendStep(e) PROVE TypeOK'
  <2>1. [command |-> StepTowards(e), previous |-> data[e].setting]
           \in [command : Commands, previous : Values]
    BY <1>2 DEF TypeOK, SendStep, NothingToDo, StepTowards, Commands
  <2> QED
    BY <1>2, <2>1, StepIsNotNoStep DEF TypeOK, SendStep, heaterVars
<1>3. ASSUME NEW e \in Entities, StepDone(e) PROVE TypeOK'
  BY <1>3, SteppedTyped DEF TypeOK, StepDone
<1>4. ASSUME NEW e \in Entities, StepFails(e) PROVE TypeOK'
  <2>1. step[e].command \in Commands
    BY <1>4 DEF TypeOK, StepFails
  <2>2. late' \subseteq Commands /\ spent' \in [DOMAIN Bounds -> Nat]
    BY <1>4, <2>1, SpendTyped DEF TypeOK, StepFails, Bounds
  <2> QED
    BY <1>4, <2>2, FinishesTyped DEF TypeOK, StepFails, Finishes, Turns
<1>5. ASSUME NEW e \in Entities, WaitEnds(e) \/ WaitExpires(e) PROVE TypeOK'
  <2>1. unseen' \in Nat /\ spent' \in [DOMAIN Bounds -> Nat]
    BY <1>5, SpendTyped DEF TypeOK, WaitEnds, WaitExpires, Bounds
  <2> QED
    BY <1>5, <2>1 DEF TypeOK, WaitEnds, WaitExpires, Turns, heaterVars
<1>6. ASSUME NEW e \in Entities, Refresh(e) PROVE TypeOK'
  <2>1. data' \in [Entities -> [ok : BOOLEAN, mode : Modes, setting : Values \cup {Unset}]]
    BY <1>6, ToldTyped DEF TypeOK, Refresh
  <2> QED
    BY <1>6, <2>1 DEF TypeOK, Refresh, taskVars, heaterVars
<1>7. CASE LateStep
  BY <1>7, SteppedTyped DEF TypeOK, LateStep, taskVars
<1>8. CASE ModeChanges
  <2>1. spent' \in [DOMAIN Bounds -> Nat]
    BY <1>8, SpendTyped DEF ModeChanges, Bounds
  <2> QED
    BY <1>8, <2>1 DEF TypeOK, ModeChanges, taskVars
<1>9. CASE Listener
  BY <1>9, StepIsNotNoStep DEF TypeOK, Listener, Scheduled, heaterVars
<1>10. CASE SetNativeValue
  <2>1. spent' \in [DOMAIN Bounds -> Nat]
    BY <1>10, SpendTyped DEF SetNativeValue, Bounds
  <2>2. targets' \in [Entities -> [level : Values \cup {Unset},
                                  thermostat : ValuesOf("thermostat") \cup {Unset}]]
    BY <1>10, ClampedInRange, SettingKinds, RangesFacts DEF TypeOK, SetNativeValue
  <2> QED
    BY <1>10, <2>1, <2>2 DEF TypeOK, SetNativeValue, Scheduled, heaterVars
<1>11. CASE Restart
  <2>1. spent' \in [DOMAIN Bounds -> Nat]
    BY <1>11, SpendTyped DEF Restart, Bounds
  <2>2. late' \subseteq Commands
    BY <1>11 DEF TypeOK, Restart
  <2> QED
    BY <1>11, <2>1, <2>2, AddedTyped DEF TypeOK, Restart
<1>12. CASE Reload
  <2>1. spent' \in [DOMAIN Bounds -> Nat]
    BY <1>12, SpendTyped DEF Reload, Bounds
  <2> PICK e \in Entities : /\ Added(e, {x \in Entities : pc[x] # "idle"})
                            /\ current' = e /\ Scheduled(e)
    BY <1>12 DEF Reload
  <2> QED
    BY <1>12, <2>1, AddedTyped DEF TypeOK, Reload, Scheduled, heaterVars
<1>13. CASE UNCHANGED vars
  BY <1>13 DEF TypeOK, vars, taskVars, heaterVars
<1> QED
  BY <1>1, <1>2, <1>3, <1>4, <1>5, <1>6, <1>7, <1>8, <1>9, <1>10, <1>11, <1>12, <1>13
     DEF Next, Adjust, TypeOK

(* Every variable keeps its type: a target is a value of its own kind or,  *)
(* restored from the last state, of any kind; a command under way is one.  *)
THEOREM SettingTypeCorrect == Spec => []TypeOK
BY TypeInit, TypeStep, PTL DEF Spec

-----------------------------------------------------------------------------
(* The pace. *)

(* What disturbs the task stays counted. *)
LEMMA SpendGrows ==
    ASSUME TypeOK, NEW b \in DOMAIN Bounds, Spend(b), Undisturbed'
    PROVE  Undisturbed /\ b \in {"targets", "blind"}
BY DEF TypeOK, Spend, Undisturbed, Bounds

LEMMA PacedInit == Init => PacedInv
<1> SUFFICES ASSUME Init PROVE Paced
  BY DEF PacedInv, Paced
<1>1. data[current] = Reading(TRUE) /\ pc[current] = "idle" /\ unseen = 0
  BY EntitiesAssumption DEF Init
<1>2. Now \in Nat
  BY RangesFacts DEF Init, Now, KindOf
<1>3. PacedTask(current)
  BY <1>1, <1>2 DEF PacedTask, Seen, Now, Reading
<1> QED
  BY <1>1, <1>3 DEF Init, Paced

(* A frame shows the heater as it is, or nothing. *)
LEMMA ToldNow ==
    ASSUME TypeOK, NEW told \in Told
    PROVE  /\ told.setting \in {Now, Unset}
           /\ told.setting = Unset \/ told.mode = mode
BY DEF Told, Reading, NoData, Now

(* What the leaves of the step need of the values. *)
LEMMA ValuesKnown ==
    ASSUME TypeOK
    PROVE  /\ unseen \in Nat /\ current \in Entities
           /\ Now \in Nat
           /\ Seen(current) \in Nat \cup {Unset}
           /\ Seen(current) # Unset => Seen(current) \in Nat
           /\ pc[current] \in {"sending", "waiting"} =>
                 step[current].previous \in Nat /\ step[current].command \in Commands
<1> USE RangesFacts
<1>1. Now \in Nat
  BY DEF TypeOK, Now, KindOf
<1>2. Seen(current) \in Values \cup {Unset}
  BY DEF TypeOK, Seen
<1>3. pc[current] \in {"sending", "waiting"} =>
          step[current] \in [command : Commands, previous : Values]
  BY DEF TypeOK
<1> QED
  BY <1>1, <1>2, <1>3 DEF TypeOK

(* Data that is not old shows the heater, or is not acted on. *)
LEMMA NotBlind ==
    ASSUME ~Blind(current), data[current].ok
    PROVE  Seen(current) = Now
BY DEF Blind, Seen, Now, Reading

(* Nothing but the one task's own steps changes the state. *)
LEMMA OneTask ==
    ASSUME Paced, NEW e \in Entities, pc[e] # "idle"
    PROVE  e = current
BY DEF Paced

LEMMA SendPaced ==
    ASSUME TypeOK, PacedTask(current), SendStep(current)
    PROVE  /\ PacedTask(current)'
           /\ data[current].ok /\ Seen(current) # Unset
           /\ Target(current) # Unset /\ Seen(current) # Target(current)
           /\ step'[current] = [command |-> StepTowards(current), previous |-> Seen(current)]
           /\ Now - Seen(current) \in -unseen' .. unseen'
<1>1. /\ data[current].ok /\ Seen(current) # Unset
      /\ Target(current) # Unset /\ Seen(current) # Target(current)
      /\ step'[current] = [command |-> StepTowards(current), previous |-> Seen(current)]
      /\ pc'[current] = "sending" /\ pc[current] = "adjusting"
  BY DEF SendStep, NothingToDo, CanAdjust, Seen, TypeOK
<1>2. Seen(current) \in Nat /\ Now \in Nat /\ unseen \in Nat
  BY <1>1, ValuesKnown
<1>3. Now - Seen(current) \in -unseen .. unseen
  BY <1>1 DEF PacedTask
<1>4. Now - Seen(current) \in -unseen' .. unseen'
  <2>1. CASE Blind(current)
    BY <1>3, <2>1 DEF SendStep
  <2>2. CASE ~Blind(current)
    <3>1. Seen(current) = Now /\ unseen' = 0
      BY <1>1, <2>2, NotBlind DEF SendStep
    <3> QED
      BY <1>2, <3>1
  <2> QED
    BY <2>1, <2>2
<1>5. Now' = Now /\ Seen(current)' = Seen(current) /\ UNCHANGED <<current, data, mode>>
  BY DEF SendStep, Now, Seen, heaterVars
<1>6. PacedTask(current)'
  BY <1>1, <1>4, <1>5 DEF PacedTask
<1> QED
  BY <1>1, <1>4, <1>6

(* The heater takes the step, or does not. *)
LEMMA DoneMoves ==
    ASSUME TypeOK, PacedTask(current), StepDone(current)
    PROVE  /\ Now' \in {Now, Now + Direction(step[current].command)}
           /\ settings' # settings => Now' = Now + Direction(step[current].command)
           /\ Ahead(current) \in -unseen .. unseen
           /\ Ahead(current)' \in -unseen .. unseen + 1
<1>1. pc[current] = "sending" /\ Now - step[current].previous \in -unseen .. unseen
  BY DEF StepDone, PacedTask
<1>2. /\ step[current].previous \in Nat /\ step[current].command \in Commands
      /\ Now \in Nat /\ unseen \in Nat
  BY <1>1, ValuesKnown
<1>3. /\ Now' \in {Now, Now + Direction(step[current].command)}
      /\ settings' # settings => Now' = Now + Direction(step[current].command)
  BY DEF StepDone, Now, Stepped, TypeOK, KindOf
<1>4. /\ Ahead(current) = (Now - step[current].previous) * Direction(step[current].command)
      /\ Ahead(current)' = (Now' - step[current].previous) * Direction(step[current].command)
  BY DEF StepDone, Ahead, Now
<1> DEFINE p == step[current].previous
           d == Direction(step[current].command)
           n == Now'
<1>5. d \in {1, -1}
  BY DEF Direction
<1>6. n \in {Now, Now + d} /\ n \in Int
  BY <1>2, <1>3, <1>5
<1> HIDE DEF p, d, n
<1>7. (Now - p) * d \in -unseen .. unseen /\ (n - p) * d \in -unseen .. unseen + 1
  <2>1. p \in Nat /\ Now - p \in -unseen .. unseen
    BY <1>1, <1>2 DEF p
  <2>2. CASE d = 1
    BY <1>2, <1>6, <2>1, <2>2
  <2>3. CASE d = -1
    BY <1>2, <1>6, <2>1, <2>3
  <2> QED
    BY <1>5, <2>2, <2>3
<1> QED
  BY <1>3, <1>4, <1>7 DEF p, d, n

LEMMA DonePaced ==
    ASSUME TypeOK, PacedTask(current), StepDone(current)
    PROVE  PacedTask(current)'
<1>1. /\ pc[current] = "sending" /\ pc'[current] = "waiting"
      /\ UNCHANGED <<current, data, mode, step, unseen>>
  BY DEF StepDone, TypeOK
<1>2. Ahead(current)' \in -unseen .. unseen + 1
  BY DoneMoves
<1>3. ASSUME Seen(current) \notin {step[current].previous, Now', Unset}
      PROVE  unseen > 0 /\ Now' - Seen(current) \in -1 .. 1
  <2>1. /\ Seen(current) = Now /\ Now # step[current].previous
        /\ Now - step[current].previous \in -unseen .. unseen
    BY <1>1, <1>3 DEF PacedTask
  <2>2. /\ Now \in Nat /\ unseen \in Nat /\ step[current].previous \in Nat
    BY <1>1, ValuesKnown
  <2>3. Now' \in {Now, Now + 1, Now - 1}
    BY <2>2, DoneMoves DEF Direction
  <2> QED
    BY <2>1, <2>2, <2>3
<1>4. Seen(current)' = Seen(current)
  BY <1>1 DEF Seen
<1> QED
  BY <1>1, <1>2, <1>3, <1>4 DEF PacedTask

LEMMA WaitPaced ==
    ASSUME TypeOK, PacedTask(current), WaitEnds(current) \/ WaitExpires(current)
    PROVE  PacedTask(current)'
<1>1. /\ pc[current] = "waiting" /\ pc'[current] = "adjusting"
      /\ UNCHANGED <<current, data, mode, settings>>
  BY DEF WaitEnds, WaitExpires, Turns, TypeOK, heaterVars
<1>2. /\ step[current].previous \in Nat /\ step[current].command \in Commands
      /\ Now \in Nat /\ unseen \in Nat
  BY <1>1, ValuesKnown
<1>3. Now' = Now /\ Seen(current)' = Seen(current)
  BY <1>1 DEF Now, Seen
<1>4. unseen' = IF Blind(current) /\ ~Moved(current) THEN unseen + 1 ELSE unseen
  BY DEF WaitEnds, WaitExpires
<1>5. ASSUME data[current].ok, Seen(current) # Unset
      PROVE  Now - Seen(current) \in -unseen' .. unseen'
  <2>1. Seen(current) \in Nat
    BY <1>5, ValuesKnown
  <2>2. CASE ~Blind(current)
    BY <1>2, <1>4, <1>5, <2>2, NotBlind
  <2>3. CASE Blind(current) /\ Seen(current) = Now
    BY <1>2, <1>4, <2>3
  <2>4. CASE /\ Blind(current) /\ Seen(current) # Now
             /\ Seen(current) # step[current].previous
    <3>1. unseen > 0 /\ Now - Seen(current) \in -1 .. 1
      BY <1>1, <1>5, <2>4 DEF PacedTask
    <3> QED
      BY <1>2, <1>4, <2>1, <3>1
  <2>5. CASE Blind(current) /\ Seen(current) = step[current].previous
    <3>1. ~Moved(current)
      <4>1. Moved(current)
               => (Seen(current) - step[current].previous)
                      * Direction(step[current].command) > 0
        BY DEF Moved, Seen
      <4>2. (Seen(current) - step[current].previous)
                      * Direction(step[current].command) = 0
        BY <1>2, <2>5 DEF Direction
      <4> QED
        BY <4>1, <4>2
    <3>2. unseen' = unseen + 1
      BY <1>4, <2>5, <3>1
    <3>3. (Now - Seen(current)) * Direction(step[current].command) \in -unseen .. unseen + 1
      BY <1>1, <2>5 DEF PacedTask, Ahead, Now
    <3>4. Direction(step[current].command) \in {1, -1}
      BY DEF Direction
    <3> QED
      BY <1>2, <2>1, <3>2, <3>3, <3>4
  <2> QED
    BY <2>2, <2>3, <2>4, <2>5
<1> QED
  BY <1>1, <1>3, <1>5 DEF PacedTask

LEMMA PacedStep ==
    ASSUME TypeOK, PacedInv, [Next]_vars, Undisturbed'
    PROVE  Undisturbed /\ Paced'
<1> DEFINE Goal == Undisturbed /\ Paced'
<1>k. ASSUME Undisturbed PROVE Paced /\ PacedTask(current)
  BY <1>k DEF PacedInv, Paced
<1>1. ASSUME NEW e \in Entities, AdjustEnds(e) PROVE Goal
  <2>1. Undisturbed
    BY <1>1 DEF AdjustEnds, Undisturbed
  <2>2. e = current
    BY <1>1, <1>k, <2>1, OneTask DEF AdjustEnds
  <2>3. /\ pc'[current] = "idle" /\ pc[current] = "adjusting"
        /\ \A x \in Entities \ {current} : pc'[x] = pc[x]
        /\ UNCHANGED <<current, data, mode, settings, late, unseen>>
    BY <1>1, <2>2 DEF AdjustEnds, Finishes, Turns, TypeOK, heaterVars
  <2>4. PacedTask(current)'
    BY <1>k, <2>1, <2>3 DEF PacedTask, Seen, Now
  <2> QED
    BY <1>k, <2>1, <2>3, <2>4 DEF Paced
<1>2. ASSUME NEW e \in Entities, SendStep(e) PROVE Goal
  <2>1. Undisturbed
    BY <1>2 DEF SendStep, Undisturbed
  <2>2. e = current
    BY <1>2, <1>k, <2>1, OneTask DEF SendStep
  <2>3. /\ \A x \in Entities \ {current} : pc'[x] = pc[x]
        /\ UNCHANGED <<current, late>>
    BY <1>2, <2>2 DEF SendStep, TypeOK, heaterVars
  <2> QED
    BY <1>2, <1>k, <2>1, <2>2, <2>3, SendPaced DEF Paced
<1>3. ASSUME NEW e \in Entities, StepDone(e) PROVE Goal
  <2>1. Undisturbed
    BY <1>3 DEF StepDone, Undisturbed
  <2>2. e = current
    BY <1>3, <1>k, <2>1, OneTask DEF StepDone
  <2>3. /\ \A x \in Entities \ {current} : pc'[x] = pc[x]
        /\ UNCHANGED <<current, late>>
    BY <1>3, <2>2 DEF StepDone, TypeOK
  <2> QED
    BY <1>3, <1>k, <2>1, <2>2, <2>3, DonePaced DEF Paced
<1>4. ASSUME NEW e \in Entities, StepFails(e) PROVE Goal
  <2>1. Undisturbed /\ UNCHANGED <<late, spent>>
    BY <1>4, SpendGrows DEF StepFails, Undisturbed, Bounds
  <2>2. e = current
    BY <1>4, <1>k, <2>1, OneTask DEF StepFails
  <2>3. /\ pc'[current] = "idle" /\ pc[current] = "sending"
        /\ \A x \in Entities \ {current} : pc'[x] = pc[x]
        /\ UNCHANGED <<current, data, mode, settings, unseen>>
    BY <1>4, <2>2 DEF StepFails, Finishes, Turns, TypeOK
  <2>4. Seen(current) # Unset => Now - Seen(current) \in -unseen .. unseen
    BY <1>k, <2>1, <2>3, ValuesKnown DEF PacedTask
  <2>5. PacedTask(current)'
    BY <1>k, <2>1, <2>3, <2>4 DEF PacedTask, Seen, Now
  <2> QED
    BY <1>k, <2>1, <2>3, <2>5 DEF Paced
<1>5. ASSUME NEW e \in Entities, WaitEnds(e) \/ WaitExpires(e) PROVE Goal
  <2>1. Undisturbed
    <3>1. spent' = spent \/ Spend("blind")
      BY <1>5 DEF WaitEnds, WaitExpires
    <3> QED
      BY <3>1, SpendGrows DEF Undisturbed, Bounds
  <2>2. e = current
    BY <1>5, <1>k, <2>1, OneTask DEF WaitEnds, WaitExpires
  <2>3. /\ \A x \in Entities \ {current} : pc'[x] = pc[x]
        /\ UNCHANGED <<current, late>>
    BY <1>5, <2>2 DEF WaitEnds, WaitExpires, Turns, TypeOK, heaterVars
  <2> QED
    BY <1>5, <1>k, <2>1, <2>2, <2>3, WaitPaced DEF Paced
<1>6. CASE Refresh(current)
  <2>1. /\ Undisturbed
        /\ UNCHANGED <<current, pc, step, mode, settings, late, unseen>>
    BY <1>6 DEF Refresh, Undisturbed, taskVars, heaterVars
  <2>2. /\ Seen(current)' \in {Now, Unset}
        /\ Seen(current)' = Unset \/ data'[current].mode = mode
    BY <1>6, ToldNow DEF Refresh, Seen, TypeOK
  <2>3. Now' = Now /\ Now - Now = 0 /\ 0 \in -unseen .. unseen /\ Ahead(current)' = Ahead(current)
    BY <2>1, ValuesKnown DEF Now, Ahead
  <2>4. PacedTask(current)'
    BY <1>k, <2>1, <2>2, <2>3 DEF PacedTask
  <2> QED
    BY <1>k, <2>1, <2>4 DEF Paced
<1>7. CASE LateStep
  BY <1>7, <1>k DEF LateStep, Paced, Undisturbed
<1>8. CASE ModeChanges
  BY <1>8, SpendGrows DEF ModeChanges, Bounds
<1>9. CASE Listener \/ SetNativeValue
  <2>1. Undisturbed
    BY <1>9, SpendGrows DEF Listener, SetNativeValue, Undisturbed, Bounds
  <2>2. /\ pc'[current] = IF pc[current] = "idle" THEN "adjusting" ELSE pc[current]
        /\ \A x \in Entities \ {current} : pc'[x] = pc[x]
        /\ UNCHANGED <<current, data, step, mode, settings, late, unseen>>
    BY <1>9 DEF Listener, SetNativeValue, Scheduled, TypeOK, heaterVars
  <2>3. PacedTask(current)'
    BY <1>k, <2>1, <2>2 DEF PacedTask, Seen, Now, Ahead
  <2> QED
    BY <1>k, <2>1, <2>2, <2>3 DEF Paced
<1>11. CASE Restart
  BY <1>11, SpendGrows DEF Restart, Bounds
<1>12. CASE Reload
  BY <1>12, SpendGrows DEF Reload, Bounds
<1>13. CASE UNCHANGED vars
  <2>1. Undisturbed
    BY <1>13 DEF vars, Undisturbed
  <2>2. PacedTask(current)'
    BY <1>13, <1>k, <2>1 DEF vars, taskVars, heaterVars, PacedTask, Seen, Now, Ahead
  <2> QED
    BY <1>13, <1>k, <2>1, <2>2 DEF vars, taskVars, heaterVars, Paced
<1> QED
  BY <1>1, <1>2, <1>3, <1>4, <1>5, <1>6, <1>7, <1>8, <1>9, <1>11, <1>12, <1>13
     DEF Next, Adjust, TypeOK

(* So long as the task is undisturbed, the heater is further than the step *)
(* under way from what this step was decided on only by a step for each    *)
(* wait that ended on old data, for any ranges and bounds, and with the    *)
(* target changed any number of times.                                     *)
THEOREM PacedStepsHolds == Spec => []PacedSteps
<1>1. TypeOK /\ PacedInv /\ [Next]_vars => PacedInv'
  BY PacedStep DEF PacedInv, Paced
<1>2. TypeOK /\ PacedInv => PacedSteps
  <2> SUFFICES ASSUME TypeOK, PacedInv, Undisturbed, NEW e \in Entities,
                      pc[e] \in {"sending", "waiting"}
               PROVE  Ahead(e) \in -unseen .. unseen + 1
    BY DEF PacedSteps
  <2>1. e = current /\ PacedTask(current)
    BY DEF PacedInv, Paced
  <2>2. CASE pc[current] = "waiting"
    BY <2>1, <2>2 DEF PacedTask
  <2>3. CASE pc[current] = "sending"
    <3>1. Now - step[current].previous \in -unseen .. unseen
      BY <2>1, <2>3 DEF PacedTask
    <3>2. Ahead(e) = (Now - step[current].previous) * Direction(step[current].command)
      BY <2>1 DEF Ahead, Now
    <3>3. Direction(step[current].command) \in {1, -1}
      BY DEF Direction
    <3>4. /\ Now \in Nat /\ unseen \in Nat /\ step[current].previous \in Nat
      BY <2>3, ValuesKnown
    <3> QED
      BY <3>1, <3>2, <3>3, <3>4
  <2> QED
    BY <2>1, <2>2, <2>3
<1> QED
  BY PacedInit, SettingTypeCorrect, <1>1, <1>2, PTL DEF Spec

-----------------------------------------------------------------------------
(* The direction. *)

Between(a, b, t) == \/ a < b /\ b <= t
                    \/ t <= b /\ b < a

(* A step that is decided on is one from the setting that is seen towards  *)
(* the target, and not beyond it; and the heater is no further from what   *)
(* is seen than there were waits that ended on old data.                   *)
DecidedTowards ==
    \A e \in Entities :
        pc[e] = "adjusting" /\ pc'[e] = "sending" =>
            /\ e = current
            /\ Wanted(e) # Unset
            /\ Between(Seen(e), Seen(e) + Direction(step'[e].command), Wanted(e))
            /\ Now - Seen(e) \in -unseen' .. unseen'

(* The heater moves as the step under way says, from where it was seen or  *)
(* as far from there as the waits that ended on old data allow.            *)
MovesAsDecided ==
    settings' # settings =>
        /\ pc[current] = "sending"
        /\ Ahead(current) \in -unseen .. unseen
        /\ Now' = Now + Direction(step[current].command)

LEMMA SendTowards ==
    ASSUME TypeOK, Paced, NEW e \in Entities, SendStep(e)
    PROVE  /\ e = current
           /\ Wanted(e) # Unset
           /\ Between(Seen(e), Seen(e) + Direction(step'[e].command), Wanted(e))
           /\ Now - Seen(e) \in -unseen' .. unseen'
<1> USE RangesFacts
<1>1. e = current /\ PacedTask(current)
  BY DEF SendStep, Paced
<1>2. /\ Seen(e) # Unset
      /\ Target(e) # Unset /\ Seen(e) # Target(e)
      /\ step'[e] = [command |-> StepTowards(e), previous |-> Seen(e)]
      /\ Now - Seen(e) \in -unseen' .. unseen'
  BY <1>1, SendPaced
<1>3. data[e].mode = mode
  BY <1>1, <1>2 DEF PacedTask
<1>4. Wanted(e) = Target(e)
  BY <1>3 DEF Wanted, Target, SettingKind
<1>5. Seen(e) \in Nat /\ Target(e) \in Nat
  <2>1. Target(e) \in Values
    BY <1>2, SettingKinds DEF TypeOK, Target
  <2> QED
    BY <1>1, <1>2, <2>1, ValuesKnown
<1>6. step'[e].command = IF Seen(e) < Target(e) THEN "up" ELSE "down"
  BY <1>2 DEF StepTowards, Seen
<1>7. Between(Seen(e), Seen(e) + Direction(step'[e].command), Target(e))
  BY <1>2, <1>5, <1>6 DEF Between, Direction
<1> QED
  BY <1>1, <1>2, <1>4, <1>7

LEMMA StepMoves ==
    ASSUME TypeOK, Paced, NEW e \in Entities, StepDone(e), settings' # settings
    PROVE  /\ pc[current] = "sending"
           /\ Ahead(current) \in -unseen .. unseen
           /\ Now' = Now + Direction(step[current].command)
<1>1. e = current /\ pc[current] = "sending" /\ PacedTask(current)
  BY DEF StepDone, Paced
<1> QED
  BY <1>1, DoneMoves

(* So long as nothing disturbs the loops, every step is decided towards    *)
(* the target and the heater moves as decided.  Refused and ignored        *)
(* commands, and data that is late by less than ADJUST_RETRY_DELAY, do not *)
(* turn the heater away from its target or carry it past; each wait that   *)
(* ended on older data carries it past by one step at most.  This is why   *)
(* SettingConverges only needs that commands sometimes succeed and that    *)
(* such waits come to an end.                                              *)
THEOREM StepsTowardsTarget ==
    Spec => [][Undisturbed' => DecidedTowards /\ MovesAsDecided]_vars
<1>1. TypeOK /\ PacedInv /\ [Next]_vars => PacedInv'
  BY PacedStep DEF PacedInv, Paced
<1>2. TypeOK /\ PacedInv /\ [Next]_vars
         => [Undisturbed' => DecidedTowards /\ MovesAsDecided]_vars
  <2> SUFFICES ASSUME TypeOK, PacedInv, Next, Undisturbed'
               PROVE  DecidedTowards /\ MovesAsDecided
    OBVIOUS
  <2>1. Undisturbed
    BY PacedStep
  <2>2. Paced
    BY <2>1 DEF PacedInv
  <2>3. DecidedTowards
    <3> SUFFICES ASSUME NEW e \in Entities, pc[e] = "adjusting", pc'[e] = "sending"
                 PROVE  SendStep(e)
      BY <2>1, <2>2, SendTowards DEF DecidedTowards
    <3> QED
      BY DEF Next, Adjust, AdjustEnds, SendStep, StepDone, StepFails, WaitEnds,
             WaitExpires, Finishes, Turns, Refresh, LateStep, ModeChanges, Listener,
             SetNativeValue, Scheduled, Restart, Reload, taskVars, TypeOK
  <2>4. MovesAsDecided
    <3> SUFFICES ASSUME settings' # settings
                 PROVE  \E e \in Entities : StepDone(e)
      BY <2>2, StepMoves, Zenon DEF MovesAsDecided
    <3>1. ~LateStep
      BY <2>2 DEF Paced, LateStep
    <3> QED
      BY <3>1 DEF Next, Adjust, AdjustEnds, SendStep, StepFails, WaitEnds, WaitExpires,
             Refresh, ModeChanges, Listener, SetNativeValue, Restart, Reload, heaterVars
  <2> QED
    BY <2>3, <2>4
<1> QED
  BY PacedInit, SettingTypeCorrect, <1>1, <1>2, PTL DEF Spec

-----------------------------------------------------------------------------
(* The target of a level. *)

(* What an entity restores would be a level, or nothing. *)
RestoresLevel == NativeValue \in ValuesOf("level") \cup {Unset}

LEMMA LevelTargetStep ==
    ASSUME TypeOK, LevelTargetInRange, [Next]_vars, (Restart \/ Reload) => RestoresLevel
    PROVE  LevelTargetInRange'
<1>1. CASE UNCHANGED targets
  BY <1>1 DEF LevelTargetInRange
<1>2. CASE SetNativeValue
  <2>1. PICK v \in Values :
            targets' = [targets EXCEPT ![current][SettingKind(current)] = Clamped(v)]
    BY <1>2 DEF SetNativeValue
  <2>2. CASE SettingKind(current) = "level"
    <3>1. Clamped(v) \in ValuesOf("level")
      BY <2>2, ClampedInRange
    <3> QED
      BY <2>1, <2>2, <3>1 DEF TypeOK, LevelTargetInRange
  <2>3. CASE SettingKind(current) = "thermostat"
    BY <2>1, <2>3 DEF TypeOK, LevelTargetInRange
  <2> QED
    BY <2>2, <2>3, SettingKinds DEF TypeOK
<1>3. ASSUME NEW e \in Entities, NEW orphans, Added(e, orphans), RestoresLevel
      PROVE  LevelTargetInRange'
  <2>1. PICK level \in ValuesOf("level") \cup {Unset} :
            targets' = [x \in Entities |->
                           IF x = e THEN OnlyLevel(level)
                           ELSE IF x \in orphans THEN targets[x] ELSE NoTargets]
    BY <1>3 DEF Added, RestoresLevel
  <2> QED
    BY <2>1 DEF LevelTargetInRange, OnlyLevel, NoTargets
<1>4. CASE Restart
  <2>1. current \in Entities /\ Added(current, {})
    BY <1>4 DEF Restart, TypeOK
  <2> QED
    BY <1>3, <1>4, <2>1
<1>5. CASE Reload
  <2>1. \E e \in Entities : Added(e, {x \in Entities : pc[x] # "idle"})
    BY <1>5 DEF Reload
  <2> QED
    BY <1>3, <1>5, <2>1
<1>6. ASSUME NEW e \in Entities, Adjust(e) PROVE LevelTargetInRange'
  <2>1. UNCHANGED targets \/ targets' = [targets EXCEPT ![e] = NoTargets]
    BY <1>6 DEF Adjust, AdjustEnds, SendStep, StepDone, StepFails, Finishes,
                WaitEnds, WaitExpires
  <2>2. CASE targets' = [targets EXCEPT ![e] = NoTargets]
    BY <2>2 DEF TypeOK, LevelTargetInRange, OnlyLevel, NoTargets
  <2> QED
    BY <1>1, <2>1, <2>2
<1>7. CASE Refresh(current) \/ LateStep \/ ModeChanges \/ Listener
  BY <1>1, <1>7 DEF Refresh, LateStep, ModeChanges, Listener
<1>8. CASE UNCHANGED vars
  BY <1>1, <1>8 DEF vars
<1> QED
  BY <1>1, <1>2, <1>4, <1>5, <1>6, <1>7, <1>8 DEF Next

(* Only a restart or a reload takes the target of a level out of its       *)
(* range, and only from an entity whose value then is not a level: the     *)
(* clamp of async_set_native_value, and every step, keep it in.            *)
THEOREM LevelTargetLost ==
    Spec => [][LevelTargetInRange /\ ~LevelTargetInRange'
                   => (Restart \/ Reload) /\ ~RestoresLevel]_vars
<1>1. TypeOK /\ [Next]_vars
         => [LevelTargetInRange /\ ~LevelTargetInRange'
                => (Restart \/ Reload) /\ ~RestoresLevel]_vars
  <2> SUFFICES ASSUME TypeOK, [Next]_vars, LevelTargetInRange, ~LevelTargetInRange'
               PROVE  (Restart \/ Reload) /\ ~RestoresLevel
    BY Zenon
  <2>1. (Restart \/ Reload) /\ RestoresLevel => LevelTargetInRange'
    BY LevelTargetStep, Zenon
  <2>2. Restart \/ Reload
    BY LevelTargetStep, Zenon
  <2> QED
    BY <2>1, <2>2, Zenon
<1> QED
  BY <1>1, SettingTypeCorrect, PTL DEF Spec

LEMMA SpendCounts ==
    ASSUME TypeOK, NEW b \in DOMAIN Bounds, Spend(b)
    PROVE  spent'[b] # 0 /\ \A c \in DOMAIN Bounds \ {b} : spent'[c] = spent[c]
BY DEF TypeOK, Spend, Bounds

(* The restarts and the reloads stay counted. *)
LEMMA NothingRestored ==
    ASSUME TypeOK, [Next]_vars, spent'["restarts"] = 0, spent'["reloads"] = 0
    PROVE  spent["restarts"] = 0 /\ spent["reloads"] = 0
<1>1. \A b \in DOMAIN Bounds :
          Spend(b) => spent["restarts"] = 0 /\ spent["reloads"] = 0
  BY SpendCounts DEF Bounds
<1>2. spent' = spent \/ \E b \in DOMAIN Bounds : Spend(b)
  <2>1. ASSUME NEW e \in Entities, StepFails(e)
        PROVE  spent' = spent \/ Spend("timeouts")
    BY <2>1 DEF StepFails
  <2>2. ASSUME NEW e \in Entities, Adjust(e), ~StepFails(e)
        PROVE  spent' = spent \/ Spend("blind")
    BY <2>2 DEF Adjust, AdjustEnds, SendStep, StepDone, WaitEnds, WaitExpires
  <2>3. Refresh(current) \/ LateStep \/ Listener \/ UNCHANGED vars => spent' = spent
    BY DEF Refresh, LateStep, Listener, vars
  <2>4. /\ ModeChanges => Spend("modes")
        /\ SetNativeValue => Spend("targets")
        /\ Restart => Spend("restarts")
        /\ Reload => Spend("reloads")
    BY DEF ModeChanges, SetNativeValue, Restart, Reload
  <2>5. {"targets", "modes", "timeouts", "restarts", "reloads", "blind"} \subseteq DOMAIN Bounds
    BY DEF Bounds
  <2> QED
    BY <2>1, <2>2, <2>3, <2>4, <2>5 DEF Next
<1> QED
  BY <1>1, <1>2, Zenon

(* Without a restart and without a reload, whatever else is done, delayed  *)
(* or given up on and however often the heater's mode and Auto change, the *)
(* target of a level is a level.                                           *)
THEOREM LevelTargetKept ==
    Spec => [](spent["restarts"] = 0 /\ spent["reloads"] = 0 => LevelTargetInRange)
<1> DEFINE Restored == ~(spent["restarts"] = 0 /\ spent["reloads"] = 0)
           Kept == ~Restored => LevelTargetInRange
<1>1. Init => LevelTargetInRange
  <2> SUFFICES ASSUME Init, NEW e \in Entities
               PROVE  targets[e]["level"] \in ValuesOf("level") \cup {Unset}
    BY DEF LevelTargetInRange
  <2>1. PICK level \in ValuesOf("level") \cup {Unset} :
            targets = [x \in Entities |-> IF x = current
                          THEN OnlyLevel(level) ELSE NoTargets]
    BY DEF Init
  <2>2. targets[e]["level"] \in {level, Unset}
    BY <2>1 DEF OnlyLevel, NoTargets
  <2> QED
    BY <2>2
<1>2. TypeOK /\ Kept /\ [Next]_vars => Kept'
  <2> SUFFICES ASSUME TypeOK, Kept, [Next]_vars, ~Restored'
               PROVE  LevelTargetInRange'
    OBVIOUS
  <2>1. ~Restart /\ ~Reload
    BY SpendCounts DEF Restart, Reload, Bounds
  <2>2. ~Restored
    BY NothingRestored
  <2> QED
    BY <2>1, <2>2, LevelTargetStep
<1> QED
  BY <1>1, <1>2, SettingTypeCorrect, PTL DEF Spec
=============================================================================
