-------------------------- MODULE RequestedSetting --------------------------
(***************************************************************************)
(* The requested setting of the Home Assistant integration (number.py): a  *)
(* target per kind of setting, and one task that steps the heater towards  *)
(* it with "up" and "down", a step at a time.                              *)
(*                                                                         *)
(* The daemon, the coordinator and the heater are what the task can tell:  *)
(* commands that take effect, at once or after the client gave up on them, *)
(* and data that shows the heater as it was some time ago.                 *)
(*                                                                         *)
(* A reload of the config entry makes a new entity, with a client and a    *)
(* coordinator of its own.  The task of the old one is not cancelled.      *)
(*                                                                         *)
(* pc of an entity's task:                                                 *)
(*   idle       no task, or a finished one                                 *)
(*   adjusting  at the head of the loop of _async_adjust_loop              *)
(*   sending    awaits client.command(command)                             *)
(*   waiting    _async_wait_for_setting_change                             *)
(***************************************************************************)
EXTENDS Integers

CONSTANTS Entities,        \* HCaloryRequestedSettingNumber objects
          GearMin, GearMax,              \* levels 1 .. 6
          ThermostatMin, ThermostatMax,  \* degrees 15 .. 28
          Unset,           \* None
          MaxTargets,      \* bound: calls of async_set_native_value
          MaxModeChanges,  \* bound: changes of the heater's mode or of Auto
          MaxTimeouts,     \* bound: commands the client gives up on
          MaxRestarts,     \* bound: restarts of Home Assistant
          MaxReloads,      \* bound: reloads of the config entry
          MaxBlindWaits,   \* bound: waits that run out on old data that is "ok"
          MaxTogether      \* bound: all of these together

ASSUME EntitiesAssumption == Entities # {}
ASSUME RangesAssumption ==
    /\ GearMin \in Nat /\ GearMax \in Nat /\ GearMin < GearMax
    /\ ThermostatMin \in Nat /\ ThermostatMax \in Nat
    /\ ThermostatMin < ThermostatMax
ASSUME UnsetAssumption == Unset \notin Nat
ASSUME BoundsAssumption ==
    {MaxTargets, MaxModeChanges, MaxTimeouts, MaxRestarts, MaxReloads, MaxBlindWaits,
     MaxTogether} \subseteq Nat

Commands == {"up", "down"}

(* The locals of a task that has decided on no step. *)
NoStep == [command |-> "none", previous |-> Unset]

(* The targets of a new entity, and of one that is no more. *)
OnlyLevel(level) == [level |-> level, thermostat |-> Unset]
NoTargets        == OnlyLevel(Unset)

(* Ventilation is adjusted as gear is; in every other mode nothing is. *)
Modes == {"gear", "thermostat", "other"}

(* native_min_value and native_max_value *)
NativeMin(kind) == IF kind = "thermostat" THEN ThermostatMin ELSE GearMin
NativeMax(kind) == IF kind = "thermostat" THEN ThermostatMax ELSE GearMax

ValuesOf(kind) == NativeMin(kind) .. NativeMax(kind)
Values == ValuesOf("level") \cup ValuesOf("thermostat")

(* What up and down change in a mode of the heater. *)
KindOf(m) == IF m = "thermostat" THEN "thermostat" ELSE "level"

VARIABLES
    current,   \* the entity Home Assistant has; any other is an orphan
    targets,   \* _targets
    data,      \* coordinator.data: data_status, heater_mode, heater_setting
    pc,
    step,      \* its command and previous, while it sends and waits
    auto,      \* the state of switch.hcalory_ble_auto_mode is "on"
    mode,      \* external: the heater's mode
    settings,  \* external: the heater's setting of each kind
    late,      \* external: commands the daemon has and the client gave up on
    unseen,    \* history: waits of the current entity's task, one after the
               \* other, that ended on old data without a movement in it
    spent      \* how much of each bound is used

taskVars   == <<pc, step>>
heaterVars == <<mode, settings, late>>
vars       == <<current, targets, data, taskVars, auto, heaterVars, unseen, spent>>

Bounds == [targets |-> MaxTargets, modes |-> MaxModeChanges,
           timeouts |-> MaxTimeouts, restarts |-> MaxRestarts,
           reloads |-> MaxReloads, blind |-> MaxBlindWaits]

Spend(bound) ==
    /\ spent[bound] < Bounds[bound]
    /\ spent["targets"] + spent["modes"] + spent["timeouts"] + spent["restarts"]
           + spent["reloads"] + spent["blind"] < MaxTogether
    /\ spent' = [spent EXCEPT ![bound] = @ + 1]

-----------------------------------------------------------------------------
(* _setting_kind, _target, _can_adjust; data[e].setting is _actual *)

SettingKind(e) == IF auto THEN "level" ELSE KindOf(data[e].mode)
Target(e)      == targets[e][SettingKind(e)]
CanAdjust(e)   == data[e].ok /\ data[e].mode \in {"gear", "thermostat"}

(* What the daemon tells after a poll, and when it has no frame to tell. *)
Reading(ok) == [ok |-> ok, mode |-> mode, setting |-> settings[KindOf(mode)]]
NoData      == [ok |-> FALSE, mode |-> "other", setting |-> Unset]
Told        == {Reading(TRUE), Reading(FALSE), NoData}

(* The entity would decide on data from before the heater's last change. *)
Blind(e) == e = current /\ data[e].ok /\ data[e] # Reading(TRUE)

Init ==
    /\ current = CHOOSE e \in Entities : TRUE
    /\ auto \in BOOLEAN
    /\ mode \in Modes
    /\ settings \in [level : ValuesOf("level"), thermostat : ValuesOf("thermostat")]
    /\ late = {}
    /\ \E level \in ValuesOf("level") \cup {Unset} :
          targets = [e \in Entities |-> IF e = current
                         THEN OnlyLevel(level) ELSE NoTargets]
    /\ data     = [e \in Entities |-> IF e = current THEN Reading(TRUE) ELSE NoData]
    /\ pc       = [e \in Entities |-> "idle"]
    /\ step     = [e \in Entities |-> NoStep]
    /\ unseen   = 0
    /\ spent    = [b \in DOMAIN Bounds |-> 0]

-----------------------------------------------------------------------------
(* The heater, the daemon and the coordinator. *)

Direction(command) == IF command = "up" THEN 1 ELSE -1

(* The heater moves within the range of the setting. *)
Stepped(command) ==
    LET kind == KindOf(mode)
        next == settings[kind] + Direction(command)
    IN  IF mode # "other" /\ next \in ValuesOf(kind)
        THEN [settings EXCEPT ![kind] = next] ELSE settings

(* The coordinator's data, and the frame behind it, catches up. *)
Refresh(e) ==
    /\ \E told \in Told : data' = [data EXCEPT ![e] = told]
    /\ UNCHANGED <<current, targets, taskVars, auto, heaterVars, unseen, spent>>

(* A command whose sender gave up is carried out. *)
LateStep ==
    /\ \E c \in late : settings' = Stepped(c) /\ late' = late \ {c}
    /\ UNCHANGED <<current, targets, data, taskVars, auto, mode, unseen, spent>>

(* Somebody switches the heater's mode, or Auto. *)
ModeChanges ==
    /\ Spend("modes")
    /\ \/ mode' \in Modes \ {mode} /\ UNCHANGED auto
       \/ auto' = ~auto /\ UNCHANGED mode
    /\ UNCHANGED <<current, targets, data, taskVars, settings, late, unseen>>

-----------------------------------------------------------------------------
(* _async_schedule_adjust: one task at a time. *)
Scheduled(e) ==
    /\ pc' = [pc EXCEPT ![e] = IF @ = "idle" THEN "adjusting" ELSE @]
    /\ UNCHANGED step

(* A coordinator update; an entity that is removed gets none. *)
Listener ==
    /\ pc[current] = "idle"
    /\ Scheduled(current)
    /\ UNCHANGED <<current, targets, data, auto, heaterVars, unseen, spent>>

(* Defect: no clamp.  Home Assistant itself refuses a value out of range,  *)
(* but by the range of the kind of setting that it last saw.               *)
Unclamped(v) == v

(* max(native_min_value, min(native_max_value, v)) *)
Clamped(v) ==
    LET low  == NativeMin(SettingKind(current))
        high == NativeMax(SettingKind(current))
    IN  IF v < low THEN low ELSE IF v > high THEN high ELSE v

(* async_set_native_value *)
SetNativeValue ==
    /\ Spend("targets")
    /\ \E v \in Values :
          targets' = [targets EXCEPT ![current][SettingKind(current)] = Clamped(v)]
    /\ Scheduled(current)
    /\ UNCHANGED <<current, data, auto, heaterVars, unseen>>

-----------------------------------------------------------------------------
(* _async_adjust_loop: a turn of the loop begins, or the loop ends. *)
Turns(e, to) ==
    /\ pc'   = [pc EXCEPT ![e] = to]
    /\ step' = [step EXCEPT ![e] = NoStep]

(* A task ends; an orphan without a task is nothing any more. *)
Finishes(e) ==
    /\ Turns(e, "idle")
    /\ IF e = current THEN UNCHANGED <<targets, data>>
       ELSE /\ targets' = [targets EXCEPT ![e] = NoTargets]
            /\ data'    = [data EXCEPT ![e] = NoData]

(* Defect: one step off counts as reached. *)
NothingToDoNearby(e) ==
    IF Target(e) = Unset \/ ~CanAdjust(e) \/ data[e].setting = Unset THEN TRUE
    ELSE data[e].setting \in Target(e) - 1 .. Target(e) + 1

NothingToDo(e) ==
    Target(e) = Unset \/ ~CanAdjust(e) \/ data[e].setting \in {Unset, Target(e)}

AdjustEnds(e) ==
    /\ pc[e] = "adjusting"
    /\ NothingToDo(e)
    /\ Finishes(e)
    /\ UNCHANGED <<current, auto, heaterVars, unseen, spent>>

StepTowards(e) == IF data[e].setting < Target(e) THEN "up" ELSE "down"

SendStep(e) ==
    /\ pc[e] = "adjusting"
    /\ ~NothingToDo(e)
    /\ pc'   = [pc EXCEPT ![e] = "sending"]
    /\ step' = [step EXCEPT ![e] = [command  |-> StepTowards(e),
                                    previous |-> data[e].setting]]
    /\ unseen' = IF e = current /\ ~Blind(e) THEN 0 ELSE unseen
    /\ UNCHANGED <<current, targets, data, auto, heaterVars, spent>>

(* The daemon answers OK; the heater may still ignore the packet. *)
StepDone(e) ==
    /\ pc[e] = "sending"
    /\ pc' = [pc EXCEPT ![e] = "waiting"]
    /\ settings' \in {settings, Stepped(step[e].command)}
    /\ UNCHANGED <<current, targets, data, step, auto, mode, late, unseen, spent>>

(* DaemonError: the daemon refused, or the client gave up on a command     *)
(* that is carried out later.                                              *)
StepFails(e) ==
    /\ pc[e] = "sending"
    /\ Finishes(e)
    /\ \/ UNCHANGED <<late, spent>>
       \/ Spend("timeouts") /\ late' = late \cup {step[e].command}
    /\ UNCHANGED <<current, auto, mode, settings, unseen>>

(* Defect: any frame ends the wait. *)
MovedAtOnce(e) == TRUE

(* The setting moved in the expected direction. *)
Moved(e) ==
    /\ data[e].setting # Unset
    /\ (data[e].setting - step[e].previous) * Direction(step[e].command) > 0
Reached(e) == data[e].setting # Unset /\ data[e].setting = Target(e)

WaitEnds(e) ==
    /\ pc[e] = "waiting"
    /\ Moved(e) \/ Reached(e)
    /\ Turns(e, "adjusting")
    /\ unseen' = IF Blind(e) /\ ~Moved(e) THEN unseen + 1 ELSE unseen
    /\ UNCHANGED <<current, targets, data, auto, heaterVars, spent>>

(* ADJUST_RETRY_DELAY passes, whatever the data is by then: while refreshes *)
(* fail the coordinator keeps what it had, and "ok" with it, so that a wait *)
(* that runs out blind is followed by another step.                        *)
WaitExpires(e) ==
    /\ pc[e] = "waiting"
    /\ ~Moved(e) /\ ~Reached(e)
    /\ Turns(e, "adjusting")
    /\ \/ ~Blind(e) /\ UNCHANGED <<unseen, spent>>
       \/ Blind(e) /\ unseen' = unseen + 1 /\ Spend("blind")
    /\ UNCHANGED <<current, targets, data, auto, heaterVars>>

-----------------------------------------------------------------------------
(* async_added_to_hass takes the last state, the native_value of any kind, *)
(* for the target level, and schedules an adjustment; the coordinator has  *)
(* had its first refresh.                                                  *)
NativeValue == IF Target(current) # Unset THEN Target(current) ELSE data[current].setting

Added(e, orphans) ==
    /\ \E level \in {NativeValue, Unset} :
          targets' = [x \in Entities |->
                         IF x = e THEN OnlyLevel(level)
                         ELSE IF x \in orphans THEN targets[x] ELSE NoTargets]
    /\ \E told \in Told :
          data' = [x \in Entities |->
                      IF x = e THEN told
                      ELSE IF x \in orphans THEN data[x] ELSE NoData]

(* Home Assistant restarts: every task is gone.  A command under way may   *)
(* have reached the daemon.                                                *)
Restart ==
    /\ Spend("restarts")
    /\ Added(current, {})
    /\ pc'   = [e \in Entities |-> IF e = current THEN "adjusting" ELSE "idle"]
    /\ step' = [e \in Entities |-> NoStep]
    /\ \E sent \in SUBSET {e \in Entities : pc[e] = "sending"} :
          late' = late \cup {step[e].command : e \in sent}
    /\ unseen' = 0
    /\ UNCHANGED <<current, auto, mode, settings>>

(* async_unload_entry and async_setup_entry; the task of the old entity    *)
(* goes on.                                                                *)
Reload ==
    /\ Spend("reloads")
    /\ \E e \in Entities \ {current} :
          /\ pc[e] = "idle"
          /\ current' = e
          /\ Added(e, {x \in Entities : pc[x] # "idle"})
          /\ Scheduled(e)
    /\ unseen' = 0
    /\ UNCHANGED <<auto, heaterVars>>

Adjust(e) ==
    \/ AdjustEnds(e) \/ SendStep(e)
    \/ StepDone(e) \/ StepFails(e)
    \/ WaitEnds(e) \/ WaitExpires(e)

Next ==
    \/ \E e \in Entities : Adjust(e)
    \/ Refresh(current) \/ LateStep \/ ModeChanges
    \/ Listener \/ SetNativeValue
    \/ Restart \/ Reload

Spec == Init /\ [][Next]_vars

(* The event loop runs the task; commands end, and not always badly; the   *)
(* data does not lag for ever; every refresh notifies its listeners.  What *)
(* becomes of an orphan's task is left open.                               *)
Fairness ==
    /\ WF_vars(Adjust(current))
    /\ SF_vars(StepDone(current) /\ settings' = Stepped(step[current].command))
    /\ WF_vars(data[current] # Reading(data[current].ok) /\ Refresh(current))
    /\ WF_vars(Listener)
    /\ WF_vars(LateStep)

FairSpec == Spec /\ Fairness

-----------------------------------------------------------------------------
(* Correctness. *)

(* Every variable keeps its type. *)
TypeOK ==
    /\ current \in Entities
    /\ targets \in [Entities -> [level : Values \cup {Unset},
                                 thermostat : ValuesOf("thermostat") \cup {Unset}]]
    /\ data \in [Entities -> [ok : BOOLEAN, mode : Modes, setting : Values \cup {Unset}]]
    /\ pc \in [Entities -> {"idle", "adjusting", "sending", "waiting"}]
    /\ step \in [Entities -> [command : Commands, previous : Values] \cup {NoStep}]
    /\ \A e \in Entities : step[e] = NoStep <=> pc[e] \in {"idle", "adjusting"}
    /\ auto \in BOOLEAN
    /\ mode \in Modes
    /\ settings \in [level : ValuesOf("level"), thermostat : ValuesOf("thermostat")]
    /\ late \subseteq Commands
    /\ unseen \in Nat
    /\ spent \in [DOMAIN Bounds -> Nat]

(* How far the heater is, in the direction of the step under way, from the *)
(* setting that this step was decided on.                                  *)
Ahead(e) == (settings[KindOf(mode)] - step[e].previous) * Direction(step[e].command)

(* README: "send the next step only after that movement is observed": the  *)
(* heater is never further than the step under way from the setting that   *)
(* this step was decided on.                                               *)
OneStepAhead ==
    \A e \in Entities : pc[e] \in {"sending", "waiting"} => Ahead(e) \in 0 .. 1

(* Nobody changed the mode, no command was given up on, no task outlived   *)
(* its entity or was cut off.                                              *)
Undisturbed ==
    /\ spent["modes"] = 0 /\ spent["timeouts"] = 0
    /\ spent["restarts"] = 0 /\ spent["reloads"] = 0

(* So long as the task is undisturbed, the heater is further than the step *)
(* under way from what this step was decided on only by a step for each    *)
(* wait that ended blind since a decision on current data: by none if the  *)
(* data is never later than ADJUST_RETRY_DELAY, whatever commands are      *)
(* refused or ignored and however often the target changes.                *)
PacedSteps ==
    Undisturbed =>
        \A e \in Entities : pc[e] \in {"sending", "waiting"}
            => Ahead(e) \in -unseen .. unseen + 1

(* README: "Heating power: power level 1..6": the target of a level is a   *)
(* level.                                                                  *)
LevelTargetInRange ==
    \A e \in Entities : targets[e]["level"] \in ValuesOf("level") \cup {Unset}

(* README: "Auto: heating power level 1..6": a step is sent for a target   *)
(* of the kind that up and down change in the mode at hand.                *)
StepsFitMode ==
    [][\A e \in Entities : pc[e] = "adjusting" /\ pc'[e] = "sending"
           => SettingKind(e) = KindOf(data[e].mode)]_vars

(* async_set_native_value: "Set a desired value and let the integration    *)
(* converge to it": the heater reaches the target and stays there when the *)
(* mode, Auto and the target are left alone, whatever commands fail, come  *)
(* late or are ignored on the way, and after a restart or a reload.  After *)
(* a reload the task of the old entity must have ended: nothing stops it,  *)
(* and it may step for ever on data that nobody refreshes any more.        *)
SettingConverges ==
    <>[](/\ data[current].ok /\ mode = "gear" /\ ~auto
         /\ targets[current]["level"] \in ValuesOf("level")
         /\ \A e \in Entities \ {current} : pc[e] = "idle")
        => <>[](settings["level"] = targets[current]["level"])
=============================================================================
