----------------------------- MODULE ModeControl -----------------------------
(***************************************************************************)
(* The exclusive control modes of the Home Assistant integration           *)
(* (switch.py): the Heating, Ventilation and Auto switches share           *)
(* mode_state["active_mode"], and Auto evaluates its rules whenever the    *)
(* coordinator has new data.                                               *)
(*                                                                         *)
(* Home Assistant runs service calls as tasks of one event loop: an action *)
(* is what a task does between two awaits.  A task that awaits the daemon  *)
(* has the command in cmd.  The daemon and the heater are reduced to what  *)
(* the integration can tell: what a command does, and a cached frame that  *)
(* follows the heater later.                                               *)
(*                                                                         *)
(* pc of a task:                                                           *)
(*   leaving, left        _leave_current_mode: command; sleep and refresh  *)
(*   entering, exiting    on_command, off_command of a manual mode         *)
(*   refreshing           _async_evaluate(force_refresh=True)              *)
(*   unventing, settled   its "ventilation"; sleep and refresh             *)
(*   igniting, pausing, gearing   its "start_heat"; sleep; "gear"          *)
(*   stopping             its "stop_heat"                                  *)
(*   finishing            its last refresh                                 *)
(***************************************************************************)
EXTENDS Naturals, Sequences

CONSTANTS Calls,       \* service calls that may run at the same time
          Listener,    \* the evaluation started by a coordinator update
          MaxLate      \* bound: commands at a time whose sender gave up on them

ASSUME ListenerAssumption == Listener \notin Calls
ASSUME MaxLateAssumption  == MaxLate \in Nat

Tasks    == Calls \cup {Listener}
Manual   == {"heating", "ventilation"}
Modes    == Manual \cup {"off", "auto"}
Activity == {"idle", "heating", "ventilation"}
Commands == {"start_heat", "stop_heat", "ventilation", "gear"}

(* Ambient temperature against the thresholds: at or below                 *)
(* target - hysteresis, at or above target + hysteresis, both              *)
(* (a hysteresis of 0), or neither: between them, or a value missing.      *)
Zones == {"cold", "hot", "both", "neither"}
Cold(z) == z \in {"cold", "both"}
Hot(z)  == z \in {"hot", "both"}

Data == [ok : BOOLEAN, mode : Activity, zone : Zones]

Evaluation == {"refreshing", "unventing", "settled", "igniting", "pausing",
               "gearing", "stopping", "finishing"}
Pcs        == Evaluation \cup {"idle", "leaving", "left", "entering", "exiting"}

VARIABLES
    active_mode,  \* mode_state["active_mode"]
    evaluating,   \* HCaloryAutoModeSwitch._evaluating
    data,         \* coordinator.data
    pc,
    goal,         \* the mode a service call is turning on, or "off"
    cmd,          \* the command a task awaits, or "none"
    heater,       \* external: what the heater does
    frame,        \* external: what the daemon's cached frame says it does
    late          \* external: commands the daemon has and the client gave up on

vars == <<active_mode, evaluating, data, pc, goal, cmd, heater, frame, late>>

Init ==
    /\ active_mode = "off"
    /\ evaluating  = FALSE
    /\ heater \in Activity
    /\ frame       = heater
    /\ data \in [ok : BOOLEAN, mode : {frame}, zone : Zones]
    /\ pc          = [t \in Tasks |-> "idle"]
    /\ goal        = [c \in Calls |-> "off"]
    /\ cmd         = [t \in Tasks |-> "none"]
    /\ late        = << >>

-----------------------------------------------------------------------------
(* The heater and the daemon. *)

(* What a command does; "ventilation" toggles. *)
Executed(command) ==
    CASE command = "start_heat"  /\ heater = "idle"        -> "heating"
      [] command = "stop_heat"   /\ heater = "heating"     -> "idle"
      [] command = "ventilation" /\ heater = "idle"        -> "ventilation"
      [] command = "ventilation" /\ heater = "ventilation" -> "idle"
      [] OTHER                                             -> heater

Goto(t, place) ==
    pc' = [pc EXCEPT ![t] = place] /\ cmd' = [cmd EXCEPT ![t] = "none"]

Send(t, command, place) ==
    pc' = [pc EXCEPT ![t] = place] /\ cmd' = [cmd EXCEPT ![t] = command]

(* client.command() returns to a task that stands at a place. *)
Acknowledged(t, place) ==
    pc[t] = place /\ heater' = Executed(cmd[t])

(* The daemon polls the heater. *)
DaemonPoll ==
    /\ frame' = heater
    /\ UNCHANGED <<active_mode, evaluating, data, pc, goal, cmd, heater, late>>

(* The coordinator reads the cached frame.  async_request_refresh is rate  *)
(* limited: the code behind it runs whether or not this happened.          *)
Refresh ==
    /\ \E ok \in BOOLEAN, z \in Zones :
          data' = [ok |-> ok, mode |-> frame, zone |-> z]
    /\ UNCHANGED <<active_mode, evaluating, pc, goal, cmd, heater, frame, late>>

(* The flame goes out. *)
FlameOut ==
    /\ heater = "heating"
    /\ heater' = "idle"
    /\ UNCHANGED <<active_mode, evaluating, data, pc, goal, cmd, frame, late>>

-----------------------------------------------------------------------------
(* _async_evaluate *)

(* Defect: only the regular end of an evaluation resets _evaluating. *)
DoneAfterReturn(t) ==
    /\ Goto(t, "idle")
    /\ evaluating' = (pc[t] # "finishing")

(* finally: self._evaluating = False *)
Done(t) == Goto(t, "idle") /\ evaluating' = FALSE

(* Defect: an exception leaves the evaluation without the finally. *)
AbandonedInError(t) == Goto(t, "idle") /\ UNCHANGED evaluating

(* except Exception: the evaluation is logged and ends. *)
EvaluationFailed(t) == Done(t)

(* The thresholds, on the data at hand. *)
Act(t) ==
    \/ /\ Cold(data.zone) /\ data.mode # "heating"
       /\ Send(t, "start_heat", "igniting")
       /\ evaluating' = TRUE
    \/ /\ Hot(data.zone) /\ data.mode = "heating"
       /\ Send(t, "stop_heat", "stopping")
       /\ evaluating' = TRUE
    \/ /\ ~(Cold(data.zone) /\ data.mode # "heating")
       /\ ~(Hot(data.zone) /\ data.mode = "heating")
       /\ Done(t)

(* The rules: nothing without good data, ventilation off first. *)
Decide(t) ==
    \/ ~data.ok /\ Done(t)
    \/ /\ data.ok /\ data.mode = "ventilation"
       /\ Send(t, "ventilation", "unventing")
       /\ evaluating' = TRUE
    \/ data.ok /\ data.mode # "ventilation" /\ Act(t)

(* Defect: an evaluation may start while another one runs. *)
EvaluatesAlways(mode) == mode = "auto"

Evaluates(mode) == mode = "auto" /\ ~evaluating

(* The task of a coordinator update. *)
ListenerTurn ==
    /\ pc[Listener] = "idle"
    /\ Evaluates(active_mode)
    /\ Decide(Listener)
    /\ UNCHANGED <<active_mode, data, goal, heater, frame, late>>

(* Evaluation steps behind an await that is not a command. *)
EvaluationResumes(t) ==
    /\ \/ pc[t] = "refreshing" /\ Decide(t)
       \/ pc[t] = "settled"    /\ Act(t)
       \/ pc[t] = "pausing"    /\ Send(t, "gear", "gearing") /\ UNCHANGED evaluating
       \/ pc[t] = "finishing"  /\ Done(t)
    /\ UNCHANGED <<active_mode, data, goal, heater, frame, late>>

EvaluationAcknowledged(t) ==
    /\ \/ Acknowledged(t, "unventing") /\ Goto(t, "settled")
       \/ Acknowledged(t, "igniting")  /\ Goto(t, "pausing")
       \/ Acknowledged(t, "gearing")   /\ Goto(t, "finishing")
       \/ Acknowledged(t, "stopping")  /\ Goto(t, "finishing")
    /\ UNCHANGED <<active_mode, evaluating, data, goal, frame, late>>

-----------------------------------------------------------------------------
(* Service calls. *)

(* Defect: the key of the switch is sent in place of its command. *)
OnCommandByKey(m) == m

OnCommand(m)  == IF m = "heating" THEN "start_heat" ELSE "ventilation"
OffCommand(m) == IF m = "heating" THEN "stop_heat" ELSE "ventilation"

(* _leave_current_mode of the two classes; m is the mode to be entered. *)
LeaveCommand(m) ==
    CASE m = "auto" /\ data.mode = "ventilation" -> "ventilation"
      [] active_mode = "ventilation"             -> "ventilation"
      [] OTHER                                   -> "stop_heat"

TurnsOn(c, m) == goal' = [goal EXCEPT ![c] = m]

(* Behind _leave_current_mode: a manual mode sends its command, Auto takes *)
(* over at once and evaluates, unless an evaluation is under way.          *)
Enter(c, m) ==
    \/ /\ m \in Manual
       /\ TurnsOn(c, m)
       /\ Send(c, OnCommand(m), "entering")
       /\ UNCHANGED <<active_mode, evaluating>>
    \/ /\ m = "auto"
       /\ TurnsOn(c, "off")
       /\ active_mode' = "auto"
       /\ \/ evaluating /\ Goto(c, "idle") /\ UNCHANGED evaluating
          \/ ~evaluating /\ Goto(c, "refreshing") /\ evaluating' = TRUE

(* Defect: the mode that is active is not left first. *)
TurnOnDirectly(c) ==
    /\ pc[c] = "idle"
    /\ \E m \in Modes \ {"off", active_mode} : Enter(c, m)
    /\ UNCHANGED <<data, heater, frame, late>>

TurnOn(c) ==
    /\ pc[c] = "idle"
    /\ \E m \in Modes \ {"off", active_mode} :
          \/ active_mode = "off" /\ Enter(c, m)
          \/ /\ active_mode # "off"
             /\ TurnsOn(c, m)
             /\ Send(c, LeaveCommand(m), "leaving")
             /\ UNCHANGED <<active_mode, evaluating>>
    /\ UNCHANGED <<data, heater, frame, late>>

CallAcknowledged(c) ==
    /\ \/ /\ Acknowledged(c, "leaving") /\ Goto(c, "left")
          /\ active_mode' = "off" /\ UNCHANGED goal
       \/ /\ Acknowledged(c, "entering") /\ Goto(c, "idle")
          /\ active_mode' = goal[c] /\ TurnsOn(c, "off")
       \/ /\ Acknowledged(c, "exiting") /\ Goto(c, "idle")
          /\ active_mode' = "off" /\ UNCHANGED goal
    /\ UNCHANGED <<evaluating, data, frame, late>>

CallResumes(c) ==
    /\ pc[c] = "left"
    /\ Enter(c, goal[c])
    /\ UNCHANGED <<data, heater, frame, late>>

TurnOffManual(c) ==
    /\ pc[c] = "idle"
    /\ active_mode \in Manual
    /\ Send(c, OffCommand(active_mode), "exiting")
    /\ UNCHANGED <<active_mode, evaluating, data, goal, heater, frame, late>>

TurnOffAuto(c) ==
    /\ pc[c] = "idle"
    /\ active_mode  = "auto"
    /\ active_mode' = "off"
    /\ UNCHANGED <<evaluating, data, pc, goal, cmd, heater, frame, late>>

(* The daemon still has the command and carries it out later (when it does *)
(* not matter for "gear", which leaves the heater doing what it does).     *)
GivenUp(command) ==
    /\ command # "gear" /\ Len(late) < MaxLate
    /\ late' = Append(late, command)

(* DaemonError: the daemon refused, or its answer is not awaited any more  *)
(* and the command is carried out nevertheless, by now or later.           *)
CommandFails(t) ==
    /\ cmd[t] # "none"
    /\ \/ heater' \in {heater, Executed(cmd[t])} /\ UNCHANGED late
       \/ GivenUp(cmd[t]) /\ UNCHANGED heater
    /\ \/ pc[t] \in Evaluation /\ EvaluationFailed(t) /\ UNCHANGED goal
       \/ /\ pc[t] \notin Evaluation /\ Goto(t, "idle")
          /\ TurnsOn(t, "off") /\ UNCHANGED evaluating
    /\ UNCHANGED <<active_mode, data, frame>>

(* A command whose sender gave up is carried out. *)
LateCommand ==
    /\ late # << >>
    /\ heater' = Executed(Head(late))
    /\ late'   = Tail(late)
    /\ UNCHANGED <<active_mode, evaluating, data, pc, goal, cmd, frame>>

-----------------------------------------------------------------------------
(* Home Assistant restarts: mode_state is new, only Auto is restored.  The *)
(* daemon goes on with what it has.                                        *)
Restart ==
    /\ active_mode' = IF active_mode = "auto" THEN "auto" ELSE "off"
    /\ evaluating'  = FALSE
    /\ pc'          = [t \in Tasks |-> "idle"]
    /\ goal'        = [c \in Calls |-> "off"]
    /\ cmd'         = [t \in Tasks |-> "none"]
    /\ \/ /\ heater' \in {heater} \cup {Executed(cmd[t]) : t \in Tasks}
          /\ UNCHANGED late
       \/ /\ \E t \in Tasks : cmd[t] # "none" /\ GivenUp(cmd[t])
          /\ UNCHANGED heater
    /\ UNCHANGED <<data, frame>>

Acknowledge(t) ==
    \/ EvaluationAcknowledged(t)
    \/ t \in Calls /\ CallAcknowledged(t)

Resume(t) ==
    \/ EvaluationResumes(t)
    \/ t \in Calls /\ CallResumes(t)

Next ==
    \/ \E t \in Tasks : Acknowledge(t) \/ Resume(t) \/ CommandFails(t)
    \/ \E c \in Calls : TurnOn(c) \/ TurnOffManual(c) \/ TurnOffAuto(c)
    \/ ListenerTurn
    \/ DaemonPoll
    \/ Refresh
    \/ LateCommand
    \/ FlameOut
    \/ Restart

Spec == Init /\ [][Next]_vars

(* The event loop runs; every command ends, and not always with an error   *)
(* (SF says both); the daemon polls and the coordinator refreshes          *)
(* periodically, so neither lags for ever, and every refresh, of the same  *)
(* data too, starts an evaluation.  A command given up on may stay late    *)
(* for ever.                                                               *)
Fairness ==
    /\ \A t \in Tasks : SF_vars(Acknowledge(t)) /\ WF_vars(Resume(t))
    /\ WF_vars(ListenerTurn)
    /\ WF_vars(DaemonPoll)
    /\ WF_vars(data.mode # frame /\ Refresh)

FairSpec == Spec /\ Fairness

-----------------------------------------------------------------------------
(* Correctness. *)

(* Every variable keeps its type. *)
TypeOK ==
    /\ active_mode \in Modes
    /\ evaluating \in BOOLEAN
    /\ data \in Data
    /\ pc \in [Tasks -> Pcs]
    /\ goal \in [Calls -> Modes]
    /\ cmd \in [Tasks -> Commands \cup {"none"}]
    /\ heater \in Activity
    /\ frame \in Activity
    /\ late \in Seq(Commands)

(* At most one evaluation is under way, started by a call or by an update, *)
(* and _evaluating says exactly whether there is one: a failed command     *)
(* cannot leave it set and switch Auto's rules off for good.               *)
OneEvaluation ==
    /\ evaluating <=> \E t \in Tasks : pc[t] \in Evaluation
    /\ \A t, u \in Tasks : pc[t] \in Evaluation /\ pc[u] \in Evaluation => t = u

(* README: "Turning one mode on first leaves the previously selected mode, *)
(* then starts the new one": no step goes from one mode to another.        *)
ModesPassThroughOff ==
    [][active_mode # "off" /\ active_mode' # active_mode => active_mode' = "off"]_vars

(* The step carries out a command of an evaluation. *)
AutoCommand(command) ==
    \E t \in Tasks : /\ pc[t] \in Evaluation /\ cmd[t] = command
                     /\ cmd'[t] = "none" /\ pc'[t] \in Evaluation

(* README: "This prevents Auto and Ventilation from fighting each other":  *)
(* the toggle Auto sends to end ventilation never starts it.               *)
AutoNeverVentilates ==
    [][AutoCommand("ventilation") => heater' # "ventilation"]_vars

(* Every evaluation ends. *)
EvaluationEnds == evaluating ~> ~evaluating

(* In a room that stays cold, with good data, Auto heats: errors, stale    *)
(* frames and a flame that goes out do not keep it from starting again.    *)
AutoHeatsColdRoom ==
    <>[](active_mode = "auto" /\ data.ok /\ data.zone = "cold"
            /\ data.mode # "ventilation" /\ \A c \in Calls : pc[c] = "idle")
        => []<>(heater = "heating")
=============================================================================
