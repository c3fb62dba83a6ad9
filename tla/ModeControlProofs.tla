------------------------- MODULE ModeControlProofs -------------------------
(***************************************************************************)
(* Proofs about ModeControl, for any set of service calls.                 *)
(***************************************************************************)
EXTENDS ModeControl, TLAPS

-----------------------------------------------------------------------------
(* Types. *)

LEMMA ExecutedType ==
    ASSUME heater \in Activity, NEW command
    PROVE  Executed(command) \in Activity
  BY DEF Executed, Activity

LEMMA MoveTypes ==
    ASSUME TypeOK, NEW t \in Tasks, NEW place \in Pcs,
           NEW command \in Commands,
           Goto(t, place) \/ Send(t, command, place)
    PROVE  /\ pc' \in [Tasks -> Pcs]
           /\ cmd' \in [Tasks -> Commands \cup {"none"}]
  BY DEF TypeOK, Goto, Send

LEMMA PlacesArePcs ==
    /\ Evaluation \subseteq Pcs
    /\ {"idle", "leaving", "left", "entering", "exiting"} \subseteq Pcs
  BY DEF Pcs

LEMMA EvaluationPlaces ==
    /\ {"refreshing", "unventing", "settled", "igniting", "pausing",
        "gearing", "stopping", "finishing"} = Evaluation
    /\ {"idle", "leaving", "left", "entering", "exiting"} \cap Evaluation = {}
  BY DEF Evaluation

LEMMA CommandNames ==
    {"start_heat", "stop_heat", "ventilation", "gear"} = Commands
  BY DEF Commands

LEMMA TurnsOnTypes ==
    ASSUME TypeOK, NEW t, NEW m \in Modes, TurnsOn(t, m)
    PROVE  goal' \in [Calls -> Modes]
  BY DEF TypeOK, TurnsOn

LEMMA OffIsMode == "off" \in Modes
  BY DEF Modes

LEMMA GivenUpTypes ==
    ASSUME TypeOK, NEW t \in Tasks, cmd[t] # "none",
           UNCHANGED late \/ GivenUp(cmd[t])
    PROVE  late' \in Seq(Commands)
  <1>1. late \in Seq(Commands) /\ cmd[t] \in Commands
    BY DEF TypeOK
  <1>2. CASE UNCHANGED late
    BY <1>1, <1>2
  <1>3. CASE late' = Append(late, cmd[t])
    BY <1>1, <1>3
  <1> QED
    BY <1>2, <1>3 DEF GivenUp

LEMMA DecideTypes ==
    ASSUME TypeOK, NEW t \in Tasks, Decide(t) \/ Act(t)
    PROVE  /\ evaluating' \in BOOLEAN
           /\ pc' \in [Tasks -> Pcs]
           /\ cmd' \in [Tasks -> Commands \cup {"none"}]
  <1>1. CASE Act(t)
    BY <1>1, MoveTypes, PlacesArePcs, EvaluationPlaces, CommandNames
    DEF Act, Done
  <1>2. CASE Decide(t)
    BY <1>1, <1>2, MoveTypes, PlacesArePcs, EvaluationPlaces, CommandNames
    DEF Decide, Done
  <1> QED
    BY <1>1, <1>2

LEMMA EnterTypes ==
    ASSUME TypeOK, NEW t \in Tasks, NEW m \in Modes, Enter(t, m)
    PROVE  /\ active_mode' \in Modes
           /\ evaluating' \in BOOLEAN
           /\ pc' \in [Tasks -> Pcs]
           /\ cmd' \in [Tasks -> Commands \cup {"none"}]
           /\ goal' \in [Calls -> Modes]
  <1>1. OnCommand(m) \in Commands
    BY CommandNames DEF OnCommand
  <1>2. active_mode' \in Modes
    BY DEF Enter, Modes, TypeOK
  <1>3. evaluating' \in BOOLEAN
    BY DEF Enter, TypeOK
  <1>4. goal' \in [Calls -> Modes]
    BY TurnsOnTypes, OffIsMode DEF Enter
  <1> QED
    BY <1>1, <1>2, <1>3, <1>4, MoveTypes, PlacesArePcs, EvaluationPlaces, CommandNames
    DEF Enter

LEMMA TypeOKInit == Init => TypeOK
  <1> SUFFICES ASSUME Init
               PROVE  TypeOK
    OBVIOUS
  <1>1. data \in Data
    <2>1. frame \in Activity
      BY DEF Init
    <2> QED
      BY <2>1 DEF Init, Data
  <1>2. late \in Seq(Commands)
    BY DEF Init
  <1>3. /\ pc \in [Tasks -> Pcs]
        /\ goal \in [Calls -> Modes]
        /\ cmd \in [Tasks -> Commands \cup {"none"}]
    BY DEF Init, Pcs, Modes
  <1> QED
    BY <1>1, <1>2, <1>3 DEF Init, TypeOK, Modes

LEMMA TypeOKStep == TypeOK /\ [Next]_vars => TypeOK'
  <1> SUFFICES ASSUME TypeOK, [Next]_vars
               PROVE  TypeOK'
    OBVIOUS
  <1>1. ASSUME NEW t \in Tasks, EvaluationAcknowledged(t)
        PROVE  TypeOK'
    <2>1. /\ pc' \in [Tasks -> Pcs]
          /\ cmd' \in [Tasks -> Commands \cup {"none"}]
      BY <1>1, MoveTypes, PlacesArePcs, EvaluationPlaces, CommandNames
      DEF EvaluationAcknowledged
    <2>2. heater' \in Activity
      BY <1>1, ExecutedType DEF EvaluationAcknowledged, Acknowledged, TypeOK
    <2> QED
      BY <1>1, <2>1, <2>2 DEF EvaluationAcknowledged, TypeOK
  <1>2. ASSUME NEW c \in Calls, CallAcknowledged(c)
        PROVE  TypeOK'
    <2>1. /\ pc' \in [Tasks -> Pcs]
          /\ cmd' \in [Tasks -> Commands \cup {"none"}]
      BY <1>2, MoveTypes, PlacesArePcs, CommandNames
      DEF CallAcknowledged, Tasks
    <2>2. heater' \in Activity
      BY <1>2, ExecutedType DEF CallAcknowledged, Acknowledged, TypeOK
    <2>3. active_mode' \in Modes
      BY <1>2 DEF CallAcknowledged, TypeOK, Modes
    <2>4. goal' \in [Calls -> Modes]
      BY <1>2, TurnsOnTypes, OffIsMode DEF CallAcknowledged, TypeOK
    <2> QED
      BY <1>2, <2>1, <2>2, <2>3, <2>4 DEF CallAcknowledged, TypeOK
  <1>3. ASSUME NEW t \in Tasks, EvaluationResumes(t)
        PROVE  TypeOK'
    <2>1. /\ evaluating' \in BOOLEAN
          /\ pc' \in [Tasks -> Pcs]
          /\ cmd' \in [Tasks -> Commands \cup {"none"}]
      <3>1. CASE Decide(t) \/ Act(t)
        BY <3>1, DecideTypes
      <3>2. CASE Send(t, "gear", "gearing") /\ UNCHANGED evaluating
        BY <3>2, MoveTypes, PlacesArePcs, EvaluationPlaces, CommandNames
        DEF TypeOK
      <3>3. CASE Done(t)
        BY <3>3, MoveTypes, PlacesArePcs, CommandNames DEF Done
      <3> QED
        BY <1>3, <3>1, <3>2, <3>3 DEF EvaluationResumes
    <2> QED
      BY <1>3, <2>1 DEF EvaluationResumes, TypeOK
  <1>4. ASSUME NEW c \in Calls, CallResumes(c)
        PROVE  TypeOK'
    <2>1. c \in Tasks /\ goal[c] \in Modes
      BY DEF TypeOK, Tasks
    <2> QED
      BY <1>4, <2>1, EnterTypes DEF CallResumes, TypeOK
  <1>5. ASSUME NEW t \in Tasks, CommandFails(t)
        PROVE  TypeOK'
    <2>1. /\ evaluating' \in BOOLEAN
          /\ pc' \in [Tasks -> Pcs]
          /\ cmd' \in [Tasks -> Commands \cup {"none"}]
      BY <1>5, MoveTypes, PlacesArePcs, CommandNames
      DEF CommandFails, EvaluationFailed, Done, TypeOK
    <2>2. heater' \in Activity
      BY <1>5, ExecutedType DEF CommandFails, TypeOK
    <2>3. goal' \in [Calls -> Modes]
      BY <1>5, TurnsOnTypes, OffIsMode DEF CommandFails, TypeOK
    <2>4. late' \in Seq(Commands)
      BY <1>5, GivenUpTypes DEF CommandFails
    <2> QED
      BY <1>5, <2>1, <2>2, <2>3, <2>4 DEF CommandFails, TypeOK
  <1>6. ASSUME NEW c \in Calls, TurnOn(c)
        PROVE  TypeOK'
    <2> PICK m \in Modes \ {"off", active_mode} :
             \/ active_mode = "off" /\ Enter(c, m)
             \/ /\ active_mode # "off"
                /\ TurnsOn(c, m)
                /\ Send(c, LeaveCommand(m), "leaving")
                /\ UNCHANGED <<active_mode, evaluating>>
      BY <1>6 DEF TurnOn
    <2>1. LeaveCommand(m) \in Commands
      BY CommandNames DEF LeaveCommand
    <2>2. /\ active_mode' \in Modes
          /\ evaluating' \in BOOLEAN
          /\ pc' \in [Tasks -> Pcs]
          /\ cmd' \in [Tasks -> Commands \cup {"none"}]
          /\ goal' \in [Calls -> Modes]
      BY <2>1, EnterTypes, TurnsOnTypes, MoveTypes, PlacesArePcs DEF Tasks, TypeOK
    <2> QED
      BY <1>6, <2>2 DEF TurnOn, TypeOK
  <1>7. ASSUME NEW c \in Calls, TurnOffManual(c)
        PROVE  TypeOK'
    <2>1. OffCommand(active_mode) \in Commands
      BY CommandNames DEF OffCommand
    <2>2. /\ pc' \in [Tasks -> Pcs]
          /\ cmd' \in [Tasks -> Commands \cup {"none"}]
      BY <1>7, <2>1, MoveTypes, PlacesArePcs DEF TurnOffManual, Tasks
    <2> QED
      BY <1>7, <2>2 DEF TurnOffManual, TypeOK
  <1>8. ASSUME NEW c \in Calls, TurnOffAuto(c)
        PROVE  TypeOK'
    BY <1>8 DEF TurnOffAuto, TypeOK, Modes
  <1>9. CASE ListenerTurn
    BY <1>9, DecideTypes DEF ListenerTurn, TypeOK, Tasks
  <1>10. CASE DaemonPoll
    BY <1>10 DEF DaemonPoll, TypeOK
  <1>11. CASE Refresh
    BY <1>11 DEF Refresh, TypeOK, Data
  <1>12. CASE FlameOut
    BY <1>12 DEF FlameOut, TypeOK, Activity
  <1>13. CASE Restart
    <2>1. heater' \in Activity
      BY <1>13, ExecutedType DEF Restart, TypeOK
    <2>2. late' \in Seq(Commands)
      BY <1>13, GivenUpTypes DEF Restart, TypeOK
    <2> QED
      BY <1>13, <2>1, <2>2 DEF Restart, TypeOK, Modes, Pcs
  <1>14. CASE LateCommand
    <2>1. heater' \in Activity
      BY <1>14, ExecutedType DEF LateCommand, TypeOK
    <2>2. late' \in Seq(Commands)
      BY <1>14 DEF LateCommand, TypeOK
    <2> QED
      BY <1>14, <2>1, <2>2 DEF LateCommand, TypeOK
  <1>15. CASE UNCHANGED vars
    BY <1>15 DEF vars, TypeOK
  <1> QED
    BY <1>1, <1>2, <1>3, <1>4, <1>5, <1>6, <1>7, <1>8, <1>9, <1>10, <1>11,
       <1>12, <1>13, <1>14, <1>15
    DEF Next, Acknowledge, Resume

(* Type correctness: each assignment of switch.py keeps the shape of its   *)
(* variable, for any number of overlapping service calls.                  *)
THEOREM ModeTypeCorrect == Spec => []TypeOK
  BY TypeOKInit, TypeOKStep, PTL DEF Spec

-----------------------------------------------------------------------------
(* One evaluation. OneEvaluation is inductive: a step of a task starts an  *)
(* evaluation, ends one, or moves inside or outside of one.                *)

LEMMA EvaluationStays ==
    ASSUME TypeOK, OneEvaluation, NEW t \in Tasks, NEW place,
           pc' = [pc EXCEPT ![t] = place],
           pc[t] \in Evaluation <=> place \in Evaluation,
           evaluating' = evaluating
    PROVE  OneEvaluation'
  <1>1. \A u \in Tasks : pc'[u] \in Evaluation <=> pc[u] \in Evaluation
    BY DEF TypeOK
  <1> QED
    BY <1>1 DEF OneEvaluation

LEMMA EvaluationDone ==
    ASSUME TypeOK, OneEvaluation, NEW t \in Tasks, NEW place,
           ~evaluating \/ pc[t] \in Evaluation,
           pc' = [pc EXCEPT ![t] = place],
           place \notin Evaluation,
           evaluating' = FALSE
    PROVE  OneEvaluation'
  <1>1. \A u \in Tasks : u # t => pc[u] \notin Evaluation
    BY DEF OneEvaluation
  <1>2. \A u \in Tasks : pc'[u] \notin Evaluation
    BY <1>1 DEF TypeOK
  <1> QED
    BY <1>2 DEF OneEvaluation

LEMMA EvaluationGoesOn ==
    ASSUME TypeOK, OneEvaluation, NEW t \in Tasks, NEW place,
           ~evaluating \/ pc[t] \in Evaluation,
           pc' = [pc EXCEPT ![t] = place],
           place \in Evaluation,
           evaluating' = TRUE
    PROVE  OneEvaluation'
  <1>1. \A u \in Tasks : u # t => pc[u] \notin Evaluation
    BY DEF OneEvaluation
  <1>2. /\ pc'[t] \in Evaluation
        /\ \A u \in Tasks : u # t => pc'[u] \notin Evaluation
    BY <1>1 DEF TypeOK
  <1> QED
    BY <1>2 DEF OneEvaluation

LEMMA DecideKeepsOne ==
    ASSUME TypeOK, OneEvaluation, NEW t \in Tasks,
           ~evaluating \/ pc[t] \in Evaluation,
           Decide(t) \/ Act(t)
    PROVE  OneEvaluation'
  <1>1. CASE Act(t)
    BY <1>1, EvaluationGoesOn, EvaluationDone, EvaluationPlaces
    DEF Act, Done, Send, Goto
  <1>2. CASE Decide(t)
    BY <1>1, <1>2, EvaluationGoesOn, EvaluationDone, EvaluationPlaces
    DEF Decide, Done, Send, Goto
  <1> QED
    BY <1>1, <1>2

LEMMA EnterKeepsOne ==
    ASSUME TypeOK, OneEvaluation, NEW t \in Tasks, NEW m,
           pc[t] \in {"idle", "left"}, Enter(t, m)
    PROVE  OneEvaluation'
  <1>1. pc[t] \notin Evaluation
    BY EvaluationPlaces
  <1>2. CASE Send(t, OnCommand(m), "entering") /\ UNCHANGED evaluating
    BY <1>1, <1>2, EvaluationStays, EvaluationPlaces DEF Send
  <1>3. CASE Goto(t, "idle") /\ UNCHANGED evaluating
    BY <1>1, <1>3, EvaluationStays, EvaluationPlaces DEF Goto
  <1>4. CASE ~evaluating /\ Goto(t, "refreshing") /\ evaluating' = TRUE
    BY <1>4, EvaluationGoesOn, EvaluationPlaces DEF Goto
  <1> QED
    BY <1>2, <1>3, <1>4 DEF Enter

LEMMA OneEvaluationInit == Init => OneEvaluation
  BY EvaluationPlaces DEF Init, OneEvaluation

LEMMA OneEvaluationStep ==
    TypeOK /\ OneEvaluation /\ [Next]_vars => OneEvaluation'
  <1> SUFFICES ASSUME TypeOK, OneEvaluation, [Next]_vars
               PROVE  OneEvaluation'
    OBVIOUS
  <1>1. ASSUME NEW t \in Tasks, EvaluationAcknowledged(t)
        PROVE  OneEvaluation'
    BY <1>1, EvaluationStays, EvaluationPlaces
    DEF EvaluationAcknowledged, Acknowledged, Goto
  <1>2. ASSUME NEW c \in Calls, CallAcknowledged(c)
        PROVE  OneEvaluation'
    BY <1>2, EvaluationStays, EvaluationPlaces
    DEF CallAcknowledged, Acknowledged, Goto, Tasks
  <1>3. ASSUME NEW t \in Tasks, EvaluationResumes(t)
        PROVE  OneEvaluation'
    <2>1. pc[t] \in Evaluation
      BY <1>3, EvaluationPlaces DEF EvaluationResumes
    <2>2. CASE Decide(t) \/ Act(t)
      BY <2>1, <2>2, DecideKeepsOne
    <2>3. CASE Send(t, "gear", "gearing") /\ UNCHANGED evaluating
      BY <2>1, <2>3, EvaluationStays, EvaluationPlaces DEF Send
    <2>4. CASE Done(t)
      BY <2>1, <2>4, EvaluationDone, EvaluationPlaces DEF Done, Goto
    <2> QED
      BY <1>3, <2>2, <2>3, <2>4 DEF EvaluationResumes
  <1>4. ASSUME NEW c \in Calls, CallResumes(c)
        PROVE  OneEvaluation'
    BY <1>4, EnterKeepsOne DEF CallResumes, Tasks
  <1>5. ASSUME NEW t \in Tasks, CommandFails(t)
        PROVE  OneEvaluation'
    BY <1>5, EvaluationStays, EvaluationDone, EvaluationPlaces
    DEF CommandFails, EvaluationFailed, Done, Goto
  <1>6. ASSUME NEW c \in Calls, TurnOn(c)
        PROVE  OneEvaluation'
    <2>1. CASE \E m : Enter(c, m)
      BY <1>6, <2>1, EnterKeepsOne DEF TurnOn, Tasks
    <2>2. CASE \E m : Send(c, LeaveCommand(m), "leaving") /\ UNCHANGED evaluating
      BY <1>6, <2>2, EvaluationStays, EvaluationPlaces DEF TurnOn, Send, Tasks
    <2> QED
      BY <1>6, <2>1, <2>2 DEF TurnOn
  <1>7. ASSUME NEW c \in Calls, TurnOffManual(c)
        PROVE  OneEvaluation'
    BY <1>7, EvaluationStays, EvaluationPlaces DEF TurnOffManual, Send, Tasks
  <1>8. ASSUME NEW c \in Calls, TurnOffAuto(c)
        PROVE  OneEvaluation'
    BY <1>8 DEF TurnOffAuto, OneEvaluation
  <1>9. CASE ListenerTurn
    BY <1>9, DecideKeepsOne DEF ListenerTurn, Evaluates, Tasks
  <1>10. CASE DaemonPoll \/ Refresh \/ LateCommand \/ FlameOut
    BY <1>10 DEF DaemonPoll, Refresh, LateCommand, FlameOut, OneEvaluation
  <1>11. CASE Restart
    BY <1>11, EvaluationPlaces DEF Restart, OneEvaluation
  <1>12. CASE UNCHANGED vars
    BY <1>12 DEF vars, OneEvaluation
  <1> QED
    BY <1>1, <1>2, <1>3, <1>4, <1>5, <1>6, <1>7, <1>8, <1>9, <1>10, <1>11, <1>12
    DEF Next, Acknowledge, Resume

(* However many service calls and coordinator updates overlap, one         *)
(* evaluation at a time sends commands, and _evaluating is set exactly     *)
(* while it lasts: no error leaves Auto switched on and dead.              *)
THEOREM OneEvaluationHolds == Spec => []OneEvaluation
  <1>1. TypeOK /\ OneEvaluation /\ [Next]_vars => (TypeOK /\ OneEvaluation)'
    BY TypeOKStep, OneEvaluationStep
  <1> QED
    BY <1>1, TypeOKInit, OneEvaluationInit, PTL DEF Spec

-----------------------------------------------------------------------------
(* What an evaluation does. *)

GoalOf(t) == IF t \in Calls THEN goal[t] ELSE "off"

(* The commands a task at a place may wait for, on its way to a mode m. *)
Awaited(place, m) ==
    CASE place = "unventing"             -> {"ventilation"}
      [] place = "igniting"              -> {"start_heat"}
      [] place = "gearing"               -> {"gear"}
      [] place = "stopping"              -> {"stop_heat"}
      [] place = "entering"              -> {OnCommand(m)}
      [] place \in {"leaving", "exiting"} -> {"stop_heat", "ventilation"}
      [] OTHER                           -> {"none"}

CommandFits == \A t \in Tasks : cmd[t] \in Awaited(pc[t], GoalOf(t))

(* A task moves; what it then waits for fits the place. *)
LEMMA FitsMoved ==
    ASSUME TypeOK, CommandFits, NEW t \in Tasks, NEW place, NEW command,
           Send(t, command, place),
           \A u \in Tasks \ {t} : GoalOf(u)' = GoalOf(u),
           command \in Awaited(place, GoalOf(t)')
    PROVE  CommandFits'
  <1>1. ASSUME NEW u \in Tasks
        PROVE  cmd'[u] \in Awaited(pc'[u], GoalOf(u)')
    <2>1. CASE u = t
      BY <2>1 DEF Send, TypeOK
    <2>2. CASE u # t
      <3>1. cmd'[u] = cmd[u] /\ pc'[u] = pc[u] /\ GoalOf(u)' = GoalOf(u)
        BY <2>2 DEF Send, TypeOK
      <3> QED
        BY <3>1 DEF CommandFits
    <2> QED
      BY <2>1, <2>2
  <1> QED
    BY <1>1 DEF CommandFits

LEMMA GotoSendsNothing ==
    ASSUME NEW t, NEW place
    PROVE  Goto(t, place) = Send(t, "none", place)
  BY DEF Goto, Send

LEMMA SameGoals ==
    ASSUME UNCHANGED goal
    PROVE  \A t \in Tasks : GoalOf(t)' = GoalOf(t)
  BY DEF GoalOf

LEMMA FitsDecided ==
    ASSUME TypeOK, CommandFits, NEW t \in Tasks, UNCHANGED goal,
           Decide(t) \/ Act(t)
    PROVE  CommandFits'
  <1>1. CASE Act(t)
    BY <1>1, FitsMoved, GotoSendsNothing, SameGoals DEF Act, Done, Awaited
  <1>2. CASE Decide(t)
    BY <1>1, <1>2, FitsMoved, GotoSendsNothing, SameGoals DEF Decide, Done, Awaited
  <1> QED
    BY <1>1, <1>2

LEMMA GoalsTurned ==
    ASSUME TypeOK, NEW t, NEW m, TurnsOn(t, m)
    PROVE  /\ \A u \in Tasks \ {t} : GoalOf(u)' = GoalOf(u)
           /\ t \in Calls => GoalOf(t)' = m
  BY DEF GoalOf, TurnsOn, TypeOK

LEMMA FitsEntered ==
    ASSUME TypeOK, CommandFits, NEW c \in Calls, NEW m, Enter(c, m)
    PROVE  CommandFits'
  <1>1. c \in Tasks
    BY DEF Tasks
  <1>2. CASE TurnsOn(c, m) /\ Send(c, OnCommand(m), "entering")
    BY <1>1, <1>2, FitsMoved, GoalsTurned DEF Awaited
  <1>3. CASE TurnsOn(c, "off") /\ (Goto(c, "idle") \/ Goto(c, "refreshing"))
    BY <1>1, <1>3, FitsMoved, GoalsTurned, GotoSendsNothing DEF Awaited
  <1> QED
    BY <1>2, <1>3 DEF Enter

LEMMA CommandFitsStep == TypeOK /\ CommandFits /\ [Next]_vars => CommandFits'
  <1> SUFFICES ASSUME TypeOK, CommandFits, [Next]_vars
               PROVE  CommandFits'
    OBVIOUS
  <1>1. ASSUME NEW t \in Tasks, NEW place, Goto(t, place),
               UNCHANGED goal \/ TurnsOn(t, "off"),
               place \notin {"unventing", "igniting", "gearing", "stopping",
                             "entering", "leaving", "exiting"}
        PROVE  CommandFits'
    <2>1. \A u \in Tasks \ {t} : GoalOf(u)' = GoalOf(u)
      BY <1>1, SameGoals, GoalsTurned
    <2> QED
      BY <1>1, <2>1, FitsMoved, GotoSendsNothing DEF Awaited
  <1>2. ASSUME NEW t \in Tasks, EvaluationAcknowledged(t)
        PROVE  CommandFits'
    BY <1>1, <1>2 DEF EvaluationAcknowledged
  <1>3. ASSUME NEW c \in Calls, CallAcknowledged(c)
        PROVE  CommandFits'
    BY <1>1, <1>3 DEF CallAcknowledged, Tasks
  <1>4. ASSUME NEW t \in Tasks, EvaluationResumes(t)
        PROVE  CommandFits'
    <2>1. CASE Send(t, "gear", "gearing")
      BY <1>4, <2>1, FitsMoved, SameGoals DEF EvaluationResumes, Awaited
    <2>2. CASE Done(t)
      BY <1>1, <1>4, <2>2 DEF EvaluationResumes, Done
    <2> QED
      BY <1>4, <2>1, <2>2, FitsDecided DEF EvaluationResumes
  <1>5. ASSUME NEW c \in Calls, CallResumes(c)
        PROVE  CommandFits'
    BY <1>5, FitsEntered DEF CallResumes
  <1>6. ASSUME NEW t \in Tasks, CommandFails(t)
        PROVE  CommandFits'
    BY <1>1, <1>6 DEF CommandFails, EvaluationFailed, Done
  <1>7. ASSUME NEW c \in Calls, TurnOn(c)
        PROVE  CommandFits'
    <2> PICK m \in Modes \ {"off", active_mode} :
             \/ Enter(c, m)
             \/ TurnsOn(c, m) /\ Send(c, LeaveCommand(m), "leaving")
      BY <1>7 DEF TurnOn
    <2>1. LeaveCommand(m) \in Awaited("leaving", m)
      BY DEF LeaveCommand, Awaited
    <2>2. c \in Tasks
      BY DEF Tasks
    <2> QED
      BY <2>1, <2>2, FitsEntered, FitsMoved, GoalsTurned
  <1>8. ASSUME NEW c \in Calls, TurnOffManual(c)
        PROVE  CommandFits'
    <2>1. OffCommand(active_mode) \in Awaited("exiting", GoalOf(c)')
      BY DEF OffCommand, Awaited
    <2> QED
      BY <1>8, <2>1, FitsMoved, SameGoals DEF TurnOffManual, Tasks
  <1>9. ASSUME NEW c \in Calls, TurnOffAuto(c)
        PROVE  CommandFits'
    BY <1>9, SameGoals DEF TurnOffAuto, CommandFits
  <1>10. CASE ListenerTurn
    BY <1>10, FitsDecided DEF ListenerTurn, Tasks
  <1>11. CASE DaemonPoll \/ Refresh \/ LateCommand \/ FlameOut
    BY <1>11, SameGoals DEF DaemonPoll, Refresh, LateCommand, FlameOut, CommandFits
  <1>12. CASE Restart
    <2>1. ASSUME NEW t \in Tasks
          PROVE  pc'[t] = "idle" /\ cmd'[t] = "none"
      BY <1>12 DEF Restart
    <2> QED
      BY <2>1 DEF CommandFits, Awaited
  <1>13. CASE UNCHANGED vars
    BY <1>13, SameGoals DEF vars, CommandFits
  <1> QED
    BY <1>2, <1>3, <1>4, <1>5, <1>6, <1>7, <1>8, <1>9, <1>10, <1>11, <1>12, <1>13
    DEF Next, Acknowledge, Resume

(* A task that waits for the daemon waits for the command of its place:    *)
(* an evaluation toggles the ventilation only to end it, and a call that   *)
(* enters a mode sends that mode's own command.                            *)
THEOREM CommandsFitPlaces == Spec => []CommandFits
  <1>1. Init => CommandFits
    BY DEF Init, CommandFits, Awaited
  <1> QED
    BY <1>1, CommandFitsStep, ModeTypeCorrect, PTL DEF Spec

(* The task's next step is the answer to its command, or its own. *)
CanGoOn(t) ==
    \/ cmd[t] # "none"
    \/ pc[t] \in {"refreshing", "settled", "pausing", "finishing"}

(* Nothing but the daemon keeps an evaluation waiting: there is always a   *)
(* command to be answered or a step to take.  (The safety half of          *)
(* EvaluationEnds; that the answer comes is its fairness.)                 *)
THEOREM EvaluationCanGoOn ==
    Spec => [](evaluating => \E t \in Tasks : pc[t] \in Evaluation /\ CanGoOn(t))
  <1>1. OneEvaluation /\ CommandFits
            => (evaluating => \E t \in Tasks : pc[t] \in Evaluation /\ CanGoOn(t))
    BY DEF OneEvaluation, CommandFits, CanGoOn, Awaited, Evaluation
  <1> QED
    BY <1>1, OneEvaluationHolds, CommandsFitPlaces, PTL

(* How far an evaluation is. *)
Rank(place) ==
    CASE place = "refreshing" -> 1
      [] place = "unventing"  -> 2
      [] place = "settled"    -> 3
      [] place = "igniting"   -> 4
      [] place = "pausing"    -> 5
      [] place = "gearing"    -> 6
      [] place = "stopping"   -> 7
      [] place = "finishing"  -> 8
      [] OTHER                -> 0

(* An evaluation goes forward or ends, and begins only while Auto is on    *)
(* and there is no other.                                                  *)
Advances ==
    \A t \in Tasks :
        /\ pc[t] \in Evaluation /\ pc'[t] # pc[t]
               => pc'[t] = "idle" \/ Rank(pc[t]) < Rank(pc'[t])
        /\ pc[t] \notin Evaluation /\ pc'[t] \in Evaluation
               => active_mode' = "auto" /\ ~evaluating

LEMMA AdvancesMoved ==
    ASSUME TypeOK, NEW t \in Tasks, NEW place, pc' = [pc EXCEPT ![t] = place],
           pc[t] \in Evaluation => place = "idle" \/ Rank(pc[t]) < Rank(place),
           pc[t] \notin Evaluation /\ place \in Evaluation
               => active_mode' = "auto" /\ ~evaluating
    PROVE  Advances
  <1>1. pc'[t] = place /\ \A u \in Tasks \ {t} : pc'[u] = pc[u]
    BY DEF TypeOK
  <1> QED
    BY <1>1, Zenon DEF Advances

LEMMA AdvancesDecided ==
    ASSUME TypeOK, NEW t \in Tasks, UNCHANGED active_mode,
           \/ Decide(t) /\ pc[t] = "refreshing"
           \/ Act(t) /\ pc[t] = "settled"
           \/ Decide(t) /\ pc[t] = "idle" /\ Evaluates(active_mode)
    PROVE  Advances
  <1>1. PICK place \in {"unventing", "igniting", "stopping", "idle"} :
             /\ pc' = [pc EXCEPT ![t] = place]
             /\ pc[t] = "settled" => place # "unventing"
    BY DEF Decide, Act, Done, Send, Goto
  <1>2. pc[t] \in Evaluation => place = "idle" \/ Rank(pc[t]) < Rank(place)
    BY <1>1, EvaluationPlaces DEF Rank
  <1>3. pc[t] \notin Evaluation /\ place \in Evaluation
            => active_mode' = "auto" /\ ~evaluating
    BY <1>1, EvaluationPlaces DEF Evaluates
  <1> QED
    BY <1>1, <1>2, <1>3, AdvancesMoved

LEMMA AdvancesOutside ==
    ASSUME TypeOK, NEW t \in Tasks, NEW place, pc' = [pc EXCEPT ![t] = place],
           pc[t] \notin Evaluation, place \notin Evaluation
    PROVE  Advances
  BY AdvancesMoved

LEMMA AdvancesEntered ==
    ASSUME TypeOK, NEW c \in Calls, NEW m, Enter(c, m),
           pc[c] \in {"idle", "left"}
    PROVE  Advances
  <1>1. c \in Tasks /\ pc[c] \notin Evaluation
    BY EvaluationPlaces DEF Tasks
  <1>2. CASE Send(c, OnCommand(m), "entering")
    BY <1>1, <1>2, AdvancesOutside, EvaluationPlaces DEF Send
  <1>3. CASE Goto(c, "idle")
    BY <1>1, <1>3, AdvancesOutside, EvaluationPlaces DEF Goto
  <1>4. CASE active_mode' = "auto" /\ ~evaluating /\ Goto(c, "refreshing")
    BY <1>1, <1>4, AdvancesMoved DEF Goto
  <1> QED
    BY <1>2, <1>3, <1>4 DEF Enter

LEMMA AdvancesStep == TypeOK /\ [Next]_vars => Advances
  <1> SUFFICES ASSUME TypeOK, [Next]_vars
               PROVE  Advances
    OBVIOUS
  <1>1. ASSUME NEW t \in Tasks, EvaluationAcknowledged(t)
        PROVE  Advances
    <2>1. PICK place : /\ pc' = [pc EXCEPT ![t] = place]
                       /\ \/ pc[t] = "unventing" /\ place = "settled"
                          \/ pc[t] = "igniting"  /\ place = "pausing"
                          \/ pc[t] = "gearing"   /\ place = "finishing"
                          \/ pc[t] = "stopping"  /\ place = "finishing"
      BY <1>1 DEF EvaluationAcknowledged, Acknowledged, Goto
    <2>2. pc[t] \in Evaluation /\ Rank(pc[t]) < Rank(place)
      BY <2>1, EvaluationPlaces DEF Rank
    <2> QED
      BY <2>1, <2>2, AdvancesMoved
  <1>2. ASSUME NEW c \in Calls, CallAcknowledged(c)
        PROVE  Advances
    BY <1>2, AdvancesOutside, EvaluationPlaces
    DEF CallAcknowledged, Acknowledged, Goto, Tasks
  <1>3. ASSUME NEW t \in Tasks, EvaluationResumes(t)
        PROVE  Advances
    <2>1. CASE pc[t] = "pausing" /\ Send(t, "gear", "gearing")
      <3>1. Rank("pausing") < Rank("gearing") /\ "pausing" \in Evaluation
        BY DEF Rank, Evaluation
      <3> QED
        BY <2>1, <3>1, AdvancesMoved DEF Send
    <2>2. CASE pc[t] = "finishing" /\ Done(t)
      BY <2>2, AdvancesMoved, EvaluationPlaces DEF Done, Goto
    <2> QED
      BY <1>3, <2>1, <2>2, AdvancesDecided DEF EvaluationResumes
  <1>4. ASSUME NEW c \in Calls, CallResumes(c)
        PROVE  Advances
    BY <1>4, AdvancesEntered DEF CallResumes
  <1>5. ASSUME NEW t \in Tasks, CommandFails(t)
        PROVE  Advances
    <2>1. pc' = [pc EXCEPT ![t] = "idle"]
      BY <1>5 DEF CommandFails, EvaluationFailed, Done, Goto
    <2> QED
      BY <2>1, AdvancesMoved, EvaluationPlaces
  <1>6. ASSUME NEW c \in Calls, TurnOn(c)
        PROVE  Advances
    <2>1. CASE \E m : Enter(c, m)
      BY <1>6, <2>1, AdvancesEntered DEF TurnOn
    <2>2. CASE \E m : Send(c, LeaveCommand(m), "leaving")
      BY <1>6, <2>2, AdvancesOutside, EvaluationPlaces DEF TurnOn, Send, Tasks
    <2> QED
      BY <1>6, <2>1, <2>2 DEF TurnOn
  <1>7. ASSUME NEW c \in Calls, TurnOffManual(c)
        PROVE  Advances
    BY <1>7, AdvancesOutside, EvaluationPlaces DEF TurnOffManual, Send, Tasks
  <1>8. CASE ListenerTurn
    BY <1>8, AdvancesDecided DEF ListenerTurn, Tasks
  <1>9. CASE Restart
    BY <1>9, EvaluationPlaces DEF Restart, Advances
  <1>10. CASE UNCHANGED pc
    BY <1>10 DEF Advances
  <1> QED
    BY <1>1, <1>2, <1>3, <1>4, <1>5, <1>6, <1>7, <1>8, <1>9, <1>10
    DEF Next, Acknowledge, Resume, TurnOffAuto, DaemonPoll, Refresh, LateCommand, FlameOut, vars

(* Every evaluation passes each of its places once at most, and with Auto  *)
(* off none begins: what is still sent after Auto was turned off in the    *)
(* middle of an evaluation is the rest of that one.                        *)
THEOREM EvaluationAdvances == Spec => [][Advances]_vars
  <1>1. TypeOK /\ [Next]_vars => [Advances]_vars
    BY AdvancesStep
  <1> QED
    BY <1>1, ModeTypeCorrect, PTL DEF Spec

-----------------------------------------------------------------------------
(* Why Auto may start the fan. *)

(* While Auto's toggle is under way the daemon has no other command: no    *)
(* other task waits for one, and none is left whose sender gave up on it,  *)
(* an earlier toggle of Auto's own included.                               *)
ToggleAlone ==
    \A t \in Tasks :
        pc[t] = "unventing" =>
            late = << >> /\ \A u \in Tasks \ {t} : cmd[u] = "none"

(* Auto decides on its toggle when the data shows the heater as it is. *)
ToggleOnFact ==
    \A t \in Tasks :
        pc[t] # "unventing" /\ pc'[t] = "unventing" => data.mode = heater

(* A toggle under way finds the fan running. *)
FanRuns == \A t \in Tasks : pc[t] = "unventing" => heater = "ventilation"

LEMMA NothingExecuted == Executed("none") = heater
  BY DEF Executed

(* Only an evaluation's rules lead to its toggle. *)
LEMMA ToggleDecided ==
    ASSUME TypeOK, [Next]_vars, NEW t \in Tasks,
           pc[t] # "unventing", pc'[t] = "unventing"
    PROVE  data.mode = "ventilation" /\ heater' = heater
  <1>1. ASSUME NEW u \in Tasks, Decide(u) \/ Act(u)
        PROVE  data.mode = "ventilation"
    BY <1>1 DEF Decide, Act, Done, Send, Goto, TypeOK
  <1>2. ASSUME NEW u \in Tasks, NEW place, pc' = [pc EXCEPT ![u] = place],
               place # "unventing"
        PROVE  FALSE
    BY <1>2 DEF TypeOK
  <1>3. ~(UNCHANGED pc)
    OBVIOUS
  <1>4. ASSUME NEW u \in Tasks, EvaluationAcknowledged(u) PROVE FALSE
    BY <1>2, <1>4 DEF EvaluationAcknowledged, Goto
  <1>5. ASSUME NEW c \in Calls, CallAcknowledged(c) PROVE FALSE
    BY <1>2, <1>5 DEF CallAcknowledged, Goto, Tasks
  <1>6. ASSUME NEW u \in Tasks, EvaluationResumes(u)
        PROVE  data.mode = "ventilation" /\ heater' = heater
    BY <1>1, <1>2, <1>6 DEF EvaluationResumes, Done, Send, Goto
  <1>7. ASSUME NEW c \in Calls, NEW m, Enter(c, m) PROVE FALSE
    BY <1>2, <1>7 DEF Enter, Send, Goto, Tasks
  <1>8. ASSUME NEW c \in Calls, CallResumes(c) \/ TurnOn(c) \/ TurnOffManual(c)
        PROVE  FALSE
    BY <1>2, <1>7, <1>8 DEF CallResumes, TurnOn, TurnOffManual, Send, Tasks
  <1>9. ASSUME NEW u \in Tasks, CommandFails(u) PROVE FALSE
    BY <1>2, <1>9 DEF CommandFails, EvaluationFailed, Done, Goto
  <1>10. ~Restart
    BY DEF Restart
  <1>11. ListenerTurn => data.mode = "ventilation" /\ heater' = heater
    BY <1>1 DEF ListenerTurn, Tasks
  <1> QED
    BY <1>3, <1>4, <1>5, <1>6, <1>8, <1>9, <1>10, <1>11
    DEF Next, Acknowledge, Resume, TurnOffAuto, DaemonPoll, Refresh, LateCommand, FlameOut, vars

(* The heater stays as it is while the toggle waits alone. *)
LEMMA FanLeftAlone ==
    ASSUME TypeOK, OneEvaluation, ToggleAlone, [Next]_vars, NEW t \in Tasks,
           pc[t] = "unventing", pc'[t] = "unventing", heater = "ventilation"
    PROVE  heater' = heater
  <1>1. pc[t] \in Evaluation
    BY EvaluationPlaces
  <1>2. ASSUME NEW u \in Tasks, EvaluationAcknowledged(u) PROVE FALSE
    <2>1. u = t
      BY <1>1, <1>2, EvaluationPlaces
      DEF EvaluationAcknowledged, Acknowledged, OneEvaluation
    <2> QED
      BY <1>2, <2>1 DEF EvaluationAcknowledged, Acknowledged, Goto, TypeOK
  <1>3. ASSUME NEW c \in Calls, CallAcknowledged(c) PROVE heater' = heater
    <2>1. c \in Tasks /\ c # t
      BY <1>3 DEF CallAcknowledged, Acknowledged, Tasks
    <2> QED
      BY <1>3, <2>1, NothingExecuted DEF CallAcknowledged, Acknowledged, ToggleAlone
  <1>4. ASSUME NEW u \in Tasks, CommandFails(u) PROVE FALSE
    <2>1. u = t
      BY <1>4 DEF CommandFails, ToggleAlone
    <2> QED
      BY <1>4, <2>1 DEF CommandFails, EvaluationFailed, Done, Goto, TypeOK
  <1>5. ~FlameOut /\ ~LateCommand /\ ~Restart
    BY DEF FlameOut, LateCommand, Restart, ToggleAlone
  <1> QED
    BY <1>2, <1>3, <1>4, <1>5
    DEF Next, Acknowledge, Resume, EvaluationResumes, CallResumes, TurnOn,
        TurnOffManual, TurnOffAuto, ListenerTurn, DaemonPoll, Refresh, vars

(* The toggle ends the fan that runs. *)
LEMMA ToggleEndsFan ==
    ASSUME TypeOK, OneEvaluation, CommandFits, FanRuns, Next,
           AutoCommand("ventilation")
    PROVE  heater' # "ventilation"
  <1> PICK t \in Tasks : /\ pc[t] \in Evaluation /\ cmd[t] = "ventilation"
                         /\ cmd'[t] = "none" /\ pc'[t] \in Evaluation
    BY DEF AutoCommand
  <1>1. pc[t] = "unventing" /\ heater = "ventilation"
    BY DEF CommandFits, Awaited, Evaluation, FanRuns
  <1>2. ASSUME NEW u \in Tasks, u # t, NEW place, NEW command, Send(u, command, place)
        PROVE  FALSE
    BY <1>2 DEF Send, TypeOK
  <1>3. ASSUME NEW u \in Tasks, u # t, NEW place, Goto(u, place)
        PROVE  FALSE
    BY <1>2, <1>3, GotoSendsNothing
  <1>4. ~(UNCHANGED cmd)
    OBVIOUS
  <1>5. ASSUME NEW u \in Tasks, EvaluationAcknowledged(u)
        PROVE  heater' # "ventilation"
    <2>1. u = t
      BY <1>3, <1>5 DEF EvaluationAcknowledged
    <2> QED
      BY <1>1, <1>5, <2>1 DEF EvaluationAcknowledged, Acknowledged, Executed
  <1>6. ASSUME NEW c \in Calls, CallAcknowledged(c) PROVE FALSE
    BY <1>1, <1>3, <1>6 DEF CallAcknowledged, Acknowledged, Tasks
  <1>7. ASSUME NEW u \in Tasks, Decide(u) \/ Act(u), u # t PROVE FALSE
    BY <1>2, <1>3, <1>7 DEF Decide, Act, Done
  <1>8. ASSUME NEW u \in Tasks, EvaluationResumes(u) PROVE FALSE
    <2>1. u # t
      BY <1>1, <1>8 DEF EvaluationResumes
    <2> QED
      BY <1>2, <1>3, <1>7, <1>8, <2>1 DEF EvaluationResumes, Done
  <1>9. ASSUME NEW c \in Calls, CallResumes(c) \/ TurnOn(c) \/ TurnOffManual(c)
        PROVE  FALSE
    <2>1. c \in Tasks /\ c # t
      BY <1>1, <1>9 DEF CallResumes, TurnOn, TurnOffManual, Tasks
    <2>2. ~\E m : Enter(c, m)
      BY <1>2, <1>3, <2>1 DEF Enter
    <2> QED
      BY <1>2, <1>9, <2>1, <2>2 DEF CallResumes, TurnOn, TurnOffManual
  <1>10. ASSUME NEW u \in Tasks, CommandFails(u) PROVE FALSE
    <2>1. Goto(u, "idle")
      BY <1>10 DEF CommandFails, EvaluationFailed, Done
    <2>2. u = t
      BY <1>3, <2>1
    <2> QED
      BY <2>1, <2>2, EvaluationPlaces DEF Goto, TypeOK
  <1>11. ~ListenerTurn
    BY <1>1, <1>7 DEF ListenerTurn, Tasks
  <1>12. ~Restart
    BY EvaluationPlaces DEF Restart
  <1> QED
    BY <1>4, <1>5, <1>6, <1>8, <1>9, <1>10, <1>11, <1>12
    DEF Next, Acknowledge, Resume, TurnOffAuto, DaemonPoll, Refresh, LateCommand, FlameOut

(* Auto only starts the fan it means to stop when it decides on data that  *)
(* no longer shows the heater as it is, or when the daemon has another     *)
(* command while it has the toggle: one another task waits for, or one     *)
(* that was given up on before the decision (a toggle of Auto's that timed *)
(* out is carried out first, and the next one undoes it).  Without these   *)
(* its toggle ends the ventilation, whatever fails and whenever Home       *)
(* Assistant restarts.  TLC's counterexample to AutoNeverVentilates is of  *)
(* the first kind.                                                         *)
THEOREM AutoTogglesOffOnFact ==
    Spec /\ []ToggleAlone /\ [][ToggleOnFact]_vars => AutoNeverVentilates
  <1>1. Init => FanRuns
    BY DEF Init, FanRuns, Tasks
  <1>2. TypeOK /\ OneEvaluation /\ FanRuns /\ ToggleAlone
            /\ [Next]_vars /\ [ToggleOnFact]_vars => FanRuns'
    <2> SUFFICES ASSUME TypeOK, OneEvaluation, FanRuns, ToggleAlone,
                        [Next]_vars, [ToggleOnFact]_vars
                 PROVE  FanRuns'
      OBVIOUS
    <2> SUFFICES ASSUME NEW t \in Tasks, pc'[t] = "unventing"
                 PROVE  heater' = "ventilation"
      BY DEF FanRuns
    <2>1. CASE pc[t] = "unventing"
      BY <2>1, FanLeftAlone DEF FanRuns
    <2>2. CASE pc[t] # "unventing"
      <3>1. ToggleOnFact
        BY <2>2 DEF vars
      <3> QED
        BY <2>2, <3>1, ToggleDecided DEF ToggleOnFact
    <2> QED
      BY <2>1, <2>2
  <1>3. TypeOK /\ OneEvaluation /\ CommandFits /\ FanRuns /\ [Next]_vars
            => [AutoCommand("ventilation") => heater' # "ventilation"]_vars
    BY ToggleEndsFan
  <1> QED
    BY <1>1, <1>2, <1>3, ModeTypeCorrect, OneEvaluationHolds, CommandsFitPlaces,
       PTL
    DEF Spec, AutoNeverVentilates

-----------------------------------------------------------------------------
(* Mode changes. *)

ToMode == {"leaving", "left", "entering"}

(* One call at a time is on its way to a mode, and when it is about to     *)
(* record it, it finds no mode recorded.                                   *)
OneToMode == \A c, d \in Calls : pc[c] \in ToMode /\ pc[d] \in ToMode => c = d

EntersFromOff ==
    \A c \in Calls : pc[c] \in {"left", "entering"} => active_mode = "off"

(* A mode is turned on only while no other call is on its way to one. *)
Alone ==
    \A c \in Calls : TurnOn(c) => \A d \in Calls \ {c} : pc[d] \notin ToMode

LEMMA WayMoved ==
    ASSUME TypeOK, OneToMode, EntersFromOff, NEW t \in Tasks, NEW place,
           pc' = [pc EXCEPT ![t] = place],
           place \in ToMode => \A d \in Calls \ {t} : pc[d] \notin ToMode,
           place \in {"left", "entering"} => active_mode' = "off",
           \/ active_mode' \in {active_mode, "off"}
           \/ \A d \in Calls \ {t} : pc[d] \notin ToMode
    PROVE  OneToMode' /\ EntersFromOff'
  <1>1. /\ pc'[t] = place
        /\ \A u \in Tasks \ {t} : pc'[u] = pc[u]
        /\ Calls \subseteq Tasks
    BY DEF TypeOK, Tasks
  <1>2. OneToMode'
    BY <1>1 DEF OneToMode
  <1>3. EntersFromOff'
    BY <1>1 DEF EntersFromOff, ToMode
  <1> QED
    BY <1>2, <1>3

LEMMA WayEntered ==
    ASSUME TypeOK, OneToMode, EntersFromOff, NEW c \in Calls, NEW m, Enter(c, m),
           active_mode = "off", \A d \in Calls \ {c} : pc[d] \notin ToMode
    PROVE  OneToMode' /\ EntersFromOff'
  BY WayMoved DEF Enter, Send, Goto, ToMode, Tasks

LEMMA WayStep ==
    ASSUME TypeOK, OneToMode, EntersFromOff, [Next]_vars, [Alone]_vars
    PROVE  OneToMode' /\ EntersFromOff'
  <1> DEFINE Goal == OneToMode' /\ EntersFromOff'
  <1>1. ASSUME NEW t \in Tasks, NEW place, pc' = [pc EXCEPT ![t] = place],
               place \notin ToMode, active_mode' \in {active_mode, "off"}
        PROVE  Goal
    BY <1>1, WayMoved DEF ToMode
  <1>2. ASSUME NEW c \in Calls, pc[c] \in ToMode
        PROVE  \A d \in Calls \ {c} : pc[d] \notin ToMode
    BY <1>2 DEF OneToMode
  <1>3. ASSUME NEW t \in Tasks, Decide(t) \/ Act(t), UNCHANGED active_mode
        PROVE  Goal
    BY <1>1, <1>3 DEF Decide, Act, Done, Send, Goto, ToMode
  <1>4. ASSUME NEW t \in Tasks, EvaluationAcknowledged(t)
        PROVE  Goal
    BY <1>1, <1>4 DEF EvaluationAcknowledged, Goto, ToMode
  <1>5. ASSUME NEW c \in Calls, CallAcknowledged(c)
        PROVE  Goal
    <2>1. CASE pc[c] = "leaving" /\ active_mode' = "off" /\ Goto(c, "left")
      BY <1>2, <2>1, WayMoved DEF Goto, ToMode, Tasks
    <2>2. CASE pc[c] = "entering" /\ Goto(c, "idle")
      BY <1>2, <2>2, WayMoved DEF Goto, ToMode, Tasks
    <2>3. CASE active_mode' = "off" /\ Goto(c, "idle")
      BY <1>1, <2>3 DEF Goto, ToMode, Tasks
    <2> QED
      BY <1>5, <2>1, <2>2, <2>3 DEF CallAcknowledged, Acknowledged
  <1>6. ASSUME NEW t \in Tasks, EvaluationResumes(t)
        PROVE  Goal
    BY <1>1, <1>3, <1>6 DEF EvaluationResumes, Done, Send, Goto, ToMode
  <1>7. ASSUME NEW c \in Calls, CallResumes(c)
        PROVE  Goal
    <2>1. pc[c] = "left" /\ Enter(c, goal[c])
      BY <1>7 DEF CallResumes
    <2>2. active_mode = "off" /\ \A d \in Calls \ {c} : pc[d] \notin ToMode
      BY <1>2, <2>1 DEF EntersFromOff, ToMode
    <2> QED
      BY <2>1, <2>2, WayEntered
  <1>8. ASSUME NEW t \in Tasks, CommandFails(t)
        PROVE  Goal
    BY <1>1, <1>8 DEF CommandFails, EvaluationFailed, Done, Goto, ToMode
  <1>9. CASE UNCHANGED <<pc, active_mode>>
    BY <1>9 DEF OneToMode, EntersFromOff
  <1>10. ASSUME NEW c \in Calls, TurnOn(c)
        PROVE  Goal
    <2>1. CASE UNCHANGED vars
      BY <1>9, <2>1 DEF vars
    <2>2. CASE Alone
      <3>1. \A d \in Calls \ {c} : pc[d] \notin ToMode
        BY <1>10, <2>2 DEF Alone
      <3>2. CASE \E m : Enter(c, m) /\ active_mode = "off"
        BY <3>1, <3>2, WayEntered
      <3>3. CASE \E m : Send(c, LeaveCommand(m), "leaving") /\ UNCHANGED active_mode
        BY <3>1, <3>3, WayMoved DEF Send, Tasks
      <3> QED
        BY <1>10, <3>2, <3>3 DEF TurnOn
    <2> QED
      BY <2>1, <2>2
  <1>11. ASSUME NEW c \in Calls, TurnOffManual(c)
        PROVE  Goal
    BY <1>1, <1>11 DEF TurnOffManual, Send, ToMode, Tasks
  <1>12. ASSUME NEW c \in Calls, TurnOffAuto(c)
        PROVE  Goal
    BY <1>12 DEF TurnOffAuto, OneToMode, EntersFromOff
  <1>13. CASE ListenerTurn
    BY <1>3, <1>13 DEF ListenerTurn, Tasks
  <1>14. CASE Restart
    BY <1>14 DEF Restart, OneToMode, EntersFromOff, ToMode, Tasks
  <1> QED
    BY <1>4, <1>5, <1>6, <1>7, <1>8, <1>9, <1>10, <1>11, <1>12, <1>13, <1>14
    DEF Next, Acknowledge, Resume, DaemonPoll, Refresh, LateCommand, FlameOut, vars

LEMMA ModeStep ==
    ASSUME EntersFromOff, [Next]_vars,
           active_mode # "off", active_mode' # active_mode
    PROVE  active_mode' = "off"
  <1> USE DEF EntersFromOff
  <1>1. ASSUME NEW c \in Calls, CallAcknowledged(c)
        PROVE  active_mode' = "off"
    BY <1>1 DEF CallAcknowledged, Acknowledged
  <1>2. ASSUME NEW c \in Calls, CallResumes(c) \/ TurnOn(c)
        PROVE  active_mode' = "off"
    BY <1>2 DEF CallResumes, TurnOn
  <1>3. ASSUME NEW c \in Calls, TurnOffManual(c) \/ TurnOffAuto(c)
        PROVE  active_mode' = "off"
    BY <1>3 DEF TurnOffManual, TurnOffAuto
  <1>4. CASE Restart
    BY <1>4 DEF Restart
  <1> QED
    BY <1>1, <1>2, <1>3, <1>4
    DEF Next, Acknowledge, Resume, EvaluationAcknowledged, EvaluationResumes,
        CommandFails, ListenerTurn, DaemonPoll, Refresh, LateCommand, FlameOut, vars

(* Whatever fails, and whenever Home Assistant restarts, a mode is left    *)
(* before another one is recorded, for any number of calls, if none turns  *)
(* a mode on while another is on its way to one: such an overlap is the    *)
(* only way to break the rule (TLC shows that it does).                    *)
THEOREM ModesPassThroughOffAlone ==
    Spec /\ [][Alone]_vars => ModesPassThroughOff
  <1>1. Init => OneToMode /\ EntersFromOff
    BY DEF Init, OneToMode, EntersFromOff, ToMode, Tasks
  <1>2. TypeOK /\ OneToMode /\ EntersFromOff /\ [Next]_vars /\ [Alone]_vars
            => (OneToMode /\ EntersFromOff)'
    BY WayStep
  <1>3. EntersFromOff /\ [Next]_vars
            => [active_mode # "off" /\ active_mode' # active_mode
                   => active_mode' = "off"]_vars
    BY ModeStep
  <1> QED
    BY <1>1, <1>2, <1>3, ModeTypeCorrect, PTL DEF Spec, ModesPassThroughOff

(* In particular a single call at a time always passes through "off". *)
THEOREM ModesPassThroughOffHolds ==
    ASSUME \A c, d \in Calls : c = d
    PROVE  Spec => ModesPassThroughOff
  <1>1. Alone
    BY DEF Alone
  <1>2. [][Alone]_vars
    BY <1>1, PTL
  <1> QED
    BY <1>2, ModesPassThroughOffAlone, PTL

=============================================================================
