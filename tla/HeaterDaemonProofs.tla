------------------------- MODULE HeaterDaemonProofs -------------------------
(***************************************************************************)
(* Proofs about HeaterDaemon, for any set of clients and any bounds.       *)
(***************************************************************************)
EXTENDS HeaterDaemon, TLAPS

-----------------------------------------------------------------------------
(* The helpers keep their types. *)

LEMMA StatusTypes ==
    ASSUME NEW s \in Status, NEW b \in BOOLEAN
    PROVE  /\ MarkConnected(s, b) \in Status
           /\ MarkConnecting(s, b) \in Status
           /\ MarkSuccess(s) \in Status
           /\ MarkFailure(s) \in Status
           /\ ScheduleRetry(s) \in Status
  <1>1. MarkConnected(s, b) \in Status
    <2>1. CASE b = TRUE
      BY <2>1 DEF Status, MarkConnected
    <2>2. CASE b = FALSE
      BY <2>2 DEF Status, MarkConnected
    <2> QED
      BY <2>1, <2>2
  <1>2. MarkConnecting(s, b) \in Status
    <2>1. CASE b = TRUE
      BY <2>1 DEF Status, MarkConnecting
    <2>2. CASE b = FALSE
      BY <2>2 DEF Status, MarkConnecting
    <2> QED
      BY <2>1, <2>2
  <1>3. MarkSuccess(s) \in Status
    <2>1. 0 \in 0 .. FailureCap
      BY FailureCapAssumption
    <2> QED
      BY <2>1, Zenon DEF Status, MarkSuccess
  <1>4. MarkFailure(s) \in Status
    <2> DEFINE n == IF s.failures < FailureCap THEN s.failures + 1
                                               ELSE s.failures
    <2>1. n \in 0 .. FailureCap
      BY FailureCapAssumption DEF Status
    <2>2. MarkFailure(s) = [s EXCEPT !.failures = n, !.connecting = FALSE]
      BY DEF MarkFailure
    <2> HIDE DEF n
    <2> QED
      BY <2>1, <2>2 DEF Status
  <1>5. ScheduleRetry(s) \in Status
    BY DEF Status, ScheduleRetry
  <1> QED
    BY <1>1, <1>2, <1>3, <1>4, <1>5

LEMMA PollFailureType ==
    ASSUME NEW s \in Status, NEW up \in BOOLEAN
    PROVE  PollFailure(s, up) \in Status
  BY StatusTypes DEF PollFailure

LEMMA NewStatusType == NewStatus \in Status
  BY FailureCapAssumption DEF NewStatus, Status

LEMMA LockTypes ==
    ASSUME NEW l \in LockOf(Tasks), NEW t \in Tasks
    PROVE  /\ FreeLock \in LockOf(Tasks)
           /\ Acquired(l, t) \in LockOf(Tasks)
           /\ Enqueued(l, t) \in LockOf(Tasks)
           /\ Released(l) \in LockOf(Tasks)
           /\ Woken(l, t) => Resumed(l, t) \in LockOf(Tasks)
  BY DEF LockOf, FreeLock, Acquired, Enqueued, Released, Resumed, Woken

LEMMA FreeLockType == FreeLock \in LockOf(Tasks)
  BY DEF FreeLock, LockOf

LEMMA AnsweredTypes ==
    ASSUME TypeOK, NEW t \in Tasks, NEW r \in Replies, Answered(t, r)
    PROVE  /\ pc' \in [Tasks -> Pcs]
           /\ req' \in [Tasks -> Requests]
           /\ reply' \in [Clients -> Replies]
  BY DEF TypeOK, Answered, Pcs, Requests

LEMMA PollFailedTypes ==
    ASSUME TypeOK, NEW t \in Tasks, NEW s \in Status, NEW up \in BOOLEAN,
           PollFailed(t, s, up)
    PROVE  /\ status' \in Status
           /\ poll_lock' \in LockOf(Tasks)
           /\ pc' \in [Tasks -> Pcs]
           /\ req' \in [Tasks -> Requests]
           /\ reply' \in [Clients -> Replies]
  BY PollFailureType, LockTypes, AnsweredTypes DEF TypeOK, PollFailed, Replies

LEMMA RaisedTypes ==
    ASSUME TypeOK, NEW t \in Tasks, NEW s \in Status, NEW up \in BOOLEAN,
           Raised(t, s, up)
    PROVE  /\ status' \in Status
           /\ poll_lock' \in LockOf(Tasks)
           /\ command_lock' \in LockOf(Tasks)
           /\ pc' \in [Tasks -> Pcs]
           /\ req' \in [Tasks -> Requests]
           /\ reply' \in [Clients -> Replies]
  BY PollFailedTypes, AnsweredTypes, LockTypes DEF TypeOK, Raised, Replies

LEMMA BeginSendTypes ==
    ASSUME TypeOK, NEW t \in Tasks, BeginSend(t)
    PROVE  /\ status' \in Status
           /\ characteristics' \subseteq {"read", "write"}
           /\ connect_lock' \in LockOf(Tasks)
           /\ pc' \in [Tasks -> Pcs]
  <1>0. /\ status \in Status /\ connect_lock \in LockOf(Tasks)
        /\ characteristics \subseteq {"read", "write"}
        /\ pc \in [Tasks -> Pcs]
        /\ {"writing", "scanning"} \subseteq Pcs
    BY DEF TypeOK, Pcs, Sending, Connecting
  <1> QED
    BY <1>0, StatusTypes, LockTypes DEF BeginSend, StartWrite

LEMMA RequestCommandLockTypes ==
    ASSUME TypeOK, NEW t \in Tasks, RequestCommandLock(t)
    PROVE  /\ status' \in Status
           /\ characteristics' \subseteq {"read", "write"}
           /\ command_lock' \in LockOf(Tasks)
           /\ connect_lock' \in LockOf(Tasks)
           /\ pc' \in [Tasks -> Pcs]
  <1>0. /\ status \in Status
        /\ command_lock \in LockOf(Tasks) /\ connect_lock \in LockOf(Tasks)
        /\ characteristics \subseteq {"read", "write"}
        /\ pc \in [Tasks -> Pcs] /\ "cmd_wait" \in Pcs
    BY DEF TypeOK, Pcs
  <1>1. CASE BeginSend(t) /\ command_lock' = Acquired(command_lock, t)
    BY <1>0, <1>1, BeginSendTypes, LockTypes
  <1>2. CASE /\ command_lock' = Enqueued(command_lock, t)
             /\ pc' = [pc EXCEPT ![t] = "cmd_wait"]
             /\ UNCHANGED <<status, characteristics, connect_lock>>
    BY <1>0, <1>2, LockTypes
  <1> QED
    BY <1>1, <1>2 DEF RequestCommandLock

(* The poll's own relabelling is applied to an empty queue. *)
LEMMA GetDataTypes ==
    ASSUME TypeOK, NEW t \in Tasks, GetData(t)
    PROVE  /\ status' \in Status
           /\ characteristics' \subseteq {"read", "write"}
           /\ command_lock' \in LockOf(Tasks)
           /\ connect_lock' \in LockOf(Tasks)
           /\ pc' \in [Tasks -> Pcs]
           /\ data_queue' = << >>
  <1>1. data_queue' = [i \in DOMAIN << >> |-> [<< >>[i] EXCEPT !.current = FALSE]]
    BY Zenon DEF GetData, Drained
  <1>2. DOMAIN << >> = {}
    OBVIOUS
  <1>3. data_queue' = << >>
    BY <1>1, <1>2
  <1> QED
    BY <1>3, RequestCommandLockTypes DEF GetData

LEMMA PollOnceTypes ==
    ASSUME TypeOK, NEW t \in Tasks, PollOnce(t)
    PROVE  /\ status' \in Status
           /\ characteristics' \subseteq {"read", "write"}
           /\ data_queue' \in Seq(Frame)
           /\ poll_lock' \in LockOf(Tasks)
           /\ command_lock' \in LockOf(Tasks)
           /\ connect_lock' \in LockOf(Tasks)
           /\ pc' \in [Tasks -> Pcs]
  <1>1. CASE Available(poll_lock) /\ poll_lock' = Acquired(poll_lock, t) /\ GetData(t)
    BY <1>1, GetDataTypes, LockTypes, << >> \in Seq(Frame) DEF TypeOK
  <1>2. CASE /\ poll_lock' = Enqueued(poll_lock, t)
             /\ pc' = [pc EXCEPT ![t] = "poll_wait"]
             /\ UNCHANGED <<status, characteristics, data_queue,
                            command_lock, connect_lock>>
    BY <1>2, LockTypes DEF TypeOK, Pcs
  <1> QED
    BY <1>1, <1>2 DEF PollOnce

-----------------------------------------------------------------------------
(* Type correctness. *)

LEMMA TypeOKInit == Init => TypeOK
  BY NewStatusType, FreeLockType, << >> \in Seq(Frame)
  DEF Init, TypeOK, Pcs, Requests, Replies

LEMMA TypeOKTaskStep ==
    ASSUME TypeOK, NEW t \in Tasks, TaskStep(t)
    PROVE  TypeOK'
  <1> USE DEF TypeOK
  <1>1. CASE CommandGranted(t)
    BY <1>1, BeginSendTypes, LockTypes DEF CommandGranted
  <1>2. CASE PollGranted(t)
    BY <1>2, GetDataTypes, LockTypes, << >> \in Seq(Frame) DEF PollGranted
  <1>3. CASE ScanFindsDevice(t)
    BY <1>3 DEF ScanFindsDevice, heaterVars, lockVars, Pcs, Sending, Connecting
  <1>4. CASE ScanRaises(t)
    BY <1>4, RaisedTypes, LockTypes DEF ScanRaises
  <1>5. CASE ConnectionFails(t)
    <2> DEFINE s == MarkConnected(MarkConnecting(status, FALSE), FALSE)
    <2>1. s \in Status
      BY StatusTypes
    <2>2. Raised(t, s, FALSE)
      BY <1>5 DEF ConnectionFails
    <2> HIDE DEF s
    <2> QED
      BY <1>5, <2>1, <2>2, RaisedTypes, LockTypes
      DEF ConnectionFails, ForgetCharacteristics
  <1>6. CASE EstablishDone(t)
    BY <1>6 DEF EstablishDone, lockVars, Pcs, Sending, Connecting
  <1>7. CASE SubscribeDone(t)
    <2>1. MarkConnected(status, TRUE) \in Status
      BY StatusTypes
    <2>2. CASE StartWrite(t, MarkConnected(status, TRUE))
               /\ UNCHANGED <<poll_lock, command_lock, req, reply>>
      BY <1>7, <2>1, <2>2, LockTypes
      DEF SubscribeDone, StartWrite, Pcs, Sending
    <2>3. CASE Raised(t, MarkConnected(status, TRUE), FALSE)
               /\ UNCHANGED characteristics
      BY <1>7, <2>1, <2>3, RaisedTypes, LockTypes DEF SubscribeDone
    <2> QED
      BY <1>7, <2>2, <2>3 DEF SubscribeDone
  <1>8. CASE WriteDone(t)
    <2>1. CASE ~Polling(t)
      <3>1. t \in Clients
        BY <2>1 DEF Polling, Tasks
      <3>2. Answered(t, "OK") /\ writes' \in [Clients -> Nat]
        BY <1>8, <2>1, <3>1 DEF WriteDone
      <3> QED
        BY <1>8, <3>2, AnsweredTypes, LockTypes
        DEF WriteDone, heaterVars, Replies
    <2>2. CASE Polling(t)
      BY <1>8, <2>2, LockTypes DEF WriteDone, heaterVars, Pcs
    <2> QED
      BY <2>1, <2>2
  <1>9. CASE WriteFails(t)
    <2>1. writes' \in [Clients -> Nat]
      BY <1>9 DEF WriteFails, Polling, Tasks
    <2>2. (link = "up") \in BOOLEAN
      OBVIOUS
    <2> QED
      BY <1>9, <2>1, <2>2, RaisedTypes DEF WriteFails
  <1>10. CASE Receive(t)
    <2>1. /\ data_queue' \in Seq(Frame)
          /\ heater_response' \in Frame \cup {NoFrame}
      BY <1>10 DEF Receive
    <2>2. MarkConnected(MarkSuccess(status), TRUE) \in Status
      BY StatusTypes
    <2>3. CASE /\ status' = MarkConnected(MarkSuccess(status), TRUE)
               /\ poll_lock' = Released(poll_lock)
               /\ Answered(t, "frame")
      BY <1>10, <2>1, <2>2, <2>3, AnsweredTypes, LockTypes DEF Receive, Replies
    <2>4. CASE PollFailed(t, status, link = "up")
      BY <1>10, <2>1, <2>4, PollFailedTypes DEF Receive
    <2> QED
      BY <1>10, <2>3, <2>4 DEF Receive
  <1>11. CASE ReadTimeout(t)
    BY <1>11, PollFailedTypes DEF ReadTimeout
  <1> QED
    BY <1>1, <1>2, <1>3, <1>4, <1>5, <1>6, <1>7, <1>8, <1>9, <1>10, <1>11
    DEF TaskStep

LEMMA TypeOKClientStep ==
    ASSUME TypeOK, NEW c \in Clients, ClientConnect(c) \/ HandleRequest(c)
    PROVE  TypeOK'
  <1> USE DEF TypeOK
  <1>0. c \in Tasks
    BY DEF Tasks
  <1>1. CASE ClientConnect(c)
    BY <1>1 DEF ClientConnect, heaterVars, lockVars, Pcs, Replies
  <1>2. ASSUME NEW r \in Replies, Immediately(c, r)
        PROVE  TypeOK'
    BY <1>0, <1>2, AnsweredTypes DEF Immediately, heaterVars, lockVars
  <1>3. CASE \/ ClientCloses(c) \/ StatusQuery(c) \/ PumpData(c)
             \/ Malformed(c) \/ PollInProgress(c)
    BY <1>2, <1>3
    DEF ClientCloses, StatusQuery, PumpData, Malformed, PollInProgress, Replies
  <1>4. CASE PumpDataForce(c)
    BY <1>0, <1>4, PollOnceTypes DEF PumpDataForce, Requests
  <1>5. CASE SendCommand(c)
    BY <1>0, <1>5, RequestCommandLockTypes DEF SendCommand, Requests
  <1> QED
    BY <1>1, <1>3, <1>4, <1>5 DEF HandleRequest

LEMMA TypeOKEnvironment ==
    ASSUME TypeOK, Environment
    PROVE  TypeOK'
  <1> USE DEF TypeOK
  <1>1. CASE HandleDisconnect
    BY <1>1, StatusTypes
    DEF HandleDisconnect, ForgetCharacteristics, lockVars, taskVars
  <1>2. ASSUME NEW t \in Tasks, AttemptDrops(t)
        PROVE  TypeOK'
    BY <1>2, StatusTypes
    DEF AttemptDrops, ForgetCharacteristics, lockVars, taskVars
  <1>3. CASE DataHandler
    BY <1>3 DEF DataHandler, Frame, lockVars, taskVars
  <1>4. CASE RetryDue
    BY <1>4 DEF RetryDue, Status, lockVars, taskVars
  <1>5. CASE DataAges
    BY <1>5 DEF DataAges, Status, lockVars, taskVars
  <1> QED
    BY <1>1, <1>2, <1>3, <1>4, <1>5 DEF Environment

LEMMA TypeOKStep == TypeOK /\ [Next]_vars => TypeOK'
  <1> SUFFICES ASSUME TypeOK, [Next]_vars
               PROVE  TypeOK'
    OBVIOUS
  <1>1. ASSUME NEW t \in Tasks, TaskStep(t)
        PROVE  TypeOK'
    BY <1>1, TypeOKTaskStep
  <1>2. CASE PollLoopTurn
    BY <1>2, PollOnceTypes DEF PollLoopTurn, Tasks, TypeOK
  <1>3. ASSUME NEW c \in Clients, ClientConnect(c) \/ HandleRequest(c)
        PROVE  TypeOK'
    BY <1>3, TypeOKClientStep
  <1>4. CASE Environment
    BY <1>4, TypeOKEnvironment
  <1>5. CASE Shutdown
    BY <1>5, StatusTypes, FreeLockType
    DEF Shutdown, StopRequested, CancelPoll, Disconnected, ForgetCharacteristics,
        heaterVars, lockVars, taskVars, TypeOK, Pcs
  <1>6. CASE Terminated \/ UNCHANGED vars
    BY <1>6 DEF Terminated, vars, heaterVars, lockVars, taskVars, TypeOK
  <1> QED
    BY <1>1, <1>2, <1>3, <1>4, <1>5, <1>6 DEF Next

(* Every variable of the daemon keeps its type in every behaviour. *)
THEOREM TypeCorrect == Spec => []TypeOK
  BY TypeOKInit, TypeOKStep, PTL DEF Spec

-----------------------------------------------------------------------------
(* Where the tasks stand. *)

(* Where a task in poll_once is after it obtained poll_lock. *)
InPoll == Sending \cup {"cmd_wait", "awaiting"}

(* Only a poll waits for a frame. *)
AwaitersPoll == \A t \in Tasks : pc[t] = "awaiting" => Polling(t)

(* heater.disconnect() runs when every task is gone. *)
StoppedTasks ==
    ~Running => \A t \in Tasks : pc[t] \in {"idle", "cancelled"}

TaskInv == AwaitersPoll /\ StoppedTasks

(* A task steps only inside its work, and disturbs no other task. *)
LEMMA TaskStepFrame ==
    ASSUME TypeOK, NEW t \in Tasks, TaskStep(t)
    PROVE  /\ pc[t] \in InPoll \cup {"poll_wait"}
           /\ \A u \in Tasks \ {t} : pc'[u] = pc[u] /\ req'[u] = req[u]
           /\ pc'[t] = "awaiting" => Polling(t) /\ UNCHANGED req
           /\ server' = server
  <1> USE DEF TypeOK, InPoll, Sending, Connecting
  <1>1. ASSUME BeginSend(t)
        PROVE  /\ \A u \in Tasks \ {t} : pc'[u] = pc[u]
               /\ pc'[t] \in Sending
    BY <1>1 DEF BeginSend, StartWrite
  <1>2. ASSUME GetData(t)
        PROVE  /\ \A u \in Tasks \ {t} : pc'[u] = pc[u]
               /\ pc'[t] \in Sending \cup {"cmd_wait"}
    BY <1>1, <1>2 DEF GetData, RequestCommandLock
  <1>3. ASSUME NEW r, Answered(t, r)
        PROVE  /\ \A u \in Tasks \ {t} : pc'[u] = pc[u] /\ req'[u] = req[u]
               /\ pc'[t] = "idle"
    BY <1>3 DEF Answered
  <1>4. ASSUME NEW s, NEW up, Raised(t, s, up)
        PROVE  /\ \A u \in Tasks \ {t} : pc'[u] = pc[u] /\ req'[u] = req[u]
               /\ pc'[t] = "idle"
    BY <1>3, <1>4 DEF Raised, PollFailed
  <1>5. CASE CommandGranted(t) \/ PollGranted(t)
    BY <1>1, <1>2, <1>5 DEF CommandGranted, PollGranted
  <1>6. CASE ScanFindsDevice(t) \/ EstablishDone(t)
    BY <1>6 DEF ScanFindsDevice, EstablishDone
  <1>7. CASE ScanRaises(t) \/ ConnectionFails(t) \/ WriteFails(t)
    BY <1>4, <1>7 DEF ScanRaises, ConnectionFails, WriteFails
  <1>8. CASE SubscribeDone(t)
    BY <1>4, <1>8 DEF SubscribeDone, StartWrite
  <1>9. CASE WriteDone(t)
    BY <1>3, <1>9 DEF WriteDone
  <1>10. CASE Receive(t) \/ ReadTimeout(t)
    BY <1>3, <1>10 DEF Receive, ReadTimeout, PollFailed
  <1> QED
    BY <1>5, <1>6, <1>7, <1>8, <1>9, <1>10 DEF TaskStep

(* A connection and a request move one client, from idle or reading. *)
LEMMA ClientStepFrame ==
    ASSUME TypeOK, NEW c \in Clients, ClientConnect(c) \/ HandleRequest(c)
    PROVE  /\ pc[c] \in {"idle", "reading"}
           /\ pc'[c] # "awaiting"
           /\ \A u \in Tasks \ {c} : pc'[u] = pc[u] /\ req'[u] = req[u]
           /\ server' = server
           /\ ~Running => pc[c] = "reading"
  <1> USE DEF TypeOK, Running
  <1>1. ASSUME RequestCommandLock(c)
        PROVE  /\ \A u \in Tasks \ {c} : pc'[u] = pc[u]
               /\ pc'[c] # "awaiting"
    BY <1>1 DEF RequestCommandLock, BeginSend, StartWrite, Tasks
  <1>2. CASE SendCommand(c)
    BY <1>1, <1>2 DEF SendCommand
  <1>3. CASE PumpDataForce(c)
    BY <1>1, <1>3 DEF PumpDataForce, PollOnce, GetData, Tasks
  <1>4. ASSUME NEW r, Immediately(c, r)
        PROVE  /\ pc[c] = "reading" /\ pc'[c] = "idle" /\ server' = server
               /\ \A u \in Tasks \ {c} : pc'[u] = pc[u] /\ req'[u] = req[u]
    BY <1>4 DEF Immediately, Answered, Tasks
  <1>5. CASE \/ ClientCloses(c) \/ StatusQuery(c) \/ PumpData(c)
             \/ Malformed(c) \/ PollInProgress(c)
    BY <1>4, <1>5
    DEF ClientCloses, StatusQuery, PumpData, Malformed, PollInProgress
  <1>6. CASE ClientConnect(c)
    BY <1>6 DEF ClientConnect, Tasks
  <1> QED
    BY <1>2, <1>3, <1>5, <1>6 DEF HandleRequest

(* The poll loop's own turn. *)
LEMMA PollLoopFrame ==
    ASSUME TypeOK, PollLoopTurn
    PROVE  /\ Running /\ pc[Poller] = "idle"
           /\ pc'[Poller] # "awaiting"
           /\ \A u \in Clients : pc'[u] = pc[u]
           /\ UNCHANGED <<req, server>>
  <1>1. PollOnce(Poller)
    BY DEF PollLoopTurn
  <1>2. pc' \in {[pc EXCEPT ![Poller] = p] :
                    p \in {"poll_wait", "cmd_wait", "scanning", "writing"}}
    BY <1>1 DEF PollOnce, GetData, RequestCommandLock, BeginSend, StartWrite
  <1> QED
    BY <1>2, PollerAssumption DEF PollLoopTurn, TypeOK, Tasks

LEMMA TaskInvStep ==
    ASSUME TypeOK, TaskInv, [Next]_vars
    PROVE  TaskInv'
  <1> USE DEF TaskInv, AwaitersPoll, StoppedTasks, Polling, Running
  <1>1. ASSUME NEW t \in Tasks, TaskStep(t)
        PROVE  TaskInv'
    BY <1>1, TaskStepFrame DEF InPoll, Sending, Connecting
  <1>2. CASE PollLoopTurn
    BY <1>2, PollLoopFrame DEF Tasks
  <1>3. ASSUME NEW c \in Clients, ClientConnect(c) \/ HandleRequest(c)
        PROVE  TaskInv'
    BY <1>3, ClientStepFrame, PollerAssumption DEF Tasks, ClientConnect
  <1>4. CASE Environment
    BY <1>4
    DEF Environment, HandleDisconnect, AttemptDrops, DataHandler, RetryDue,
        DataAges, taskVars
  <1>5. CASE Shutdown
    BY <1>5
    DEF Shutdown, StopRequested, CancelPoll, Disconnected, HandlersDone,
        taskVars, TypeOK, Tasks
  <1>6. CASE Terminated \/ UNCHANGED vars
    BY <1>6 DEF Terminated, vars, taskVars
  <1> QED
    BY <1>1, <1>2, <1>3, <1>4, <1>5, <1>6 DEF Next

-----------------------------------------------------------------------------
(* Mutual exclusion.  None of the exclusion properties is inductive: a     *)
(* task is kept out of a section by the lock, so the invariant ties the    *)
(* place where a task stands to the locks it holds there.                  *)

SendersHold  == \A t \in Tasks : pc[t] \in Sending => command_lock.holder = t

ConnectorsHold == \A t \in Tasks : pc[t] \in Connecting <=> connect_lock.holder = t

PollersHold  == \A t \in Tasks : Polling(t) /\ pc[t] \in InPoll => poll_lock.holder = t

NobodyWaitsToConnect == connect_lock.waiters = << >>

LockInv ==
    /\ SendersHold
    /\ ConnectorsHold
    /\ PollersHold
    /\ NobodyWaitsToConnect

LEMMA LockInvInit == Init => LockInv
  BY NoTaskAssumption
  DEF Init, LockInv, SendersHold, ConnectorsHold, PollersHold,
      NobodyWaitsToConnect, FreeLock, Tasks, Sending, Connecting, InPoll

LEMMA LockInvBeginSend ==
    ASSUME TypeOK, LockInv, NEW t \in Tasks, pc[t] \notin Sending,
           ~Locked(command_lock), command_lock'.holder = t, BeginSend(t)
    PROVE  /\ SendersHold'
           /\ ConnectorsHold'
           /\ NobodyWaitsToConnect'
           /\ pc'[t] \in Sending
           /\ \A u \in Tasks \ {t} : pc'[u] = pc[u]
  <1> USE DEF Sending, Connecting
  <1>1. \A u \in Tasks : pc[u] \notin Sending
    BY NoTaskAssumption DEF LockInv, SendersHold, Locked, Tasks
  <1>2. CASE /\ StartWrite(t, MarkConnected(status, TRUE))
             /\ UNCHANGED connect_lock
    BY <1>1, <1>2
    DEF TypeOK, LockInv, SendersHold, ConnectorsHold, NobodyWaitsToConnect,
        StartWrite
  <1>3. CASE /\ connect_lock' = Acquired(connect_lock, t)
             /\ pc' = [pc EXCEPT ![t] = "scanning"]
    <2>1. connect_lock'.holder = t /\ connect_lock'.waiters = << >>
      BY <1>3 DEF TypeOK, LockOf, Acquired, LockInv, NobodyWaitsToConnect
    <2> QED
      BY <1>1, <1>3, <2>1
      DEF TypeOK, SendersHold, ConnectorsHold, NobodyWaitsToConnect
  <1> QED
    BY <1>2, <1>3 DEF BeginSend

(* A task outside the sections asks for _command_lock. *)
LEMMA LockInvRequest ==
    ASSUME TypeOK, LockInv, NEW t \in Tasks, pc[t] \notin Sending,
           RequestCommandLock(t)
    PROVE  /\ SendersHold'
           /\ ConnectorsHold'
           /\ NobodyWaitsToConnect'
           /\ pc'[t] \in InPoll
           /\ \A u \in Tasks \ {t} : pc'[u] = pc[u]
  <1>1. CASE Available(command_lock) /\ command_lock' = Acquired(command_lock, t)
             /\ BeginSend(t)
    <2>1. command_lock'.holder = t
      BY <1>1 DEF TypeOK, LockOf, Acquired
    <2> QED
      BY <1>1, <2>1, LockInvBeginSend DEF Available, InPoll
  <1>2. CASE /\ command_lock' = Enqueued(command_lock, t)
             /\ pc' = [pc EXCEPT ![t] = "cmd_wait"]
             /\ UNCHANGED connect_lock
    BY <1>2
    DEF TypeOK, LockOf, Enqueued, LockInv, SendersHold, ConnectorsHold,
        NobodyWaitsToConnect, InPoll, Sending, Connecting
  <1> QED
    BY <1>1, <1>2 DEF RequestCommandLock

(* A task leaves its sections: send_command raised. *)
LEMMA LockInvRaised ==
    ASSUME TypeOK, LockInv, NEW t \in Tasks, pc[t] \in Sending,
           NEW s, NEW up, Raised(t, s, up),
           connect_lock' = IF pc[t] \in Connecting THEN Released(connect_lock)
                                                   ELSE connect_lock
    PROVE  /\ SendersHold'
           /\ ConnectorsHold'
           /\ PollersHold'
           /\ NobodyWaitsToConnect'
           /\ \A u \in Tasks \ {t} : pc'[u] = pc[u]
  <1>1. /\ \A u \in Tasks \ {t} : pc'[u] = pc[u] /\ req'[u] = req[u]
        /\ pc'[t] = "idle"
    BY DEF Raised, PollFailed, Answered, TypeOK
  <1>2. \A u \in Tasks \ {t} : pc[u] \notin Sending
    BY DEF LockInv, SendersHold
  <1>3. SendersHold'
    BY <1>1, <1>2 DEF SendersHold, Sending, Connecting
  <1>4. connect_lock'.waiters = << >> /\ connect_lock'.holder \notin Tasks
    BY NoTaskAssumption
    DEF TypeOK, LockOf, LockInv, NobodyWaitsToConnect, ConnectorsHold,
        SendersHold, Released, Sending, Tasks
  <1>5. ConnectorsHold' /\ NobodyWaitsToConnect'
    BY <1>1, <1>2, <1>4
    DEF ConnectorsHold, NobodyWaitsToConnect, Sending, Connecting
  <1>6. PollersHold'
    <2>1. CASE Polling(t) /\ PollFailed(t, s, up)
      <3>1. \A u \in Tasks \ {t} : ~(Polling(u) /\ pc[u] \in InPoll)
        BY <2>1 DEF LockInv, PollersHold, InPoll
      <3> QED
        BY <1>1, <3>1 DEF PollersHold, Polling, InPoll, Sending, Connecting
    <2>2. CASE UNCHANGED poll_lock
      BY <1>1, <2>2 DEF LockInv, PollersHold, Polling, InPoll, Sending, Connecting
    <2> QED
      BY <2>1, <2>2 DEF Raised
  <1> QED
    BY <1>1, <1>3, <1>5, <1>6
(* A task obtains poll_lock, or queues on it. *)
LEMMA LockInvPoll ==
    ASSUME TypeOK, LockInv, NEW t \in Tasks, pc[t] \notin InPoll,
           \A u \in Tasks \ {t} : req'[u] = req[u],
           \/ ~Locked(poll_lock) /\ poll_lock'.holder = t /\ GetData(t)
           \/ PollOnce(t)
    PROVE  /\ SendersHold'
           /\ ConnectorsHold'
           /\ PollersHold'
           /\ NobodyWaitsToConnect'
           /\ pc'[t] \in InPoll \cup {"poll_wait"}
           /\ \A u \in Tasks \ {t} : pc'[u] = pc[u]
  <1>0. pc[t] \notin Sending
    BY DEF InPoll
  <1>1. CASE ~Locked(poll_lock) /\ poll_lock'.holder = t /\ GetData(t)
    <2>1. /\ SendersHold' /\ ConnectorsHold' /\ NobodyWaitsToConnect'
          /\ pc'[t] \in InPoll
          /\ \A u \in Tasks \ {t} : pc'[u] = pc[u]
      BY <1>0, <1>1, LockInvRequest DEF GetData
    <2>2. \A u \in Tasks : ~(Polling(u) /\ pc[u] \in InPoll)
      BY <1>1, NoTaskAssumption DEF LockInv, PollersHold, Locked, Tasks
    <2>3. PollersHold'
      BY <1>1, <2>1, <2>2 DEF PollersHold, Polling
    <2> QED
      BY <2>1, <2>3
  <1>2. CASE Available(poll_lock) /\ poll_lock' = Acquired(poll_lock, t) /\ GetData(t)
    <2>1. ~Locked(poll_lock) /\ poll_lock'.holder = t
      BY <1>2 DEF TypeOK, LockOf, Acquired, Available
    <2> QED
      BY <1>1, <1>2, <2>1
  <1>3. CASE /\ poll_lock' = Enqueued(poll_lock, t)
             /\ pc' = [pc EXCEPT ![t] = "poll_wait"]
             /\ UNCHANGED <<command_lock, connect_lock>>
    <2>1. poll_lock'.holder = poll_lock.holder
      BY <1>3 DEF TypeOK, LockOf, Enqueued
    <2> QED
      BY <1>0, <1>3, <2>1
      DEF TypeOK, LockInv, SendersHold, ConnectorsHold, PollersHold, Polling,
          NobodyWaitsToConnect, InPoll, Sending, Connecting
  <1> QED
    BY <1>1, <1>2, <1>3 DEF PollOnce

(* The poll of a task that holds poll_lock ends. *)
LEMMA LockInvAnswered ==
    ASSUME TypeOK, LockInv, NEW t \in Tasks, NEW r, Answered(t, r),
           pc[t] \notin Sending,
           UNCHANGED <<command_lock, connect_lock>>,
           UNCHANGED poll_lock \/ (Polling(t) /\ pc[t] \in InPoll)
    PROVE  /\ SendersHold'
           /\ ConnectorsHold'
           /\ PollersHold'
           /\ NobodyWaitsToConnect'
           /\ \A u \in Tasks \ {t} : pc'[u] = pc[u]
  <1>1. /\ \A u \in Tasks \ {t} : pc'[u] = pc[u] /\ req'[u] = req[u]
        /\ pc'[t] = "idle"
    BY DEF Answered, TypeOK
  <1>2. SendersHold' /\ ConnectorsHold' /\ NobodyWaitsToConnect'
    BY <1>1 DEF LockInv, SendersHold, ConnectorsHold, NobodyWaitsToConnect,
                Sending, Connecting
  <1>3. PollersHold'
    <2>1. CASE UNCHANGED poll_lock
      BY <1>1, <2>1 DEF LockInv, PollersHold, Polling, InPoll, Sending, Connecting
    <2>2. CASE Polling(t) /\ pc[t] \in InPoll
      BY <1>1, <2>2 DEF LockInv, PollersHold, Polling, InPoll, Sending, Connecting
    <2> QED
      BY <2>1, <2>2
  <1> QED
    BY <1>1, <1>2, <1>3

LEMMA LockInvTaskStep ==
    ASSUME TypeOK, TaskInv, LockInv, NEW t \in Tasks, TaskStep(t)
    PROVE  /\ SendersHold'
           /\ ConnectorsHold'
           /\ PollersHold'
           /\ NobodyWaitsToConnect'
  <1> USE DEF LockInv
  <1>1. CASE CommandGranted(t)
    <2>1. /\ pc[t] = "cmd_wait" /\ pc[t] \notin Sending
          /\ ~Locked(command_lock) /\ command_lock'.holder = t
          /\ BeginSend(t) /\ UNCHANGED <<poll_lock, req>>
      BY <1>1 DEF CommandGranted, Woken, Resumed, Sending, Connecting
    <2>2. /\ SendersHold' /\ ConnectorsHold' /\ NobodyWaitsToConnect'
          /\ \A u \in Tasks \ {t} : pc'[u] = pc[u]
      BY <2>1, LockInvBeginSend
    <2>3. PollersHold'
      BY <2>1, <2>2 DEF PollersHold, Polling, InPoll
    <2> QED
      BY <2>2, <2>3
  <1>2. CASE PollGranted(t)
    <2>1. /\ pc[t] \notin InPoll /\ ~Locked(poll_lock) /\ poll_lock'.holder = t
          /\ GetData(t) /\ req' = req
      BY <1>2 DEF PollGranted, Woken, Resumed, InPoll, Sending, Connecting
    <2> QED
      BY <2>1, LockInvPoll
  <1>3. CASE ScanFindsDevice(t)
    BY <1>3
    DEF ScanFindsDevice, lockVars, TypeOK, SendersHold, ConnectorsHold,
        PollersHold, Polling, NobodyWaitsToConnect, InPoll, Sending, Connecting
  <1>4. CASE ScanRaises(t)
    BY <1>4, LockInvRaised DEF ScanRaises, Sending, Connecting
  <1>5. CASE ConnectionFails(t)
    <2>1. pc[t] \in Sending /\ pc[t] \in Connecting
      BY <1>5 DEF ConnectionFails, Sending
    <2> QED
      BY <1>5, <2>1, LockInvRaised DEF ConnectionFails
  <1>6. CASE EstablishDone(t)
    BY <1>6
    DEF EstablishDone, lockVars, TypeOK, SendersHold, ConnectorsHold,
        PollersHold, Polling, NobodyWaitsToConnect, InPoll, Sending, Connecting
  <1>7. CASE SubscribeDone(t)
    <2>1. pc[t] \in Sending /\ pc[t] \in Connecting
      BY <1>7 DEF SubscribeDone, Sending, Connecting
    <2>2. CASE Raised(t, MarkConnected(status, TRUE), FALSE)
      BY <1>7, <2>1, <2>2, LockInvRaised DEF SubscribeDone
    <2>3. CASE /\ StartWrite(t, MarkConnected(status, TRUE))
               /\ UNCHANGED <<poll_lock, command_lock, req>>
      <3>1. \A u \in Tasks \ {t} : pc[u] \notin Sending
        BY <2>1 DEF SendersHold
      <3>2. connect_lock'.waiters = << >> /\ connect_lock'.holder \notin Tasks
        BY <1>7, NoTaskAssumption
        DEF SubscribeDone, TypeOK, LockOf, NobodyWaitsToConnect, Released, Tasks
      <3> QED
        BY <2>1, <2>3, <3>1, <3>2
        DEF StartWrite, TypeOK, SendersHold, ConnectorsHold, PollersHold,
            Polling, NobodyWaitsToConnect, InPoll, Sending, Connecting
    <2> QED
      BY <1>7, <2>2, <2>3 DEF SubscribeDone
  <1>8. CASE WriteDone(t)
    <2>1. pc[t] = "writing" /\ UNCHANGED <<poll_lock, connect_lock>>
      BY <1>8 DEF WriteDone
    <2>2. /\ pc'[t] \in {"awaiting", "idle"}
          /\ pc'[t] = "awaiting" => Polling(t) /\ UNCHANGED req
          /\ \A u \in Tasks \ {t} : pc'[u] = pc[u] /\ req'[u] = req[u]
      BY <1>8 DEF WriteDone, Answered, TypeOK
    <2>3. \A u \in Tasks \ {t} : pc[u] \notin Sending
      BY <2>1 DEF SendersHold, Sending
    <2> QED
      BY <2>1, <2>2, <2>3
      DEF SendersHold, ConnectorsHold, PollersHold, Polling,
          NobodyWaitsToConnect, InPoll, Sending, Connecting
  <1>9. CASE WriteFails(t)
    BY <1>9, LockInvRaised DEF WriteFails, Sending, Connecting
  <1>10. CASE Receive(t) \/ ReadTimeout(t)
    <2>1. Polling(t) /\ pc[t] \in InPoll /\ pc[t] \notin Sending
      BY <1>10
      DEF Receive, ReadTimeout, TaskInv, AwaitersPoll, InPoll, Sending, Connecting
    <2>2. PICK r \in Replies : Answered(t, r)
      BY <1>10 DEF Receive, ReadTimeout, PollFailed, Replies
    <2> QED
      BY <1>10, <2>1, <2>2, LockInvAnswered DEF Receive, ReadTimeout
  <1> QED
    BY <1>1, <1>2, <1>3, <1>4, <1>5, <1>6, <1>7, <1>8, <1>9, <1>10
    DEF TaskStep
LEMMA LockInvClientStep ==
    ASSUME TypeOK, LockInv, NEW c \in Clients, ClientConnect(c) \/ HandleRequest(c)
    PROVE  LockInv'
  <1> USE DEF LockInv
  <1>0. /\ c \in Tasks /\ pc[c] \notin Sending /\ pc[c] \notin InPoll
        /\ \A u \in Tasks \ {c} : pc'[u] = pc[u] /\ req'[u] = req[u]
    BY ClientStepFrame DEF Tasks, InPoll, Sending, Connecting
  <1>1. CASE PumpDataForce(c)
    BY <1>0, <1>1, LockInvPoll DEF PumpDataForce
  <1>2. CASE SendCommand(c)
    <2>1. /\ SendersHold' /\ ConnectorsHold' /\ NobodyWaitsToConnect'
          /\ \A u \in Tasks \ {c} : pc'[u] = pc[u]
      BY <1>0, <1>2, LockInvRequest DEF SendCommand
    <2>2. req'[c] = "command" /\ c # Poller /\ poll_lock' = poll_lock
      BY <1>0, <1>2, PollerAssumption DEF SendCommand, TypeOK
    <2>3. PollersHold'
      BY <1>0, <2>1, <2>2 DEF PollersHold, Polling
    <2> QED
      BY <2>1, <2>3
  <1>3. ASSUME NEW r, Immediately(c, r)
        PROVE  LockInv'
    BY <1>0, <1>3, LockInvAnswered DEF Immediately, lockVars
  <1>4. CASE \/ ClientCloses(c) \/ StatusQuery(c) \/ PumpData(c)
             \/ Malformed(c) \/ PollInProgress(c)
    BY <1>3, <1>4
    DEF ClientCloses, StatusQuery, PumpData, Malformed, PollInProgress
  <1>5. CASE ClientConnect(c)
    BY <1>0, <1>5
    DEF ClientConnect, lockVars, TypeOK, SendersHold, ConnectorsHold,
        PollersHold, Polling, NobodyWaitsToConnect, InPoll, Sending, Connecting
  <1> QED
    BY <1>1, <1>2, <1>4, <1>5 DEF HandleRequest

LEMMA LockInvStep ==
    ASSUME TypeOK, TaskInv, LockInv, [Next]_vars
    PROVE  LockInv'
  <1> USE DEF LockInv
  <1>1. ASSUME NEW t \in Tasks, TaskStep(t)
        PROVE  LockInv'
    BY <1>1, LockInvTaskStep
  <1>2. CASE PollLoopTurn
    BY <1>2, LockInvPoll DEF PollLoopTurn, Tasks, InPoll, Sending, Connecting
  <1>3. ASSUME NEW c \in Clients, ClientConnect(c) \/ HandleRequest(c)
        PROVE  LockInv'
    BY <1>3, LockInvClientStep
  <1>4. CASE Environment \/ StopRequested \/ Disconnected \/ Terminated
             \/ UNCHANGED vars
    BY <1>4
    DEF Environment, HandleDisconnect, AttemptDrops, DataHandler, RetryDue,
        DataAges, StopRequested, Disconnected, Terminated, vars, lockVars,
        taskVars, SendersHold, ConnectorsHold, PollersHold, Polling,
        NobodyWaitsToConnect
  <1>5. CASE CancelPoll
    <2>1. \A t \in Tasks : pc'[t] \in {"idle", "cancelled"}
      BY <1>5 DEF CancelPoll, HandlersDone, TypeOK, Tasks
    <2>2. connect_lock'.holder \notin Tasks /\ connect_lock'.waiters = << >>
      BY <1>5, NoTaskAssumption DEF CancelPoll, FreeLock, Tasks
    <2> QED
      BY <2>1, <2>2
      DEF SendersHold, ConnectorsHold, PollersHold, NobodyWaitsToConnect,
          InPoll, Sending, Connecting
  <1> QED
    BY <1>1, <1>2, <1>3, <1>4, <1>5 DEF Next, Shutdown

LEMMA TaskInvInit == Init => TaskInv
  BY DEF Init, TaskInv, AwaitersPoll, StoppedTasks, Running

(* Places and locks agree in every behaviour. *)
THEOREM LocksCorrect == Spec => [](TypeOK /\ TaskInv /\ LockInv)
  <1>1. Init => TypeOK /\ TaskInv /\ LockInv
    BY TypeOKInit, TaskInvInit, LockInvInit
  <1>2. TypeOK /\ TaskInv /\ LockInv /\ [Next]_vars => (TypeOK /\ TaskInv /\ LockInv)'
    BY TypeOKStep, TaskInvStep, LockInvStep
  <1> QED
    BY <1>1, <1>2, PTL DEF Spec

(* _command_lock: two tasks never connect or write at the same time. *)
THEOREM SingleSenderHolds == Spec => []SingleSender
  <1>1. LockInv => SingleSender
    BY DEF LockInv, SendersHold, SingleSender
  <1> QED
    BY <1>1, LocksCorrect, PTL

(* poll_lock: two polls never overlap between the drain and the frame. *)
THEOREM SinglePollHolds == Spec => []SinglePoll
  <1>1. LockInv => SinglePoll
    BY DEF LockInv, PollersHold, SinglePoll, InPoll
  <1> QED
    BY <1>1, LocksCorrect, PTL

(* Whoever asks for _connect_lock finds it free: its holder always holds   *)
(* _command_lock too.                                                      *)
THEOREM ConnectLockUncontendedHolds == Spec => []ConnectLockUncontended
  <1>1. TypeOK /\ LockInv => ConnectLockUncontended
    <2> SUFFICES ASSUME TypeOK, LockInv, Locked(connect_lock)
                 PROVE  connect_lock.holder = command_lock.holder
      BY DEF LockInv, NobodyWaitsToConnect, ConnectLockUncontended
    <2>1. connect_lock.holder \in Tasks
      BY DEF TypeOK, LockOf, Locked
    <2> QED
      BY <2>1 DEF LockInv, ConnectorsHold, SendersHold, Sending
  <1> QED
    BY <1>1, LocksCorrect, PTL
-----------------------------------------------------------------------------
(* The link and what is said of it. *)

(* A task that looks for the heater has no connection. *)
SearchersUnlinked ==
    \A t \in Tasks : pc[t] \in {"scanning", "connecting"} => link # "up"

LinkInv ==
    /\ CharacteristicsOfThisLink
    /\ WriterHasClient
    /\ SearchersUnlinked
    /\ ReportedWhenUp

LEMMA StatusOfMarks ==
    ASSUME NEW s \in Status
    PROVE  /\ MarkConnected(s, TRUE).connected
           /\ ~MarkConnected(s, TRUE).connecting
           /\ PollFailure(s, TRUE).connected
           /\ ~PollFailure(s, TRUE).connecting
  BY DEF Status, MarkConnected, PollFailure, ScheduleRetry, MarkFailure

LEMMA LinkInvInit == Init => LinkInv
  BY DEF Init, LinkInv, CharacteristicsOfThisLink, WriterHasClient,
         SearchersUnlinked, ReportedWhenUp

(* A task obtains _command_lock while no task sends. *)
LEMMA LinkInvBeginSend ==
    ASSUME TypeOK, LockInv, LinkInv, NEW t \in Tasks, pc[t] \notin Sending,
           BeginSend(t), UNCHANGED link
    PROVE  LinkInv'
  <1>1. \A u \in Tasks \ {t} : pc'[u] = pc[u]
    BY DEF BeginSend, StartWrite, TypeOK
  <1>2. CASE link = "up" /\ StartWrite(t, MarkConnected(status, TRUE))
    BY <1>1, <1>2, StatusOfMarks
    DEF LinkInv, CharacteristicsOfThisLink, WriterHasClient, SearchersUnlinked,
        ReportedWhenUp, StartWrite, TypeOK
  <1>3. CASE link # "up" /\ pc' = [pc EXCEPT ![t] = "scanning"]
             /\ UNCHANGED characteristics
    BY <1>1, <1>3
    DEF LinkInv, CharacteristicsOfThisLink, WriterHasClient, SearchersUnlinked,
        ReportedWhenUp, TypeOK
  <1> QED
    BY <1>2, <1>3 DEF BeginSend

LEMMA LinkInvRequest ==
    ASSUME TypeOK, LockInv, LinkInv, NEW t \in Tasks, pc[t] \notin Sending,
           RequestCommandLock(t), UNCHANGED <<link, server>>
    PROVE  LinkInv'
  <1>1. CASE BeginSend(t)
    BY <1>1, LinkInvBeginSend
  <1>2. CASE /\ pc' = [pc EXCEPT ![t] = "cmd_wait"]
             /\ UNCHANGED <<status, characteristics, connect_lock>>
    BY <1>2
    DEF LinkInv, CharacteristicsOfThisLink, WriterHasClient, SearchersUnlinked,
        ReportedWhenUp, Running, TypeOK
  <1> QED
    BY <1>1, <1>2 DEF RequestCommandLock

LEMMA LinkInvPoll ==
    ASSUME TypeOK, LockInv, LinkInv, NEW t \in Tasks, pc[t] \notin Sending,
           GetData(t) \/ PollOnce(t), UNCHANGED <<link, server>>
    PROVE  LinkInv'
  <1>1. CASE RequestCommandLock(t)
    BY <1>1, LinkInvRequest
  <1>2. CASE /\ pc' = [pc EXCEPT ![t] = "poll_wait"]
             /\ UNCHANGED <<status, characteristics, connect_lock>>
    BY <1>2
    DEF LinkInv, CharacteristicsOfThisLink, WriterHasClient, SearchersUnlinked,
        ReportedWhenUp, Running, TypeOK
  <1> QED
    BY <1>1, <1>2 DEF GetData, PollOnce

(* A failed poll leaves a status that matches the link. *)
LEMMA LinkInvPollFailed ==
    ASSUME TypeOK, LinkInv, NEW t \in Tasks, PollFailed(t, status, link = "up"),
           UNCHANGED <<link, characteristics>>
    PROVE  LinkInv'
  <1>1. link = "up" => status' = PollFailure(status, TRUE)
    BY DEF PollFailed
  <1>2. link = "up" => status'.connected /\ ~status'.connecting
    BY <1>1, StatusOfMarks DEF TypeOK
  <1> QED
    BY <1>2
    DEF LinkInv, CharacteristicsOfThisLink, WriterHasClient, SearchersUnlinked,
        ReportedWhenUp, PollFailed, Answered, TypeOK

LEMMA LinkInvTaskStep ==
    ASSUME TypeOK, TaskInv, LockInv, LinkInv, NEW t \in Tasks, TaskStep(t)
    PROVE  LinkInv'
  <1> USE DEF LinkInv
  <1>0. /\ \A u \in Tasks \ {t} : pc'[u] = pc[u]
        /\ server' = server
    BY TaskStepFrame
  <1>a. pc[t] \in Sending => \A u \in Tasks \ {t} : pc[u] \notin Sending
    BY DEF LockInv, SendersHold
  <1>1. CASE CommandGranted(t)
    BY <1>1, LinkInvBeginSend DEF CommandGranted, Sending, Connecting
  <1>2. CASE PollGranted(t)
    BY <1>2, LinkInvPoll DEF PollGranted, Sending, Connecting
  <1>3. CASE ScanFindsDevice(t)
    BY <1>0, <1>3
    DEF ScanFindsDevice, heaterVars, lockVars, CharacteristicsOfThisLink,
        WriterHasClient, SearchersUnlinked, ReportedWhenUp, Running, TypeOK
  <1>4. CASE ScanRaises(t)
    <2>1. link # "up" /\ UNCHANGED <<link, characteristics>>
      BY <1>4 DEF ScanRaises, SearchersUnlinked
    <2>2. pc'[t] = "idle"
      BY <1>4 DEF ScanRaises, Raised, PollFailed, Answered, TypeOK
    <2> QED
      BY <1>0, <2>1, <2>2
      DEF CharacteristicsOfThisLink, WriterHasClient, SearchersUnlinked,
          ReportedWhenUp
  <1>5. CASE ConnectionFails(t)
    <2>1. pc'[t] = "idle" /\ link' = "none" /\ characteristics' = {}
      BY <1>5
      DEF ConnectionFails, ForgetCharacteristics, Raised, PollFailed, Answered,
          TypeOK
    <2>2. \A u \in Tasks : pc'[u] \notin {"writing"}
      BY <1>0, <1>a, <1>5, <2>1 DEF ConnectionFails, Sending
    <2> QED
      BY <2>1, <2>2
      DEF CharacteristicsOfThisLink, WriterHasClient, SearchersUnlinked,
          ReportedWhenUp
  <1>6. CASE EstablishDone(t)
    <2>1. pc[t] \in Sending /\ pc'[t] = "subscribing" /\ link' = "up"
      BY <1>6 DEF EstablishDone, TypeOK, Sending, Connecting
    <2>2. Locked(connect_lock)'
      BY <1>6, NoTaskAssumption
      DEF EstablishDone, lockVars, LockInv, ConnectorsHold, Connecting, Locked, Tasks
    <2> QED
      BY <1>0, <1>a, <2>1, <2>2
      DEF CharacteristicsOfThisLink, WriterHasClient, SearchersUnlinked,
          ReportedWhenUp, Sending, Connecting
  <1>7. CASE SubscribeDone(t)
    <2>1. CASE /\ link = "up"
               /\ StartWrite(t, MarkConnected(status, TRUE))
      BY <1>0, <1>7, <2>1, StatusOfMarks
      DEF SubscribeDone, StartWrite, CharacteristicsOfThisLink, WriterHasClient,
          SearchersUnlinked, ReportedWhenUp, TypeOK
    <2>2. CASE link # "up" /\ Raised(t, MarkConnected(status, TRUE), FALSE)
               /\ UNCHANGED characteristics
      <3>1. pc'[t] = "idle"
        BY <2>2 DEF Raised, PollFailed, Answered, TypeOK
      <3> QED
        BY <1>0, <1>7, <2>2, <3>1
        DEF SubscribeDone, CharacteristicsOfThisLink, WriterHasClient,
            SearchersUnlinked, ReportedWhenUp
    <2> QED
      BY <1>7, <2>1, <2>2 DEF SubscribeDone
  <1>8. CASE WriteDone(t)
    <2>1. pc'[t] \in {"awaiting", "idle"}
      BY <1>8 DEF WriteDone, Answered, TypeOK
    <2> QED
      BY <1>0, <1>8, <2>1
      DEF WriteDone, heaterVars, CharacteristicsOfThisLink, WriterHasClient,
          SearchersUnlinked, ReportedWhenUp, Running
  <1>9. CASE WriteFails(t)
    <2>1. pc'[t] = "idle"
      BY <1>9 DEF WriteFails, Raised, PollFailed, Answered, TypeOK
    <2>2. CASE PollFailed(t, status, link = "up")
      BY <1>9, <2>2, LinkInvPollFailed DEF WriteFails
    <2>3. CASE status' = status
      BY <1>0, <1>9, <2>1, <2>3
      DEF WriteFails, CharacteristicsOfThisLink, WriterHasClient,
          SearchersUnlinked, ReportedWhenUp, Running
    <2> QED
      BY <1>9, <2>2, <2>3 DEF WriteFails, Raised
  <1>10. CASE Receive(t)
    <2>1. CASE /\ status' = MarkConnected(MarkSuccess(status), TRUE)
               /\ Answered(t, "frame")
      <3>1. status'.connected /\ ~status'.connecting
        BY <2>1, StatusTypes, StatusOfMarks DEF TypeOK
      <3>2. pc'[t] = "idle"
        BY <2>1 DEF Answered, TypeOK
      <3> QED
        BY <1>0, <1>10, <3>1, <3>2
        DEF Receive, CharacteristicsOfThisLink, WriterHasClient,
            SearchersUnlinked, ReportedWhenUp
    <2>2. CASE PollFailed(t, status, link = "up")
      BY <1>10, <2>2, LinkInvPollFailed DEF Receive
    <2> QED
      BY <1>10, <2>1, <2>2 DEF Receive
  <1>11. CASE ReadTimeout(t)
    BY <1>11, LinkInvPollFailed DEF ReadTimeout
  <1> QED
    BY <1>1, <1>2, <1>3, <1>4, <1>5, <1>6, <1>7, <1>8, <1>9, <1>10, <1>11
    DEF TaskStep

LEMMA LinkInvStep ==
    ASSUME TypeOK, TaskInv, LockInv, LinkInv, [Next]_vars
    PROVE  LinkInv'
  <1> USE DEF LinkInv, CharacteristicsOfThisLink, WriterHasClient,
              SearchersUnlinked, ReportedWhenUp
  <1>1. ASSUME NEW t \in Tasks, TaskStep(t)
        PROVE  LinkInv'
    BY <1>1, LinkInvTaskStep
  <1>2. CASE PollLoopTurn
    BY <1>2, LinkInvPoll DEF PollLoopTurn, Tasks, Sending, Connecting
  <1>3. ASSUME NEW c \in Clients, ClientConnect(c) \/ HandleRequest(c)
        PROVE  LinkInv'
    <2>0. /\ c \in Tasks /\ pc[c] \notin Sending /\ server' = server
          /\ \A u \in Tasks \ {c} : pc'[u] = pc[u]
      BY <1>3, ClientStepFrame DEF Tasks, Sending, Connecting
    <2>1. CASE PumpDataForce(c)
      BY <2>0, <2>1, LinkInvPoll DEF PumpDataForce
    <2>2. CASE SendCommand(c)
      BY <2>0, <2>2, LinkInvRequest DEF SendCommand
    <2>3. ASSUME pc'[c] \in {"idle", "reading"},
                 UNCHANGED <<status, link, characteristics, connect_lock>>
          PROVE  LinkInv'
      BY <2>0, <2>3 DEF Running
    <2>4. ASSUME NEW r, Immediately(c, r)
          PROVE  LinkInv'
      BY <2>0, <2>3, <2>4 DEF Immediately, Answered, heaterVars, lockVars, TypeOK
    <2>5. CASE ClientConnect(c)
      BY <2>0, <2>3, <2>5 DEF ClientConnect, heaterVars, lockVars, TypeOK
    <2> QED
      BY <1>3, <2>1, <2>2, <2>4, <2>5
      DEF HandleRequest, ClientCloses, StatusQuery, PumpData, Malformed,
          PollInProgress
  <1>4. CASE HandleDisconnect
    BY <1>4 DEF HandleDisconnect, ForgetCharacteristics, taskVars
  <1>5. ASSUME NEW t \in Tasks, AttemptDrops(t)
        PROVE  LinkInv'
    BY <1>5 DEF AttemptDrops, ForgetCharacteristics, taskVars
  <1>6. CASE DataHandler \/ Terminated \/ UNCHANGED vars
    BY <1>6
    DEF DataHandler, Terminated, vars, heaterVars, lockVars, taskVars, Running
  <1>7. CASE RetryDue \/ DataAges
    BY <1>7 DEF RetryDue, DataAges, lockVars, taskVars, Running, TypeOK, Status
  <1>8. CASE StopRequested
    BY <1>8 DEF StopRequested, heaterVars, lockVars, taskVars, Running
  <1>9. CASE CancelPoll
    <2>1. \A t \in Tasks : pc'[t] \in {"idle", "cancelled"}
      BY <1>9 DEF CancelPoll, HandlersDone, TypeOK, Tasks
    <2> QED
      BY <1>9, <2>1 DEF CancelPoll, Running
  <1>10. CASE Disconnected
    <2>1. \A t \in Tasks : pc'[t] \in {"idle", "cancelled"}
      BY <1>10 DEF Disconnected, taskVars, TaskInv, StoppedTasks, Running
    <2> QED
      BY <1>10, <2>1 DEF Disconnected, ForgetCharacteristics
  <1> QED
    BY <1>1, <1>2, <1>3, <1>4, <1>5, <1>6, <1>7, <1>8, <1>9, <1>10
    DEF Next, Environment, Shutdown

(* The invariant of the link, with those it rests on. *)
THEOREM LinkCorrect == Spec => [](TypeOK /\ TaskInv /\ LockInv /\ LinkInv)
  <1>1. Init => TypeOK /\ TaskInv /\ LockInv /\ LinkInv
    BY TypeOKInit, TaskInvInit, LockInvInit, LinkInvInit
  <1>2. TypeOK /\ TaskInv /\ LockInv /\ LinkInv /\ [Next]_vars
          => (TypeOK /\ TaskInv /\ LockInv /\ LinkInv)'
    BY TypeOKStep, TaskInvStep, LockInvStep, LinkInvStep
  <1> QED
    BY <1>1, <1>2, PTL DEF Spec

(* handle_disconnect and the failure paths leave no characteristic of an   *)
(* earlier connection behind.                                              *)
THEOREM CharacteristicsHold == Spec => []CharacteristicsOfThisLink
  BY LinkCorrect, PTL DEF LinkInv

(* `assert self.bleak_client is not None` never fails. *)
THEOREM WriterHasClientHolds == Spec => []WriterHasClient
  BY LinkCorrect, PTL DEF LinkInv

(* heater_status never denies a connection that is set up. *)
THEOREM ReportedWhenUpHolds == Spec => []ReportedWhenUp
  BY LinkCorrect, PTL DEF LinkInv
=============================================================================
