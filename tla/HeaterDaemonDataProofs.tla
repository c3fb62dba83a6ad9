----------------------- MODULE HeaterDaemonDataProofs -----------------------
(***************************************************************************)
(* Proofs about what HeaterDaemon tells its clients: the cached frame,     *)
(* the health reported with it, and the answers to commands; and that the  *)
(* first two are those of DaemonHealth.                                    *)
(***************************************************************************)
EXTENDS HeaterDaemonProofs, HeaterDaemonHealth

-----------------------------------------------------------------------------
(* The cached frame.  None of the three properties of the frame is         *)
(* inductive: the frame comes from the queue, so every queued notification *)
(* must be current; and a report of "ok" rests on a success that no later  *)
(* step takes back.                                                        *)

QueueIsCurrent == \A i \in DOMAIN data_queue : data_queue[i].current

ValidFrameIsTimed ==
    heater_response # NoFrame /\ heater_response.valid
        => status.last_success # "never"

FrameInv ==
    /\ QueueIsCurrent
    /\ PolledFrameIsCurrent
    /\ InvalidFrameFlagged
    /\ ValidFrameIsTimed

(* No success is forgotten and no counted failure is. *)
Kept(s, r) ==
    /\ s.last_success # "never" => r.last_success # "never"
    /\ s.failures > 0 => r.failures > 0

(* The methods of RuntimeStatus that are not mark_success keep both. *)
LEMMA MarksKeep ==
    ASSUME NEW s \in Status, NEW b \in BOOLEAN
    PROVE  /\ Kept(s, MarkConnected(s, b))
           /\ Kept(s, MarkConnecting(s, b))
           /\ Kept(s, PollFailure(s, b))
           /\ PollFailure(s, b).failures > 0
  <1>1. Kept(s, MarkConnected(s, b)) /\ Kept(s, MarkConnecting(s, b))
    BY DEF Status, MarkConnected, MarkConnecting, Kept
  <1>2. Kept(s, ScheduleRetry(s)) /\ ScheduleRetry(s).failures = s.failures
    BY DEF Status, ScheduleRetry, Kept
  <1>3. Kept(s, MarkFailure(s)) /\ MarkFailure(s).failures > 0
    BY FailureCapAssumption DEF Status, MarkFailure, Kept
  <1>4. MarkFailure(s) \in Status
    BY StatusTypes
  <1>5. /\ Kept(MarkFailure(s), MarkConnected(MarkFailure(s), b))
        /\ MarkConnected(MarkFailure(s), b) \in Status
    <2>1. ASSUME NEW r \in Status
          PROVE  Kept(r, MarkConnected(r, b))
      BY DEF Status, MarkConnected, Kept
    <2>2. MarkConnected(MarkFailure(s), b) \in Status
      BY <1>4, StatusTypes
    <2> QED
      BY <1>4, <2>1, <2>2
  <1>6. \A r \in Status : /\ Kept(r, ScheduleRetry(r))
                          /\ ScheduleRetry(r).failures = r.failures
    BY DEF Status, ScheduleRetry, Kept
  <1> QED
    BY <1>1, <1>3, <1>5, <1>6 DEF PollFailure, Kept

LEMMA KeptChain ==
    ASSUME NEW r, NEW s, NEW u, Kept(r, s), Kept(s, u)
    PROVE  Kept(r, u)
  BY DEF Kept

(* A step that keeps the health record's facts and the cached frame, and   *)
(* leaves current notifications in the queue, keeps the invariant.         *)
LEMMA FrameInvKept ==
    ASSUME FrameInv, UNCHANGED heater_response,
           Kept(status, status'), QueueIsCurrent'
    PROVE  FrameInv'
  BY DEF FrameInv, PolledFrameIsCurrent, InvalidFrameFlagged,
         ValidFrameIsTimed, Kept

LEMMA BeginSendKeeps ==
    ASSUME TypeOK, NEW t \in Tasks, BeginSend(t)
    PROVE  Kept(status, status')
  BY MarksKeep DEF BeginSend, StartWrite, TypeOK

LEMMA RequestKeeps ==
    ASSUME TypeOK, NEW t \in Tasks, RequestCommandLock(t)
    PROVE  Kept(status, status')
  BY BeginSendKeeps DEF RequestCommandLock, Kept

LEMMA PollKeeps ==
    ASSUME TypeOK, FrameInv, NEW t \in Tasks, GetData(t) \/ PollOnce(t)
    PROVE  Kept(status, status') /\ QueueIsCurrent'
  <1>1. CASE GetData(t)
    <2>1. data_queue' = << >>
      BY <1>1, GetDataTypes
    <2>2. QueueIsCurrent'
      BY <2>1 DEF QueueIsCurrent
    <2> QED
      BY <1>1, <2>2, RequestKeeps DEF GetData
  <1>2. CASE UNCHANGED <<status, data_queue>>
    BY <1>2 DEF Kept, FrameInv, QueueIsCurrent
  <1> QED
    BY <1>1, <1>2 DEF PollOnce

LEMMA RaisedKeeps ==
    ASSUME NEW t \in Tasks, NEW s \in Status, NEW up \in BOOLEAN,
           Kept(status, s), Raised(t, s, up)
    PROVE  Kept(status, status')
  BY MarksKeep, KeptChain DEF Raised, PollFailed

LEMMA FrameInvReceive ==
    ASSUME TypeOK, FrameInv, NEW t \in Tasks, Receive(t)
    PROVE  FrameInv'
  <1>1. /\ data_queue # << >>
        /\ heater_response' = data_queue[1]
        /\ data_queue' = Tail(data_queue)
    BY DEF Receive
  <1>2. data_queue[1].current /\ data_queue[1] \in Frame
    BY <1>1 DEF FrameInv, QueueIsCurrent, TypeOK
  <1>3. QueueIsCurrent'
    BY <1>1 DEF FrameInv, QueueIsCurrent, TypeOK
  <1>4. CASE data_queue[1].valid
    <2>1. status' = MarkConnected(MarkSuccess(status), TRUE)
      BY <1>1, <1>4 DEF Receive
    <2>2. MarkSuccess(status) \in Status
      BY StatusTypes DEF TypeOK
    <2>3. MarkSuccess(status).last_success = "recent"
      BY DEF MarkSuccess, TypeOK, Status
    <2>4. status'.last_success # "never"
      BY <2>1, <2>2, <2>3, MarksKeep DEF Kept
    <2> QED
      BY <1>1, <1>2, <1>3, <1>4, <2>4
      DEF FrameInv, PolledFrameIsCurrent, InvalidFrameFlagged, ValidFrameIsTimed
  <1>5. CASE ~data_queue[1].valid
    <2>1. status' = PollFailure(status, link = "up")
      BY <1>1, <1>5 DEF Receive, PollFailed
    <2>2. status'.failures > 0
      BY <2>1, MarksKeep DEF TypeOK
    <2> QED
      BY <1>1, <1>2, <1>3, <1>5, <2>2
      DEF FrameInv, PolledFrameIsCurrent, InvalidFrameFlagged, ValidFrameIsTimed
  <1> QED
    BY <1>4, <1>5

LEMMA FrameInvTaskStep ==
    ASSUME TypeOK, FrameInv, NEW t \in Tasks, TaskStep(t)
    PROVE  FrameInv'
  <1>0. /\ (UNCHANGED status => Kept(status, status'))
        /\ (UNCHANGED data_queue => QueueIsCurrent')
    BY DEF Kept, FrameInv, QueueIsCurrent
  <1>1. CASE CommandGranted(t)
    BY <1>0, <1>1, BeginSendKeeps, FrameInvKept DEF CommandGranted
  <1>2. CASE PollGranted(t)
    BY <1>2, PollKeeps, FrameInvKept DEF PollGranted
  <1>3. CASE ScanFindsDevice(t) \/ EstablishDone(t) \/ WriteDone(t)
    BY <1>0, <1>3, FrameInvKept
    DEF ScanFindsDevice, EstablishDone, WriteDone, heaterVars
  <1>4. CASE ConnectionFails(t)
    <2> DEFINE s == MarkConnected(MarkConnecting(status, FALSE), FALSE)
    <2>1. s \in Status /\ Kept(status, s)
      BY StatusTypes, MarksKeep, KeptChain DEF TypeOK
    <2> QED
      BY <1>0, <1>4, <2>1, RaisedKeeps, FrameInvKept DEF ConnectionFails
  <1>5. CASE ScanRaises(t) \/ WriteFails(t)
    <2>1. status \in Status /\ Kept(status, status) /\ (link = "up") \in BOOLEAN
      BY DEF TypeOK, Kept
    <2> QED
      BY <1>0, <1>5, <2>1, RaisedKeeps, FrameInvKept DEF ScanRaises, WriteFails
  <1>6. CASE SubscribeDone(t)
    <2>1. /\ MarkConnected(status, TRUE) \in Status
          /\ Kept(status, MarkConnected(status, TRUE))
      BY StatusTypes, MarksKeep DEF TypeOK
    <2> QED
      BY <1>0, <1>6, <2>1, RaisedKeeps, FrameInvKept
      DEF SubscribeDone, StartWrite
  <1>7. CASE Receive(t)
    BY <1>7, FrameInvReceive
  <1>8. CASE ReadTimeout(t)
    BY <1>0, <1>8, MarksKeep, FrameInvKept DEF ReadTimeout, PollFailed, TypeOK
  <1> QED
    BY <1>1, <1>2, <1>3, <1>4, <1>5, <1>6, <1>7, <1>8 DEF TaskStep

LEMMA FrameInvStep ==
    ASSUME TypeOK, FrameInv, [Next]_vars
    PROVE  FrameInv'
  <1>0. /\ (UNCHANGED status => Kept(status, status'))
        /\ (UNCHANGED data_queue => QueueIsCurrent')
    BY DEF Kept, FrameInv, QueueIsCurrent
  <1>1. ASSUME NEW t \in Tasks, TaskStep(t)
        PROVE  FrameInv'
    BY <1>1, FrameInvTaskStep
  <1>2. CASE PollLoopTurn
    BY <1>2, PollKeeps, FrameInvKept DEF PollLoopTurn, Tasks
  <1>3. ASSUME NEW c \in Clients, ClientConnect(c) \/ HandleRequest(c)
        PROVE  FrameInv'
    <2>1. CASE SendCommand(c)
      BY <1>0, <2>1, RequestKeeps, FrameInvKept DEF SendCommand, Tasks
    <2>2. CASE PumpDataForce(c)
      BY <2>2, PollKeeps, FrameInvKept DEF PumpDataForce, Tasks
    <2>3. CASE \/ ClientConnect(c) \/ ClientCloses(c) \/ StatusQuery(c)
               \/ PumpData(c) \/ Malformed(c) \/ PollInProgress(c)
      BY <1>0, <2>3, FrameInvKept
      DEF ClientConnect, ClientCloses, StatusQuery, PumpData, Malformed,
          PollInProgress, Immediately, heaterVars
    <2> QED
      BY <1>3, <2>1, <2>2, <2>3 DEF HandleRequest
  <1>4. CASE Environment
    <2>1. CASE DataHandler
      <3>1. QueueIsCurrent'
        BY <2>1 DEF DataHandler, FrameInv, QueueIsCurrent, TypeOK
      <3> QED
        BY <1>0, <2>1, <3>1, FrameInvKept DEF DataHandler
    <2>2. CASE HandleDisconnect \/ \E t \in Tasks : AttemptDrops(t)
      BY <1>0, <2>2, MarksKeep, FrameInvKept
      DEF HandleDisconnect, AttemptDrops, TypeOK
    <2>3. CASE RetryDue \/ DataAges
      <3>1. Kept(status, status')
        BY <2>3 DEF RetryDue, DataAges, TypeOK, Status, Kept
      <3> QED
        BY <1>0, <2>3, <3>1, FrameInvKept DEF RetryDue, DataAges
    <2> QED
      BY <1>4, <2>1, <2>2, <2>3 DEF Environment
  <1>5. CASE Shutdown
    BY <1>0, <1>5, MarksKeep, FrameInvKept
    DEF Shutdown, StopRequested, CancelPoll, Disconnected, heaterVars, TypeOK
  <1>6. CASE Terminated \/ UNCHANGED vars
    BY <1>0, <1>6, FrameInvKept DEF Terminated, vars, heaterVars
  <1> QED
    BY <1>1, <1>2, <1>3, <1>4, <1>5, <1>6 DEF Next

LEMMA FrameInvInit == Init => FrameInv
  BY DEF Init, FrameInv, QueueIsCurrent, PolledFrameIsCurrent,
         InvalidFrameFlagged, ValidFrameIsTimed

(* The cached frame and the health record fit together at every moment.    *)
THEOREM FramesCorrect == Spec => [](TypeOK /\ FrameInv)
  <1>1. TypeOK /\ FrameInv /\ [Next]_vars => (TypeOK /\ FrameInv)'
    BY TypeOKStep, FrameInvStep
  <1> QED
    BY <1>1, TypeOKInit, FrameInvInit, PTL DEF Spec

(* However many polls time out and whatever the heater sends, a frame that *)
(* get_data caches arrived after that poll drained the queue.              *)
THEOREM PolledFrameIsCurrentHolds == Spec => []PolledFrameIsCurrent
  BY FramesCorrect, PTL DEF FrameInv

(* While an invalid frame is served, heater_status counts a failure.       *)
THEOREM InvalidFrameFlaggedHolds == Spec => []InvalidFrameFlagged
  BY FramesCorrect, PTL DEF FrameInv

(* heater_status says "ok" only of a valid frame not older than max_age.   *)
THEOREM OkMeansRecentFrameHolds == Spec => []OkMeansRecentFrame
  <1>1. TypeOK /\ FrameInv => OkMeansRecentFrame
    BY DEF TypeOK, Status, FrameInv, ValidFrameIsTimed, OkMeansRecentFrame,
           HeaterStatus
  <1> QED
    BY <1>1, FramesCorrect, PTL

-----------------------------------------------------------------------------
(* Commands.  WrittenOnce says nothing of a command under way, whose write *)
(* would be its second one: until a handler ends, it has written nothing.  *)

NothingWrittenYet ==
    \A c \in Clients : pc[c] # "idle" => writes[c] = 0 /\ reply[c] = "none"

(* What a step does to the client it belongs to: it ends without a write   *)
(* and without "OK", or it goes on, or it ends with a write.               *)
Settles(c) ==
    \/ writes'[c] = writes[c] /\ reply'[c] = reply[c]
    \/ pc'[c] = "idle" /\ writes'[c] = writes[c] /\ reply'[c] # "OK"
    \/ pc'[c] = "idle" /\ writes'[c] = writes[c] + 1

LEMMA SettlesKeepsWrites ==
    ASSUME TypeOK, NothingWrittenYet, WrittenOnce, NEW c \in Clients,
           pc[c] # "idle", Settles(c)
    PROVE  /\ pc'[c] # "idle" => writes'[c] = 0 /\ reply'[c] = "none"
           /\ writes'[c] <= 1
           /\ reply'[c] = "OK" => writes'[c] = 1
  BY DEF NothingWrittenYet, WrittenOnce, Settles

LEMMA AnswerSettles ==
    ASSUME TypeOK, NEW t \in Tasks, NEW r, Answered(t, r)
    PROVE  /\ pc'[t] = "idle"
           /\ \A c \in Clients \ {t} : reply'[c] = reply[c]
           /\ t \in Clients => reply'[t] = r
  BY DEF Answered, TypeOK

LEMMA RaisedSettles ==
    ASSUME TypeOK, NEW t \in Tasks, NEW s, NEW up, Raised(t, s, up)
    PROVE  /\ pc'[t] = "idle"
           /\ \A c \in Clients \ {t} : reply'[c] = reply[c]
           /\ t \in Clients => reply'[t] # "OK"
  BY AnswerSettles DEF Raised, PollFailed

LEMMA TaskStepSettles ==
    ASSUME TypeOK, NEW t \in Tasks, TaskStep(t)
    PROVE  /\ \A c \in Clients \ {t} :
                 writes'[c] = writes[c] /\ reply'[c] = reply[c]
           /\ t \in Clients => Settles(t)
  <1>1. CASE UNCHANGED <<writes, reply>>
    BY <1>1 DEF Settles
  <1>2. CASE ConnectionFails(t) \/ ScanRaises(t)
    BY <1>2, RaisedSettles DEF ConnectionFails, ScanRaises, Settles
  <1>3. CASE SubscribeDone(t)
    <2>1. CASE UNCHANGED reply
      BY <1>3, <2>1, <1>1 DEF SubscribeDone
    <2>2. CASE Raised(t, MarkConnected(status, TRUE), FALSE)
      BY <1>3, <2>2, RaisedSettles DEF SubscribeDone, Settles
    <2> QED
      BY <1>3, <2>1, <2>2 DEF SubscribeDone
  <1>4. CASE WriteDone(t)
    <2>1. CASE Answered(t, "OK") /\ writes' = [writes EXCEPT ![t] = @ + 1]
      BY <2>1, AnswerSettles DEF Settles, TypeOK
    <2> QED
      BY <1>1, <1>4, <2>1 DEF WriteDone
  <1>5. CASE WriteFails(t)
    <2>1. /\ pc'[t] = "idle"
          /\ \A c \in Clients \ {t} : reply'[c] = reply[c]
          /\ t \in Clients => reply'[t] # "OK"
      BY <1>5, RaisedSettles DEF WriteFails
    <2>2. CASE writes' = [writes EXCEPT ![t] = @ + 1]
      BY <2>1, <2>2 DEF Settles, TypeOK
    <2>3. CASE UNCHANGED writes
      BY <2>1, <2>3 DEF Settles
    <2> QED
      BY <1>5, <2>2, <2>3 DEF WriteFails
  <1>6. CASE Receive(t) \/ ReadTimeout(t)
    <2>1. Answered(t, "frame") \/ Answered(t, "status")
      BY <1>6 DEF Receive, ReadTimeout, PollFailed
    <2>2. writes' = writes
      BY <1>6 DEF Receive, ReadTimeout
    <2> QED
      BY <2>1, <2>2, AnswerSettles DEF Settles
  <1>7. CASE \/ CommandGranted(t) \/ PollGranted(t)
             \/ ScanFindsDevice(t) \/ EstablishDone(t)
    BY <1>1, <1>7
    DEF CommandGranted, PollGranted, ScanFindsDevice, EstablishDone
  <1> QED
    BY <1>2, <1>3, <1>4, <1>5, <1>6, <1>7 DEF TaskStep

LEMMA WritesStep ==
    ASSUME TypeOK, NothingWrittenYet, WrittenOnce, [Next]_vars
    PROVE  NothingWrittenYet' /\ WrittenOnce'
  <1> USE DEF NothingWrittenYet, WrittenOnce
  <1>1. ASSUME NEW t \in Tasks, TaskStep(t)
        PROVE  NothingWrittenYet' /\ WrittenOnce'
    <2>1. /\ pc[t] # "idle"
          /\ \A c \in Clients \ {t} : pc'[c] = pc[c]
      BY <1>1, TaskStepFrame DEF InPoll, Sending, Connecting, Tasks
    <2> QED
      BY <1>1, <2>1, TaskStepSettles, SettlesKeepsWrites
  <1>2. CASE PollLoopTurn
    BY <1>2, PollLoopFrame DEF PollLoopTurn
  <1>3. ASSUME NEW c \in Clients, HandleRequest(c)
        PROVE  NothingWrittenYet' /\ WrittenOnce'
    <2>1. \A d \in Clients \ {c} : pc'[d] = pc[d]
      BY <1>3, ClientStepFrame DEF Tasks
    <2>2. /\ pc[c] # "idle" /\ Settles(c)
          /\ \A d \in Clients \ {c} :
                writes'[d] = writes[d] /\ reply'[d] = reply[d]
      <3>1. CASE SendCommand(c) \/ PumpDataForce(c)
        BY <3>1 DEF SendCommand, PumpDataForce, Settles
      <3>2. ASSUME NEW r, r # "OK", Immediately(c, r)
            PROVE  <2>2
        BY <3>2, AnswerSettles DEF Immediately, Settles, Tasks
      <3> QED
        BY <1>3, <3>1, <3>2
        DEF HandleRequest, ClientCloses, StatusQuery, PumpData, Malformed,
            PollInProgress
    <2> QED
      BY <2>1, <2>2, SettlesKeepsWrites
  <1>4. ASSUME NEW c \in Clients, ClientConnect(c)
        PROVE  NothingWrittenYet' /\ WrittenOnce'
    BY <1>4 DEF ClientConnect, TypeOK, Tasks
  <1>5. CASE Environment
    BY <1>5
    DEF Environment, HandleDisconnect, AttemptDrops, DataHandler, RetryDue,
        DataAges, taskVars
  <1>6. CASE Shutdown
    BY <1>6, PollerAssumption
    DEF Shutdown, StopRequested, CancelPoll, Disconnected, taskVars, TypeOK, Tasks
  <1>7. CASE Terminated \/ UNCHANGED vars
    BY <1>7 DEF Terminated, vars, taskVars
  <1> QED
    BY <1>1, <1>2, <1>3, <1>4, <1>5, <1>6, <1>7 DEF Next

(* No command reaches the heater twice, and "OK" is said only of one that  *)
(* was written: send_command and send_packet never repeat a write, and     *)
(* their callers answer "OK" only after it.                                *)
THEOREM WrittenOnceHolds == Spec => []WrittenOnce
  <1>1. Init => NothingWrittenYet /\ WrittenOnce
    BY DEF Init, NothingWrittenYet, WrittenOnce, Tasks
  <1>2. TypeOK /\ NothingWrittenYet /\ WrittenOnce /\ [Next]_vars
            => (TypeOK /\ NothingWrittenYet /\ WrittenOnce)'
    BY TypeOKStep, WritesStep
  <1> QED
    BY <1>1, <1>2, TypeOKInit, PTL DEF Spec

-----------------------------------------------------------------------------
(* HeaterDaemon implements DaemonHealth.  Outside of Receive and DataAges  *)
(* all there is to know of a step is that it carries the health record on: *)
(* no failure is forgotten, and the last success stays what it is.         *)

HealthStep == [Health!DaemonNext]_(Health!daemonVars)

Carried(s, r) ==
    /\ r.last_success = s.last_success
    /\ s.failures > 0 => r.failures > 0

LEMMA MarksCarry ==
    ASSUME NEW s \in Status, NEW b \in BOOLEAN
    PROVE  /\ Carried(s, MarkConnected(s, b))
           /\ Carried(s, MarkConnecting(s, b))
           /\ Carried(s, PollFailure(s, b))
  <1>1. Carried(s, MarkConnected(s, b)) /\ Carried(s, MarkConnecting(s, b))
    BY DEF Status, MarkConnected, MarkConnecting, Carried
  <1>2. Carried(s, MarkFailure(s)) /\ MarkFailure(s) \in Status
    <2>1. Carried(s, MarkFailure(s))
      BY FailureCapAssumption DEF Status, MarkFailure, Carried
    <2> QED
      BY <2>1, StatusTypes
  <1>3. ASSUME NEW r \in Status
        PROVE  Carried(r, MarkConnected(r, b)) /\ MarkConnected(r, b) \in Status
    <2>1. Carried(r, MarkConnected(r, b))
      BY DEF Status, MarkConnected, Carried
    <2> QED
      BY <2>1, StatusTypes
  <1>4. \A r \in Status : Carried(r, ScheduleRetry(r))
    BY DEF Status, ScheduleRetry, Carried
  <1> QED
    BY <1>1, <1>2, <1>3, <1>4 DEF PollFailure, Carried

LEMMA CarriedChain ==
    ASSUME NEW r, NEW s, NEW u, Carried(r, s), Carried(s, u)
    PROVE  Carried(r, u)
  BY DEF Carried

(* A daemon that has ended tells nothing. *)
LEMMA NothingTold ==
    ASSUME ~Running, ~Running'
    PROVE  HealthStep
  BY DEF HealthStep, Health!daemonVars, CachedFrame, Running

LEMMA CarriedOn ==
    ASSUME Carried(status, status'), UNCHANGED <<heater_response, server>>
    PROVE  HealthStep
  <1>1. Running' = Running
    BY DEF Running
  <1>2. CachedFrame' = CachedFrame
    BY <1>1 DEF CachedFrame, Carried
  <1>3. CASE ~Running
    BY <1>1, <1>3, NothingTold
  <1>4. CASE Running /\ status.failures > 0
    BY <1>1, <1>2, <1>4 DEF Carried, HealthStep, Health!DaemonNext, Health!NoAnswer
  <1>5. CASE Running /\ ~(status.failures > 0) /\ status'.failures > 0
    BY <1>1, <1>2, <1>5 DEF HealthStep, Health!DaemonNext, Health!NoAnswer
  <1>6. CASE Running /\ ~(status.failures > 0) /\ ~(status'.failures > 0)
    BY <1>1, <1>2, <1>6
    DEF HealthStep, Health!DaemonNext, Health!LinkFlips, Health!daemonVars
  <1> QED
    BY <1>3, <1>4, <1>5, <1>6

LEMMA BeginSendCarries ==
    ASSUME TypeOK, NEW t \in Tasks, BeginSend(t)
    PROVE  Carried(status, status')
  BY MarksCarry DEF BeginSend, StartWrite, TypeOK

LEMMA RequestCarries ==
    ASSUME TypeOK, NEW t \in Tasks, RequestCommandLock(t)
    PROVE  Carried(status, status')
  BY BeginSendCarries DEF RequestCommandLock, Carried

LEMMA PollCarries ==
    ASSUME TypeOK, NEW t \in Tasks, GetData(t) \/ PollOnce(t)
    PROVE  Carried(status, status')
  BY RequestCarries DEF PollOnce, GetData, Carried

LEMMA RaisedCarries ==
    ASSUME NEW t \in Tasks, NEW s \in Status, NEW b \in BOOLEAN,
           Carried(status, s), Raised(t, s, b)
    PROVE  Carried(status, status')
  BY MarksCarry, CarriedChain DEF Raised, PollFailed

LEMMA HealthTaskStep ==
    ASSUME TypeOK, NEW t \in Tasks, TaskStep(t), ~Receive(t)
    PROVE  Carried(status, status') /\ UNCHANGED <<heater_response, server>>
  <1>0. UNCHANGED status => Carried(status, status')
    BY DEF Carried
  <1>1. CASE CommandGranted(t)
    BY <1>1, BeginSendCarries DEF CommandGranted
  <1>2. CASE PollGranted(t)
    BY <1>2, PollCarries DEF PollGranted
  <1>3. CASE ScanFindsDevice(t) \/ EstablishDone(t) \/ WriteDone(t)
    BY <1>0, <1>3 DEF ScanFindsDevice, EstablishDone, WriteDone, heaterVars
  <1>4. CASE ConnectionFails(t)
    <2> DEFINE s == MarkConnected(MarkConnecting(status, FALSE), FALSE)
    <2>1. s \in Status /\ Carried(status, s)
      BY StatusTypes, MarksCarry, CarriedChain DEF TypeOK
    <2> QED
      BY <1>4, <2>1, RaisedCarries DEF ConnectionFails
  <1>5. CASE ScanRaises(t) \/ WriteFails(t)
    <2>1. status \in Status /\ Carried(status, status) /\ (link = "up") \in BOOLEAN
      BY DEF TypeOK, Carried
    <2> QED
      BY <1>5, <2>1, RaisedCarries DEF ScanRaises, WriteFails
  <1>6. CASE SubscribeDone(t)
    <2>1. /\ MarkConnected(status, TRUE) \in Status
          /\ Carried(status, MarkConnected(status, TRUE))
      BY StatusTypes, MarksCarry DEF TypeOK
    <2> QED
      BY <1>6, <2>1, RaisedCarries DEF SubscribeDone, StartWrite
  <1>7. CASE ReadTimeout(t)
    BY <1>7, MarksCarry DEF ReadTimeout, PollFailed, TypeOK
  <1> QED
    BY <1>1, <1>2, <1>3, <1>4, <1>5, <1>6, <1>7 DEF TaskStep

(* A poll that is answered, by a valid frame or by another. *)
LEMMA HealthReceive ==
    ASSUME TypeOK, NEW t \in Tasks, Receive(t)
    PROVE  HealthStep
  <1> DEFINE f == data_queue[1]
  <1>1. /\ f \in Frame /\ data_queue # << >> /\ Head(data_queue) = f
        /\ heater_response' = f /\ heater_response' # NoFrame
        /\ Running' = Running
    BY NoFrameAssumption DEF Receive, TypeOK, Running
  <1>2. CASE ~Running
    BY <1>1, <1>2, NothingTold
  <1>3. CASE Running /\ f.valid
    <2>1. status' = MarkConnected(MarkSuccess(status), TRUE)
      BY <1>1, <1>3, Zenon DEF Receive
    <2>2. /\ status'.connected = TRUE /\ status'.connecting = FALSE
          /\ status'.failures = 0 /\ status'.last_success = "recent"
      BY <2>1 DEF MarkConnected, MarkSuccess, TypeOK, Status
    <2>3. CachedFrame' = [kind |-> "valid", age |-> 0]
      BY <1>1, <1>3, <2>2 DEF CachedFrame
    <2>4. ~(status'.failures > 0)
      BY <2>2
    <2> QED
      BY <1>1, <1>3, <2>2, <2>3, <2>4, Zenon
      DEF HealthStep, Health!DaemonNext, Health!ValidAnswer, Health!Caches
  <1>4. CASE Running /\ ~f.valid
    <2>1. status' = PollFailure(status, link = "up")
      BY <1>1, <1>4, Zenon DEF Receive, PollFailed
    <2>2. status'.failures > 0
      BY <2>1, MarksKeep DEF TypeOK
    <2>3. CachedFrame' = [kind |-> "invalid", age |-> 0]
      BY <1>1, <1>4 DEF CachedFrame
    <2> QED
      BY <1>1, <1>4, <2>2, <2>3
      DEF HealthStep, Health!DaemonNext, Health!InvalidAnswer, Health!Caches
  <1> QED
    BY <1>2, <1>3, <1>4

LEMMA HealthAges ==
    ASSUME TypeOK, DataAges
    PROVE  HealthStep
  <1>1. /\ Running /\ Running' /\ heater_response' = heater_response
        /\ status.last_success = "recent" /\ status'.last_success = "old"
        /\ status'.connected = status.connected
        /\ status'.connecting = status.connecting
        /\ status'.failures = status.failures
    BY DEF DataAges, Running, TypeOK, Status
  <1>2. CASE heater_response = NoFrame \/ ~heater_response.valid
    <2>1. CachedFrame' = CachedFrame
      BY <1>1, <1>2 DEF CachedFrame
    <2> QED
      BY <1>1, <2>1 DEF HealthStep, Health!daemonVars
  <1>3. CASE heater_response # NoFrame /\ heater_response.valid
    <2>1. /\ CachedFrame  = [kind |-> "valid", age |-> 0]
          /\ CachedFrame' = [kind |-> "valid", age |-> 1]
      BY <1>1, <1>3 DEF CachedFrame
    <2>2. CachedFrame' = Health!Older(CachedFrame)
      BY <2>1 DEF Health!Older, Health!Grown
    <2> QED
      BY <1>1, <2>2 DEF HealthStep, Health!DaemonNext, Health!FrameAges
  <1> QED
    BY <1>2, <1>3

LEMMA HealthShutdown ==
    ASSUME TypeOK, Shutdown
    PROVE  HealthStep
  <1>1. CASE StopRequested
    <2>1. /\ Running /\ Running'
          /\ UNCHANGED <<status, heater_response>>
      BY <1>1 DEF StopRequested, Running, heaterVars
    <2> QED
      BY <2>1 DEF HealthStep, Health!daemonVars, CachedFrame
  <1>2. CASE CancelPoll
    <2>1. Running /\ ~Running'
      BY <1>2 DEF CancelPoll, Running
    <2> QED
      BY <2>1
      DEF HealthStep, Health!DaemonNext, Health!Ends, Health!NothingCached, CachedFrame
  <1>3. CASE Disconnected
    BY <1>3, NothingTold DEF Disconnected, Running
  <1> QED
    BY <1>1, <1>2, <1>3 DEF Shutdown

LEMMA HealthNext ==
    ASSUME TypeOK, [Next]_vars
    PROVE  HealthStep
  <1>0. UNCHANGED status => Carried(status, status')
    BY DEF Carried
  <1>1. ASSUME NEW t \in Tasks, TaskStep(t)
        PROVE  HealthStep
    BY <1>1, HealthReceive, HealthTaskStep, CarriedOn
  <1>2. CASE PollLoopTurn
    BY <1>2, PollCarries, CarriedOn DEF PollLoopTurn, Tasks
  <1>3. ASSUME NEW c \in Clients, ClientConnect(c) \/ HandleRequest(c)
        PROVE  HealthStep
    <2>1. CASE SendCommand(c)
      BY <2>1, RequestCarries, CarriedOn DEF SendCommand, Tasks
    <2>2. CASE PumpDataForce(c)
      BY <2>2, PollCarries, CarriedOn DEF PumpDataForce, Tasks
    <2>3. CASE \/ ClientConnect(c) \/ ClientCloses(c) \/ StatusQuery(c)
               \/ PumpData(c) \/ Malformed(c) \/ PollInProgress(c)
      BY <1>0, <2>3, CarriedOn
      DEF ClientConnect, ClientCloses, StatusQuery, PumpData, Malformed,
          PollInProgress, Immediately, heaterVars
    <2> QED
      BY <1>3, <2>1, <2>2, <2>3 DEF HandleRequest
  <1>4. CASE DataAges
    BY <1>4, HealthAges
  <1>5. CASE Environment /\ ~DataAges
    <2>1. CASE DataHandler
      BY <1>0, <2>1, CarriedOn DEF DataHandler
    <2>2. CASE HandleDisconnect \/ \E t \in Tasks : AttemptDrops(t)
      BY <2>2, MarksCarry, CarriedOn
      DEF HandleDisconnect, AttemptDrops, taskVars, TypeOK
    <2>3. CASE RetryDue
      <3>1. Carried(status, status')
        BY <2>3 DEF RetryDue, TypeOK, Status, Carried
      <3> QED
        BY <2>3, <3>1, CarriedOn DEF RetryDue
    <2> QED
      BY <1>5, <2>1, <2>2, <2>3 DEF Environment
  <1>6. CASE Shutdown
    BY <1>6, HealthShutdown
  <1>7. CASE Terminated \/ UNCHANGED vars
    BY <1>0, <1>7, CarriedOn DEF Terminated, vars, heaterVars
  <1> QED
    BY <1>1, <1>2, <1>3, <1>4, <1>5, <1>6, <1>7 DEF Next, Environment

LEMMA HealthInit == Init => Health!DaemonInit
  BY DEF Init, NewStatus, Health!DaemonInit, Health!NothingCached, Running, CachedFrame

(* For any set of clients, and whatever fails: what heater_status and      *)
(* pump_data answer from is the daemon DaemonClient was written against.   *)
THEOREM HealthImplemented == Spec => ImplementsDaemonHealth
  <1>1. TypeOK /\ [Next]_vars => [Health!DaemonNext]_(Health!daemonVars)
    BY HealthNext DEF HealthStep
  <1> QED
    BY <1>1, HealthInit, TypeCorrect, PTL
    DEF Spec, ImplementsDaemonHealth, Health!DaemonSpec

(* heater_status answers "ok" in exactly the states in which that daemon's *)
(* data is good: RuntimeStatus.heater_status leaves no other way to it.    *)
THEOREM OkIsDataOk ==
    Spec => [](Running =>
        (HeaterStatus(status, heater_response # NoFrame /\ heater_response.valid) = "ok"
            <=> Health!DataOk))
  <1>1. ASSUME TypeOK, FrameInv, Running
        PROVE  HeaterStatus(status, heater_response # NoFrame /\ heater_response.valid) = "ok"
                  <=> Health!DataOk
    BY <1>1 DEF TypeOK, Status, FrameInv, ValidFrameIsTimed, HeaterStatus,
                Health!DataOk, CachedFrame
  <1> QED
    BY <1>1, FramesCorrect, PTL
=============================================================================
