---------------------------- MODULE HeaterDaemon ----------------------------
(***************************************************************************)
(* The BLE daemon of heater_daemon.py: HCaloryHeater (one bleak client,    *)
(* two locks, a queue of notifications, the cached frame), the poll loop,  *)
(* the UNIX socket handlers and the shutdown of run_daemon.                *)
(*                                                                         *)
(* asyncio is cooperative: an action is the code a task runs between two   *)
(* awaits that can suspend it.  Tasks are the poll loop and one handler    *)
(* per connected client; a Client is a socket peer that may come back.     *)
(* The heater offers the characteristics the daemon is configured with.    *)
(*                                                                         *)
(* pc of a task:                                                           *)
(*   idle        poll loop asleep; no connection of that client            *)
(*   reading     handler awaits reader.read()                              *)
(*   poll_wait   queued on poll_lock       cmd_wait   queued on            *)
(*   scanning    awaits find_device_by_address        _command_lock        *)
(*   connecting  awaits establish_connection                               *)
(*   subscribing awaits start_notify                                       *)
(*   writing     awaits write_gatt_char                                    *)
(*   awaiting    awaits _data_queue.get() under wait_for                   *)
(*   cancelled   poll loop after poll_task.cancel()                        *)
(***************************************************************************)
EXTENDS RuntimeStatus, Sequences, FiniteSets

CONSTANTS Clients,   \* peers of the UNIX socket
          Poller,    \* the task of poll_loop
          NoTask,    \* the holder of a free lock
          NoFrame,   \* heater_response is None
          MaxQueue   \* bound: notifications waiting in _data_queue

ASSUME PollerAssumption   == Poller \notin Clients
ASSUME NoTaskAssumption   == NoTask \notin Clients \cup {Poller}
ASSUME MaxQueueAssumption == MaxQueue \in Nat \ {0}

INSTANCE AsyncLock

Tasks == Clients \cup {Poller}

(* A notification: does HeaterResponse.valid hold of it, and (history)     *)
(* did it arrive after the latest drain of the queue?                      *)
Frame == [valid : BOOLEAN, current : BOOLEAN]

ASSUME NoFrameAssumption == NoFrame \notin Frame

VARIABLES
    status,           \* RuntimeStatus
    link,             \* bleak_client: "none", or its is_connected: "up", "down"
    characteristics,  \* cached GATT characteristics, of {"read", "write"}
    data_queue,       \* _data_queue
    heater_response,  \* the cached frame
    poll_lock,
    command_lock,     \* _command_lock
    connect_lock,     \* _connect_lock
    pc,
    req,              \* what a handler works on
    reply,            \* the line a client was last answered
    writes,           \* history: writes its command made on the heater
    server            \* "serving", "closing", "disconnecting", "stopped"

taskVars   == <<pc, req, reply, writes>>
lockVars   == <<poll_lock, command_lock, connect_lock>>
heaterVars == <<status, link, characteristics, data_queue, heater_response>>
vars       == <<heaterVars, lockVars, taskVars, server>>

Connecting == {"scanning", "connecting", "subscribing"}
Sending    == Connecting \cup {"writing"}
Pcs        == Sending \cup {"idle", "reading", "poll_wait", "cmd_wait",
                            "awaiting", "cancelled"}
Requests   == {"none", "command", "pump_data_force"}
Replies    == {"none", "OK", "ERROR", "status", "frame", "no cached pump_data"}

Running == server \in {"serving", "closing"}

(* The task is inside poll_once. *)
Polling(t) == t = Poller \/ req[t] = "pump_data_force"

Init ==
    /\ status          = NewStatus
    /\ link            = "none"
    /\ characteristics = {}
    /\ data_queue      = << >>
    /\ heater_response = NoFrame
    /\ poll_lock       = FreeLock
    /\ command_lock    = FreeLock
    /\ connect_lock    = FreeLock
    /\ pc              = [t \in Tasks |-> "idle"]
    /\ req             = [t \in Tasks |-> "none"]
    /\ reply           = [c \in Clients |-> "none"]
    /\ writes          = [c \in Clients |-> 0]
    /\ server          = "serving"

-----------------------------------------------------------------------------
(* In this section and below, an operator introduced as a "Defect" is not  *)
(* part of the model: it is a plausible slip in the code it stands before, *)
(* kept to show that the properties notice it.                             *)

(* Defect: the write characteristic survives a disconnect. *)
ForgetReadCharacteristic == characteristics' = characteristics \ {"read"}

(* _read_characteristic = _write_characteristic = None *)
ForgetCharacteristics == characteristics' = {}

(* How a task ends its work. *)

(* The handler writes its reply and closes; poll_once returns to the loop. *)
Answered(t, r) ==
    /\ pc'    = [pc EXCEPT ![t] = "idle"]
    /\ req'   = [req EXCEPT ![t] = "none"]
    /\ reply' = IF t \in Clients THEN [reply EXCEPT ![t] = r] ELSE reply

(* Defect: the failed poll is scheduled again but not counted. *)
PollFailureUncounted(s, up) == ScheduleRetry(MarkConnected(s, up))

(* Defect: status.connected is not brought up to date. *)
PollFailureNotReported(s, up) == ScheduleRetry(MarkFailure(s))

(* except-branch of poll_once, on a status s; up is heater.is_connected. *)
PollFailure(s, up) == ScheduleRetry(MarkConnected(MarkFailure(s), up))

(* Defect: poll_lock is acquired without a finally. *)
PollFailedHoldingLock(t, s, up) ==
    /\ status' = PollFailure(s, up)
    /\ Answered(t, "status")
    /\ UNCHANGED poll_lock

PollFailed(t, s, up) ==
    /\ status'    = PollFailure(s, up)
    /\ poll_lock' = Released(poll_lock)
    /\ Answered(t, "status")

(* An exception leaves send_command or send_packet. *)
Raised(t, s, up) ==
    /\ command_lock' = Released(command_lock)
    /\ \/ Polling(t) /\ PollFailed(t, s, up)
       \/ /\ ~Polling(t)
          /\ status' = s
          /\ Answered(t, "ERROR")
          /\ UNCHANGED poll_lock

-----------------------------------------------------------------------------
(* send_command and send_packet up to their first suspension. *)

StartWrite(t, s) ==
    /\ status'          = s
    /\ characteristics' = characteristics \cup {"write"}
    /\ pc'              = [pc EXCEPT ![t] = "writing"]

(* _command_lock has just been obtained.  Only its holder ever asks for    *)
(* _connect_lock, which is therefore free (ConnectLockUncontended).        *)
BeginSend(t) ==
    \/ /\ link = "up"
       /\ StartWrite(t, MarkConnected(status, TRUE))
       /\ UNCHANGED connect_lock
    \/ /\ link # "up"
       /\ connect_lock' = Acquired(connect_lock, t)
       /\ status'       = MarkConnecting(status, TRUE)
       /\ pc'           = [pc EXCEPT ![t] = "scanning"]
       /\ UNCHANGED characteristics

(* Defect: send_command does not wait for _command_lock. *)
SendUnlocked(t) ==
    /\ command_lock' = Acquired(command_lock, t)
    /\ BeginSend(t)

(* Defect: a free lock is taken although a task it woke has yet to run. *)
SendOvertaking(t) ==
    \/ /\ ~Locked(command_lock)
       /\ command_lock' = Acquired(command_lock, t)
       /\ BeginSend(t)
    \/ /\ Locked(command_lock)
       /\ command_lock' = Enqueued(command_lock, t)
       /\ pc' = [pc EXCEPT ![t] = "cmd_wait"]
       /\ UNCHANGED <<status, characteristics, connect_lock>>

RequestCommandLock(t) ==
    \/ /\ Available(command_lock)
       /\ command_lock' = Acquired(command_lock, t)
       /\ BeginSend(t)
    \/ /\ ~Available(command_lock)
       /\ command_lock' = Enqueued(command_lock, t)
       /\ pc' = [pc EXCEPT ![t] = "cmd_wait"]
       /\ UNCHANGED <<status, characteristics, connect_lock>>

CommandGranted(t) ==
    /\ pc[t] = "cmd_wait"
    /\ Woken(command_lock, t)
    /\ command_lock' = Resumed(command_lock, t)
    /\ BeginSend(t)
    /\ UNCHANGED <<link, data_queue, heater_response, poll_lock,
                   req, reply, writes, server>>

(* Defect: one get_nowait() instead of a loop. *)
DrainedOfOne(q) == IF q = << >> THEN q ELSE Tail(q)

(* _drain_data_queue *)
Drained(q) == << >>

GetData(t) ==
    /\ LET left == Drained(data_queue)
       IN  data_queue' = [i \in DOMAIN left |-> [left[i] EXCEPT !.current = FALSE]]
    /\ RequestCommandLock(t)

(* Defect: poll_once runs without poll_lock for a forced refresh. *)
PollUnlocked(t) ==
    /\ poll_lock' = Acquired(poll_lock, t)
    /\ GetData(t)

PollOnce(t) ==
    \/ /\ Available(poll_lock)
       /\ poll_lock' = Acquired(poll_lock, t)
       /\ GetData(t)
    \/ /\ ~Available(poll_lock)
       /\ poll_lock' = Enqueued(poll_lock, t)
       /\ pc' = [pc EXCEPT ![t] = "poll_wait"]
       /\ UNCHANGED <<status, characteristics, data_queue,
                      command_lock, connect_lock>>

PollGranted(t) ==
    /\ pc[t] = "poll_wait"
    /\ Woken(poll_lock, t)
    /\ poll_lock' = Resumed(poll_lock, t)
    /\ GetData(t)
    /\ UNCHANGED <<link, heater_response, req, reply, writes, server>>

-----------------------------------------------------------------------------
(* _ensure_connection behind its awaits. *)

ScanFindsDevice(t) ==
    /\ pc[t] = "scanning"
    /\ pc' = [pc EXCEPT ![t] = "connecting"]
    /\ UNCHANGED <<heaterVars, lockVars, req, reply, writes, server>>

(* Device not found, establish_connection or start_notify raises.  A       *)
(* client that failed to subscribe is dropped, not disconnected.           *)
ConnectionFails(t) ==
    /\ pc[t] \in Connecting
    /\ link'            = "none"
    /\ ForgetCharacteristics
    /\ connect_lock'    = Released(connect_lock)
    /\ Raised(t, MarkConnected(MarkConnecting(status, FALSE), FALSE), FALSE)
    /\ UNCHANGED <<data_queue, heater_response, writes, server>>

(* The scanner itself raises: find_device_by_address is outside the try. *)
ScanRaises(t) ==
    /\ pc[t] = "scanning"
    /\ connect_lock' = Released(connect_lock)
    /\ Raised(t, status, link = "up")
    /\ UNCHANGED <<link, characteristics, data_queue, heater_response,
                   writes, server>>

EstablishDone(t) ==
    /\ pc[t] = "connecting"
    /\ link'            = "up"
    /\ characteristics' = characteristics \cup {"read"}
    /\ pc'              = [pc EXCEPT ![t] = "subscribing"]
    /\ UNCHANGED <<status, data_queue, heater_response, lockVars,
                   req, reply, writes, server>>

(* start_notify returned.  If the link dropped before the task resumed,    *)
(* looking up the write characteristic raises at once.                     *)
SubscribeDone(t) ==
    /\ pc[t] = "subscribing"
    /\ connect_lock' = Released(connect_lock)
    /\ \/ /\ link = "up"
          /\ StartWrite(t, MarkConnected(status, TRUE))
          /\ UNCHANGED <<poll_lock, command_lock, req, reply>>
       \/ /\ link # "up"
          /\ Raised(t, MarkConnected(status, TRUE), FALSE)
          /\ UNCHANGED characteristics
    /\ UNCHANGED <<link, data_queue, heater_response, writes, server>>

-----------------------------------------------------------------------------
(* write_gatt_char and the answer. *)

WriteDone(t) ==
    /\ pc[t] = "writing"
    /\ command_lock' = Released(command_lock)
    /\ \/ /\ Polling(t)
          /\ pc' = [pc EXCEPT ![t] = "awaiting"]
          /\ UNCHANGED <<req, reply, writes>>
       \/ /\ ~Polling(t)
          /\ Answered(t, "OK")
          /\ writes' = [writes EXCEPT ![t] = @ + 1]
    /\ UNCHANGED <<heaterVars, poll_lock, connect_lock, server>>

(* Defect: a failed write is tried again under the lock. *)
WriteRetried(t) ==
    /\ pc[t] = "writing"
    /\ ~Polling(t)
    /\ writes' = [writes EXCEPT ![t] = @ + 1]
    /\ UNCHANGED <<heaterVars, lockVars, pc, req, reply, server>>

(* A write that raises may still have reached the heater. *)
WriteFails(t) ==
    /\ pc[t] = "writing"
    /\ Raised(t, status, link = "up")
    /\ \/ UNCHANGED writes
       \/ ~Polling(t) /\ writes' = [writes EXCEPT ![t] = @ + 1]
    /\ UNCHANGED <<link, characteristics, data_queue, heater_response,
                   connect_lock, server>>

(* The frame is cached first and validated afterwards. *)
Receive(t) ==
    /\ pc[t] = "awaiting"
    /\ data_queue # << >>
    /\ data_queue'      = Tail(data_queue)
    /\ heater_response' = Head(data_queue)
    /\ \/ /\ Head(data_queue).valid
          /\ status'    = MarkConnected(MarkSuccess(status), TRUE)
          /\ poll_lock' = Released(poll_lock)
          /\ Answered(t, "frame")
       \/ /\ ~Head(data_queue).valid
          /\ PollFailed(t, status, link = "up")
    /\ UNCHANGED <<link, characteristics, command_lock, connect_lock,
                   writes, server>>

(* wait_for gives up; a frame may have been queued in the same turn. *)
ReadTimeout(t) ==
    /\ pc[t] = "awaiting"
    /\ PollFailed(t, status, link = "up")
    /\ UNCHANGED <<link, characteristics, data_queue, heater_response,
                   command_lock, connect_lock, writes, server>>

TaskStep(t) ==
    \/ CommandGranted(t)  \/ PollGranted(t)
    \/ ScanFindsDevice(t) \/ ScanRaises(t)   \/ ConnectionFails(t)
    \/ EstablishDone(t)   \/ SubscribeDone(t)
    \/ WriteDone(t)       \/ WriteFails(t)
    \/ Receive(t)         \/ ReadTimeout(t)

-----------------------------------------------------------------------------
(* poll_loop: a turn that finds no pending retry polls. *)
PollLoopTurn ==
    /\ Running
    /\ pc[Poller] = "idle"
    /\ ~RetryPending(status)
    /\ PollOnce(Poller)
    /\ UNCHANGED <<link, heater_response, req, reply, writes, server>>

-----------------------------------------------------------------------------
(* handle_client *)

ClientConnect(c) ==
    /\ server = "serving"
    /\ pc[c] = "idle"
    /\ pc'     = [pc EXCEPT ![c] = "reading"]
    /\ reply'  = [reply EXCEPT ![c] = "none"]
    /\ writes' = [writes EXCEPT ![c] = 0]
    /\ UNCHANGED <<heaterVars, lockVars, req, server>>

(* Replies made without an await: r is the reply, "none" when the peer     *)
(* closed without a request.                                               *)
Immediately(c, r) ==
    /\ pc[c] = "reading"
    /\ Answered(c, r)
    /\ UNCHANGED <<heaterVars, lockVars, writes, server>>

ClientCloses(c) == Immediately(c, "none")

(* daemon_status, heater_status *)
StatusQuery(c) == Immediately(c, "status")

PumpData(c) ==
    Immediately(c, IF heater_response = NoFrame
                   THEN "no cached pump_data" ELSE "frame")

(* Unknown commands, wrong arguments, values out of range. *)
Malformed(c) == Immediately(c, "ERROR")

PollInProgress(c) ==
    /\ Locked(poll_lock)
    /\ Immediately(c, "status")

PumpDataForce(c) ==
    /\ pc[c] = "reading"
    /\ ~Locked(poll_lock)
    /\ req' = [req EXCEPT ![c] = "pump_data_force"]
    /\ PollOnce(c)
    /\ UNCHANGED <<link, heater_response, reply, writes, server>>

(* start_heat ... ventilation, raw, hcalory_set_*, hcalory_*_toggle *)
SendCommand(c) ==
    /\ pc[c] = "reading"
    /\ req' = [req EXCEPT ![c] = "command"]
    /\ RequestCommandLock(c)
    /\ UNCHANGED <<link, data_queue, heater_response, poll_lock,
                   reply, writes, server>>

HandleRequest(c) ==
    \/ ClientCloses(c)   \/ StatusQuery(c)    \/ PumpData(c) \/ Malformed(c)
    \/ PollInProgress(c) \/ PumpDataForce(c)  \/ SendCommand(c)

-----------------------------------------------------------------------------
(* The heater, the radio and the clock. *)

(* bleak reports the loss: is_connected turns FALSE and handle_disconnect  *)
(* runs in the same callback.                                              *)
HandleDisconnect ==
    /\ link = "up"
    /\ server # "stopped"
    /\ link'            = "down"
    /\ ForgetCharacteristics
    /\ status'          = MarkConnected(status, FALSE)
    /\ UNCHANGED <<data_queue, heater_response, lockVars, taskVars, server>>

(* An attempt inside establish_connection connects and drops again:        *)
(* handle_disconnect runs before bleak_client is assigned.                 *)
AttemptDrops(t) ==
    /\ pc[t] = "connecting"
    /\ status'          = MarkConnected(status, FALSE)
    /\ ForgetCharacteristics
    /\ UNCHANGED <<link, data_queue, heater_response, lockVars, taskVars, server>>

(* A notification reaches _data_handler; nothing says which request of     *)
(* the daemon, if any, it answers.                                         *)
DataHandler ==
    /\ Running
    /\ link = "up"
    /\ Len(data_queue) < MaxQueue
    /\ \E v \in BOOLEAN :
          data_queue' = Append(data_queue, [valid |-> v, current |-> TRUE])
    /\ UNCHANGED <<status, link, characteristics, heater_response,
                   lockVars, taskVars, server>>

RetryDue ==
    /\ Running
    /\ RetryPending(status)
    /\ status' = [status EXCEPT !.retry = "due"]
    /\ UNCHANGED <<link, characteristics, data_queue, heater_response,
                   lockVars, taskVars, server>>

(* max_age seconds pass without a success. *)
DataAges ==
    /\ Running
    /\ status.last_success = "recent"
    /\ status' = [status EXCEPT !.last_success = "old"]
    /\ UNCHANGED <<link, characteristics, data_queue, heater_response,
                   lockVars, taskVars, server>>

Environment ==
    \/ HandleDisconnect
    \/ \E t \in Tasks : AttemptDrops(t)
    \/ DataHandler
    \/ RetryDue
    \/ DataAges

-----------------------------------------------------------------------------
(* The end of run_daemon. *)

(* A signal sets stop; server.close() stops accepting clients. *)
StopRequested ==
    /\ server = "serving"
    /\ server' = "closing"
    /\ UNCHANGED <<heaterVars, lockVars, taskVars>>

(* Defect: wait_closed() returns at once, as it did before Python 3.12. *)
HandlersAbandoned == TRUE

(* Defect: the poll loop is waited for before it is cancelled. *)
HandlersAndPollDone == \A t \in Tasks : pc[t] = "idle"

(* server.wait_closed() returns when no handler is left. *)
HandlersDone == \A c \in Clients : pc[c] = "idle"

(* poll_task.cancel() unwinds poll_once through its locks, which nobody    *)
(* else can hold any more, and no except-branch runs; heater.disconnect()  *)
(* suspends only when there is a bleak_client.                             *)
CancelPoll ==
    /\ server = "closing"
    /\ HandlersDone
    /\ pc' = [pc EXCEPT ![Poller] = "cancelled"]
    /\ poll_lock'    = FreeLock
    /\ command_lock' = FreeLock
    /\ connect_lock' = FreeLock
    /\ \/ /\ link = "none"
          /\ server' = "stopped"
          /\ status' = MarkConnected(status, FALSE)
       \/ /\ link # "none"
          /\ server' = "disconnecting"
          /\ UNCHANGED status
    /\ UNCHANGED <<link, characteristics, data_queue, heater_response,
                   req, reply, writes>>

Disconnected ==
    /\ server = "disconnecting"
    /\ server'          = "stopped"
    /\ link'            = "none"
    /\ ForgetCharacteristics
    /\ status'          = MarkConnected(status, FALSE)
    /\ UNCHANGED <<data_queue, heater_response, lockVars, taskVars>>

Shutdown == StopRequested \/ CancelPoll \/ Disconnected

(* The process has ended; no state of it is a deadlock. *)
Terminated == server = "stopped" /\ UNCHANGED vars

Next ==
    \/ \E t \in Tasks : TaskStep(t)
    \/ PollLoopTurn
    \/ \E c \in Clients : ClientConnect(c) \/ HandleRequest(c)
    \/ Environment
    \/ Shutdown
    \/ Terminated

Spec == Init /\ [][Next]_vars

(* The event loop runs every ready task; BLE calls and wait_for end, each  *)
(* one way or the other; a pending retry becomes due; a peer sends its     *)
(* request or closes (daemon_client.py gives up after its timeout).        *)
Fairness ==
    /\ \A t \in Tasks : WF_vars(TaskStep(t))
    /\ WF_vars(PollLoopTurn)
    /\ WF_vars(RetryDue)
    /\ \A c \in Clients : WF_vars(HandleRequest(c))
    /\ WF_vars(CancelPoll)
    /\ WF_vars(Disconnected)

FairSpec == Spec /\ Fairness
-----------------------------------------------------------------------------
(* Correctness. *)

(* Every variable keeps its type. *)
TypeOK ==
    /\ status \in Status
    /\ link \in {"none", "up", "down"}
    /\ characteristics \subseteq {"read", "write"}
    /\ data_queue \in Seq(Frame)
    /\ heater_response \in Frame \cup {NoFrame}
    /\ poll_lock \in LockOf(Tasks)
    /\ command_lock \in LockOf(Tasks)
    /\ connect_lock \in LockOf(Tasks)
    /\ pc \in [Tasks -> Pcs]
    /\ req \in [Tasks -> Requests]
    /\ reply \in [Clients -> Replies]
    /\ writes \in [Clients -> Nat]
    /\ server \in {"serving", "closing", "disconnecting", "stopped"}

(* One task at a time connects to the heater or writes to it, whatever     *)
(* clients and poll loop ask at once: the packets of two commands never    *)
(* meet on the link and no second connection is opened (_command_lock).    *)
SingleSender ==
    \A t, u \in Tasks : pc[t] \in Sending /\ pc[u] \in Sending => t = u

(* One poll at a time owns the notification queue, from the drain to the   *)
(* frame it takes: no poll can steal or drain another's answer (poll_lock).*)
SinglePoll ==
    \A t, u \in Tasks :
        /\ Polling(t) /\ pc[t] \in Sending \cup {"cmd_wait", "awaiting"}
        /\ Polling(u) /\ pc[u] \in Sending \cup {"cmd_wait", "awaiting"}
        => t = u

(* _connect_lock is never waited for, and free whenever _command_lock is,  *)
(* so an exception path cannot leave it behind.                            *)
ConnectLockUncontended ==
    /\ connect_lock.waiters = << >>
    /\ Locked(connect_lock) => connect_lock.holder = command_lock.holder

(* A cached GATT characteristic belongs to the connection that is up: none *)
(* survives a disconnect to be used on the next connection.                *)
CharacteristicsOfThisLink == characteristics # {} => link = "up"

(* The assertion `self.bleak_client is not None` in send_command and       *)
(* send_packet holds until the write is over, shutdown included.           *)
WriterHasClient == \A t \in Tasks : pc[t] = "writing" => link # "none"

(* Once a connection is set up, and until it is lost, heater_status is     *)
(* never "disconnected" or "connecting", whoever else fails meanwhile.     *)
ReportedWhenUp ==
    Running /\ link = "up" /\ ~Locked(connect_lock)
        => status.connected /\ ~status.connecting

(* heater_status "ok" is said only of a valid frame received within        *)
(* max_age seconds.                                                        *)
OkMeansRecentFrame ==
    HeaterStatus(status, heater_response # NoFrame /\ heater_response.valid) = "ok"
        => heater_response # NoFrame /\ heater_response.valid
           /\ status.last_success = "recent"

(* While pump_data serves a frame that failed validation, heater_status    *)
(* counts a failure, so that no client takes the frame for good data.      *)
InvalidFrameFlagged ==
    heater_response # NoFrame /\ ~heater_response.valid => status.failures > 0

(* The frame a poll returns arrived after that poll began: frames sent in  *)
(* reply to commands, or after a timeout, never lag behind (the drain).    *)
PolledFrameIsCurrent == heater_response # NoFrame => heater_response.current

(* A command answered OK was written exactly once, and no command is       *)
(* written twice: up, down and the toggles are not idempotent.             *)
WrittenOnce ==
    \A c \in Clients : writes[c] <= 1 /\ (reply[c] = "OK" => writes[c] = 1)

(* Every request a client makes is answered: no chain of failures, waiting *)
(* tasks and disconnects leaves a handler waiting for a lock for ever.     *)
EveryRequestAnswered ==
    \A c \in Clients : pc[c] # "idle" ~> pc[c] = "idle"

(* The heater keeps being polled, by the loop or for a client, while the   *)
(* daemon serves: no failure stops the poll loop.                          *)
PollingNeverStops ==
    []<>(server # "serving" \/ \E t \in Tasks : Polling(t) /\ pc[t] \in Sending)

(* "connecting" is a passing state, even when the scanner raises on a      *)
(* command's path and nothing there resets the flag.                       *)
ConnectingPasses == status.connecting ~> ~status.connecting \/ server # "serving"

(* "connected" reported of a lost link (set by a frame that was still      *)
(* queued, or by start_notify returning late) is corrected.                *)
StaleConnectedClears ==
    status.connected /\ link # "up"
        ~> ~status.connected \/ link = "up" \/ server # "serving"

(* A stop request ends the daemon.                                         *)
StopCompletes == server = "closing" ~> server = "stopped"
=============================================================================
