# A verification of hcalory-ha-daemon in TLA+

The repository holds a daemon that drives a HCalory diesel heater over Bluetooth
LE and serves it on a UNIX socket (`src/hcalory_ble_daemon/rootfs/app/heater_daemon.py`,
called *daemon* below), and a Home Assistant integration that talks to that
socket (`src/custom_components/hcalory_ble/`, the *integration*). This directory
models both, checks the models with TLC and proves the most important
properties with TLAPS.

## The system

| Component | State | Operations | Modelled in |
| --- | --- | --- | --- |
| BLE connection, `HCaloryHeater` | bleak client, cached characteristics, notification queue, `_connect_lock`, `_command_lock`, cached frame | `_ensure_connection`, `send_command`, `send_packet`, `get_data`, `handle_disconnect`, `_data_handler`, `disconnect` | `HeaterDaemon` (with `AsyncLock`); what it promises: `SerialLink` |
| Health record, `RuntimeStatus` | connected, connecting, failures, last success, next retry | `mark_*`, `schedule_retry`, `heater_status` | `RuntimeStatus`; what the daemon tells of itself: `DaemonHealth` |
| Back-off, `RuntimeStatus` and `poll_loop` | failure counter, time of the next retry, the loop's sleep | `retry_delay`, `retry_delay_for_error`, `retry_in`, the naps of the loop | `RetryBackoff` |
| Poll loop, socket server, shutdown, `run_daemon` | `poll_lock`, a task per client, stop event | `poll_once`, `poll_loop`, `handle_client`, signals | `HeaterDaemon` |
| Exclusive modes, `switch.py` | `active_mode`, `_evaluating`, one task per call or update | turning Heating, Ventilation and Auto on and off, `_async_evaluate`, restoring Auto | `ModeControl` |
| Requested setting, `number.py` | a target per kind of setting, one adjust task | `async_set_native_value`, `_async_adjust_loop`, `_async_wait_for_setting_change`, restoring the last state, a reload of the entry | `RequestedSetting` |
| Daemon client, coordinator, `daemon_client.py`, `coordinator.py` | half-second cache of the merged status, data and success of the last update, time of the next one | `get_status`, periodic and requested refreshes, reload | `DaemonClient` |
| Frame parsing, packet building | none (pure, but for the unit of the cached frame) | `HeaterResponse`, `build_hcalory_command`, argument checks | `HeaterFrame`, `Packets` |
| Sensors, buttons | none | availability of a sensor; a command and a refresh | `DaemonClient`, in part |
| Card, config flow, CLI, packaging | none or Home Assistant's | | not modelled |

Interaction. Socket handlers and the poll loop are tasks of one asyncio event
loop: they interleave only at awaits that suspend. They share the connection
through `_command_lock` (and, under it, `_connect_lock`), the notification queue
through `poll_lock`, and the health record without a lock. bleak's callbacks
(`handle_disconnect`, `_data_handler`) run between any two of their steps. The
integration's entities are tasks of another event loop. They share `active_mode`
and the coordinator's data without a lock, see the heater through two caches
(the daemon's frame, the coordinator's data), and may give up on a command that
the daemon still carries out.

What is hard, and what is asked about it (`PROJECT.json` lists each hazard at its
line):

* exceptions in any await while locks are held (`EveryRequestAnswered`,
  `PollingNeverStops`, `ConnectLockUncontended`);
* the link dropping at any moment, in the middle of connection set-up too, with
  characteristics cached for it (`CharacteristicsOfThisLink`, `WriterHasClient`);
* a health record that several tasks write from what they saw before an await
  (`ReportedWhenUp`, `ConnectingPasses`, `StaleConnectedClears`,
  `OkMeansRecentFrame`, `InvalidFrameFlagged`, `ImplementsDaemonHealth`);
* notifications without a request number (`PolledFrameIsCurrent`, `SinglePoll`);
* clients that get their turn in the order they asked, through a lock, failures
  and a shutdown (`ImplementsSerialLink`);
* retries that two tasks schedule and one sleeps for (`PollsInTime`,
  `RetryWaitedFor`, `NoticedAfterPowerOn`, `BackoffGrows`);
* three answers merged into one status, and a cache that both hides what is new
  and vouches for what is old (`InvalidOnlyInPassing`, `NewFrameShown`,
  `MeasurementFresh`);
* notifications cut short, and checksums that wrap (`TruncationSafe`,
  `RunningNotCooling`, `WellFormed`, `TemperatureInUnit`);
* commands that are not idempotent (`WrittenOnce`, `OneStepAhead`, `PacedSteps`);
* shutdown while handlers run (`StopCompletes`, `WriterHasClient`);
* mode switches that check before an await and act after it
  (`ModesPassThroughOff`, `OneEvaluation`, `AutoNeverVentilates`);
* progress over stale data and failing commands (`AutoHeatsColdRoom`,
  `SettingConverges`).

## The modules

`AsyncLock` is `asyncio.Lock`: a holder and a queue of waiters. As in Python 3.11
and later, a lock with waiters is not free even when nobody holds it
(`Available`), while `Locked` is only about the holder. That difference is
visible in `pump_data_force`, which asks `poll_lock.locked()`.

`RuntimeStatus` has one operator per method of the class, from record to record.
Times are reduced to what the code compares them with, and
`consecutive_failures` is capped at `FailureCap` (all that is asked is whether it
is positive). In it a failure schedules a retry that is pending and later due;
how long that takes is the subject of `RetryBackoff`.

`RetryBackoff` puts the poll loop on a clock, with the delays as numbers. `Tick`
is the only action that takes time; it is disabled while the loop is awake, so
that a sleep is acted on when it ends. `PollLoopNaps` and `PollLoopPolls` are the
two branches of the loop's head; `PollFails` is the except-branch of `poll_once`,
whoever polls, followed by the sleep when the poller is the loop. The history
variables `since` and `delay` record when the latest poll ended and which delay
it scheduled. One thing the model brought to light: the loop looks at `retry_in`
before it waits for `poll_lock` (`heater_daemon.py:704`), so a loop that waited for a client's
poll polls at once when that failed, whatever retry it scheduled. `RetryWaitedFor`
is therefore about a loop that found the lock free.

`HeaterDaemon` composes both. A task's `pc` is the await it is suspended in; the
module header lists them. An action is what a task does from one suspension to
the next, so `WriteDone`, for instance, stands for the return of
`write_gatt_char`, the release of the command lock and, for a command, the reply
and the close of the connection. Code that runs without suspending is shared as
operators: `BeginSend` is `send_command`/`send_packet` from the moment
`_command_lock` is obtained, `Raised` an exception leaving them, up through
`poll_once` (`PollFailed`) or `handle_client`. `HandleDisconnect`,
`AttemptDrops`, `DataHandler`, `RetryDue` and `DataAges` are the environment.
`writes` and the `current` field of a frame are history variables. They count the
packets a command wrote, and tell whether a frame arrived after the latest drain
of the queue; no guard reads them.

`SerialLink` is what the daemon promises, without locks, connections or the
radio: a line of tasks that want to send, whose first member is served, and one
answer per request. A request leaves the line with one of five pairs of answer
and number of packets sent (`Outcomes`); "OK" without a packet is not among them.
`HeaterDaemonLink` maps `HeaterDaemon` to it. The line is `_command_lock`: its
holder and, behind it, its waiters. A released lock with a woken waiter is a line
whose first member is not served yet, which is where overtaking would show.

`DaemonHealth` is what those who only ask see of the daemon: whether it is
linked, whether it is failing, and its cached frame with its age. A failure ends
with a valid frame and with nothing else, the frame changes with a poll and with
nothing else, "ok" is said of a young valid frame only. `HeaterDaemonHealth` maps
`HeaterDaemon` to it. Its only time is `max_age`, so that a valid frame has age 0
until `max_age` has passed since the last success, and 1 from then on; what is not
`Running` has no frame and tells nothing. `DaemonClient` extends the same module
with ages in ticks: the integration is modelled against what the daemon is shown
to keep.

`ModeControl` has the Heating, Ventilation and Auto switches. `Listener` is the
evaluation started by a coordinator update and the members of `Calls` are service
calls in progress. A command is in `cmd[t]` while its task awaits it. It
takes effect when it is acknowledged, or, when it fails, not at all, all the same
by the time of the failure, or later: the client's timeout of 3 s is shorter than
a connection set-up, and the daemon does not drop a command whose client is gone.
Such a command is in `late` until `LateCommand` carries it out, in the order the
clients gave up (`MaxLate` at a time); that a newer command may overtake it is more
than the daemon's lock allows. `Restart` leaves it there, and may add one.
The heater's `ventilation` is a toggle, as the packet is. `Zones` replaces
temperatures and hysteresis by the outcomes of the two comparisons, both of
which can hold when the hysteresis is 0. `goal` is the local variable of a call
that turns a mode on; it is "off" in every other.

`RequestedSetting` has the adjust loop and its wait, for a set of entities: the
one Home Assistant has (`current`) and, after a reload of the config entry, the
orphans whose loop nothing cancelled. `Refresh` makes the
coordinator's data catch up with the heater, lack `data_status` "ok", or lack a
frame altogether. `StepDone` lets the heater ignore a step; `StepFails` is an
error, with or without a command that the daemon carries out later (`late`,
`LateStep`). Gear and ventilation mode are one mode of the model, since the code
treats them alike. One assumption about the surroundings is in it: a heater
that obeys a step does so before the command is acknowledged. Nothing is assumed
of the data's age. `WaitExpires` may end the wait of 8 s on data from before the
step: when refreshes fail the coordinator keeps what it had (`UpdateFailed`,
`coordinator.py:31-33`), `data_status` "ok" with it, and the loop sends another
step (`number.py:140-142`, `172-187`). A wait that ends so is *blind*. The history
variable `unseen` counts the blind waits since the last decision on current data
(those ended by a stale reading that equals a new target, `number.py:185`,
among them), and `MaxBlindWaits` bounds the expired ones for TLC.

`DaemonClient` has the integration's view of the daemon, which is `DaemonHealth`: it
may stop, start, fail and reconnect between any two requests. `phase` is the request
that `get_status` awaits. `Merged` is its return; `RefreshFails` any `DaemonError`;
`AnswerFromCache` a call within the half-second, which the coordinator counts as
a success and which starts its interval anew. `Available` is the availability of
a sensor that needs `data_status` "ok". The history variables `unseen` and `taken`
follow the oldest frame that is not shown yet.

`HeaterFrame` has the parser as operators on a notification, which is a length and
the values at the places `HeaterResponse` looks at: what is beyond the length is
`None`. `Packets` has the packets byte by byte, since the property is about their
bytes, and one action per kind of request that makes one. Its `response` is the
cached frame; it does not change between requests, since a request only looks at
it once.

The `MC*` modules instantiate these for TLC. A definition whose comment starts
with *Defect* is not part of a model: it is the plausible slip that shows that a
property notices it, kept beside the definition it would replace.

## What is checked

Runs that find no error:

| Run | Instance | Shows |
| --- | --- | --- |
| `daemon_safety` | two clients (symmetric) and the poll loop, two queued notifications; 613187 states | eleven invariants of the daemon: type, locks, link, health record, cached frame, writes; it implements `SerialLink` and `DaemonHealth` |
| `daemon_liveness` | one client and the poll loop, one queued notification | every request is answered, polling goes on, wrong health reports pass, a stop request ends the daemon |
| `mode_control` | one service call at a time, restarts at any moment, one late command at a time; 128192 states | at most one evaluation, which ends, and `_evaluating` tells exactly whether there is one; modes change by way of "off"; Auto keeps heating a room that stays cold |
| `setting_control` | two entities, levels 1..3, two temperatures; one change of target, mode change, timeout, restart, reload, blind wait each, two of them together; 486577 states | an undisturbed loop is ahead of what it saw by the step under way, and by one more for a blind wait; a target that stays is reached |
| `packets` | all 256 state bytes, frames cut at every place the parser reads, arguments around every limit | packets are well formed, a temperature goes out in the unit of the request, of the cached frame, or, with nothing cached, Celsius; cut frames are refused or read alike |
| `retry_backoff` | the delays of `config.yaml` in seconds (2, 5, 60, 10), eight failures | the loop neither overtakes a retry nor oversleeps it; after power is restored the heater is asked for within `not_found_backoff_max`; delays grow |
| `status_refresh` | not to scale: cache 2 ticks, interval, request and `max_age` 1 each; 2711821 states | what a sensor shows is fresh, belongs together and is replaced in time, while the daemon fails, hangs, stops and starts |

Why the bounds are enough. Two clients and the poll loop are three contenders
for each lock: one holds it, one is woken, one waits. Two notifications make a
queue with a head and a rest. One failure is as good as several for every
question asked. The invariants are proved for any number of clients and any
bounds; the runs were there first to find them. For liveness one client suffices
to contend with the poll loop for both locks, and a longer queue only repeats its
head. Three levels allow steps from, to and between the limits;
temperatures disjoint from the levels make a mix-up of the two visible; two
disturbances are enough for one to hit the recovery from the other. One late
command of a switch is enough to meet each decision that follows; the run of the
fan's counterexample needs none (`MaxLate = 0`). The exponent
of the back-off stops growing at the seventh failure, so eight show that it stays.
In `status_refresh` the times are as short as lets each of them pass and be cut
short; that the cache outlasts the interval gives it more to hide than it has in
reality, and the theorems hold for all times. Deadlock
is checked in every run; the stopped daemon stutters explicitly (`Terminated`).

Runs that end in a counterexample, where the code does not do what a document or
comment of the repository says:

| Run | Statement | What happens |
| --- | --- | --- |
| `mode_two_calls` | README: "Turning one mode on first leaves the previously selected mode" | two calls at once both read `active_mode` before either command returns |
| `mode_ventilation` | README: this prevents "Auto and Ventilation from fighting each other" | Auto's toggle, decided on a stale frame, starts the fan it should stop |
| `setting_timeout` | README: "sends one step, waits until the daemon data shows that the heater setting moved" | a command the client gave up on is carried out; the next loop steps again on older data |
| `setting_restart` | integration README: "Heating power: power level `1..6`" | a restored temperature becomes the target of the level |
| `setting_auto` | integration README: "Auto: heating power level `1..6`" | with Auto on in thermostat mode, steps meant for a level change the temperature |

`ModesPassThroughOff` therefore appears twice: it holds with one call at a time
and fails beyond that. `OneStepAhead` fails after a timeout; it also fails after a
wait that ran out on old data, and when the target changes twice: a first change
makes the target equal the stale data, which ends the wait (`number.py:185`), and
a second one then starts a step before the one under way is seen. `PacedSteps`
is what remains of it for a loop whose commands do not time out: the heater is
ahead by the step under way and one for each wait that ended blind, so by the
step under way alone as long as no refresh fails for 8 s.

Two more disagreements need no run. The daemon's README says that it "caches the
last valid `pump_data`", but `get_data` stores a frame before it looks at
`valid` (`heater_daemon.py:611`); `InvalidFrameFlagged` shows what limits the
damage. And `sensor.py:121` requires a sensor's key in the data also for
`error_message`, which no answer of the daemon contains: the text that
`native_value` computes for it is never shown.

`AutoHeatsColdRoom` has the premise that the data does not say "ventilation" for
ever: without it each evaluation may act on a "ventilation" frame older than its
own toggle, toggle again and have `start_heat` fail, over and over.
`SettingConverges` has the premise that no orphan's loop is left: the data of a
coordinator that was shut down is never refreshed, so a loop that lost its entity
may go on stepping towards a target that it will not see reached. What such a
loop does to the heater while it lasts is in the model, but no property covers it.
That refreshes do not fail for ever is a fairness assumption; with a blind wait
the heater overshoots and is brought back.
`NoticedAfterPowerOn` relies on the cap for a lost connection: `DOCS.md:83-84`
describes the caps by the kind of error, but whatever a poll failed with, the
smaller cap applies when no connection is left (`heater_daemon.py:691`).

Fairness. The event loop runs every task that can go on (`WF` of each task's
steps). Every BLE call, `wait_for` and socket request ends, in success or in
failure; for the daemon no fairness makes it succeed, so `EveryRequestAnswered`
and `PollingNeverStops` hold when everything fails for ever. A peer sends its
request or closes its connection, as `daemon_client.py` does on its timeout. In
the integration, commands are not refused for ever (`SF` of the acknowledgement,
needed by progress properties only), the daemon polls, and the coordinator's
refreshes, which run every second, eventually bring the data up to date; an
orphan gets no refresh and no update, and whether its task runs is left open, as is
whether a late command of `ModeControl` is ever carried out. In `RequestedSetting`
the late ones are carried out (`WF` of `LateStep`), since an unfinished one could
undo a target at any time. Nothing
forces a notification, a disconnect, a mode change, a user's call or a restart.

## What is proved

All safety properties of the runs without a counterexample, and both refinements,
`SerialLink` and `DaemonHealth`: for every set of clients, calls, entities, frames or
arguments, all delays and every bound. They rest on the `ASSUME`s of the modules:
the poll loop (the listener) is not a client (a call), the empty values are
distinct from proper ones, and the bounds are numbers. For the counterexamples
there are theorems that say what they need, so that nothing else breaks the rule;
and for the main liveness properties, theorems that state their safety half, so
that only the fairness is left to TLC.

The daemon (`HeaterDaemonProofs`, `HeaterDaemonDataProofs`,
`HeaterDaemonLinkProofs`). None of the
properties is inductive by itself; the proofs build an invariant in layers, each
using those before:

1. `TypeOK` (`TypeCorrect`).
2. `TaskInv` and `LockInv` (`LocksCorrect`): who holds each lock follows from the
   tasks' `pc`. A task in `Sending` holds the command lock, one in `Connecting`
   (and no other) the connect lock, one in a poll the poll lock; only a poll waits
   for a frame. This makes `SingleSender`, `SinglePoll` and
   `ConnectLockUncontended` follow, and it is what allows `BeginSend` to take
   `_connect_lock` without a queue.
3. `LinkInv` (`LinkCorrect`): how the client, the characteristics and the health
   record agree, including the phases in which a connection is being set up.
   Without the facts about a task that is searching, a disconnect in the middle
   of the set-up cannot be told from one of an established link. From it
   `CharacteristicsOfThisLink`, `WriterHasClient` and `ReportedWhenUp`.
4. `FrameInv` (`FramesCorrect`): while a poll waits, the whole queue is
   `current`; an invalid cached frame goes with a counted failure; a valid one
   has a time of success. From it `PolledFrameIsCurrent`, `InvalidFrameFlagged`
   and `OkMeansRecentFrame`.
5. `NothingWrittenYet` (in `WrittenOnceHolds`): a command still on its way to the
   link has written nothing.
6. `LineInv` and `PollLineInv` (`LocksServe`): the converse of what `LockInv` says
   of the command lock and the poll lock. A lock that is `Served` is held by a task
   inside what it protects, and its queue holds exactly the tasks that wait for it,
   each once. So a task that asks is not in the line yet, and one that is answered
   out of line has no place in it. What the lemmas `ServedAcquired`,
   `ServedEnqueued`, `ServedResumed` and `ServedReleased` say of one lock is used
   for both.

With them every step of the daemon is a step of `SerialLink` or leaves line and
answers alone (`SimulatedStep`): asking for the command lock appends to the line
(`LineRequest`), a release takes its head off (`LineRelease`), a woken waiter keeps
its place (`LineResume`), and what leaves the line has one of `Outcomes`, for
which `NothingWrittenYet` is needed. At the shutdown `InLineStands` shows that no
client is dropped from the line: the handlers are done, so none stands in it.

`NobodyWaitsInVain` is the safety half of `EveryRequestAnswered` and
`PollingNeverStops`: whenever a task waits for a lock, some task holds it or was
woken for it, and can go on. A lock without a holder has woken its first waiter;
a holder waits for the radio, the queue's timeout or the other lock, and the two
locks make no circle. `ShutdownGoesOn` is that of `StopCompletes`: of the handlers that
`wait_closed` waits for, some task can go on or a request is still to be read, and
none joins them.

`HealthImplemented` is the refinement of `DaemonHealth`. Outside the poll that takes
a frame and the passing of `max_age`, all there is to show of a step is that it
carries the record on (`Carried`): the last success stays, and no failure is
forgotten, whatever `mark_connected` and `mark_connecting` write from what a task
saw before an await. `OkIsDataOk` says, with `FrameInv`, that the `data_status` "ok"
of `heater_status` is the `DataOk` of the abstract daemon, so what `DaemonClient`
relies on is what the daemon answers.

The switches (`ModeControlProofs`). `OneEvaluation` is inductive together with
`TypeOK`, for any number of simultaneous calls. `ModesPassThroughOffHolds` has
the hypothesis that calls do not overlap (all members of `Calls` are equal); its
invariant `EntersFromOff` says that a call in the phase `left` or `entering` finds
`active_mode` "off". It is a case of `ModesPassThroughOffAlone`, for any number of
calls: nothing but a call that turns a mode on while another is on its way to one
breaks the rule. `mode_two_calls` shows that such a call does.
`AutoTogglesOffOnFact` does the same for `mode_ventilation`: Auto's toggle ends the
ventilation if the data showed the heater as it was when the rules were
evaluated, and the daemon has no other command while it has the toggle: none that
another task awaits, and none in `late`, where an earlier toggle of Auto's own may
be that timed out. (Without the second condition TLC finds the fan started: the
late toggle ends the ventilation, and the new one starts it.) `CommandsFitPlaces`, which
says which command each place waits for, is what it and `EvaluationCanGoOn`, the
safety half of `EvaluationEnds`, rest on. `EvaluationAdvances` bounds what
is sent after Auto was turned off in the middle of an evaluation: its places are
ranked, an evaluation only goes forward, and with Auto off none begins.

The parser (`PacketsProofs`). No request changes the cached frame, so what
`RunningNotCooling` and `TruncationSafe` say is a fact about every notification:
the named running states have the status nibble of heating and the named cooldown
states that of turning off; a valid notification reaches past the ambient
temperature, so a valid part holds every reading of the whole.
`TemperatureInUnit` is inductive.

The packets (`PacketsProofs`). `WellFormed` is about the bytes of every packet:
header, length and a checksum over a sum. The sum is a recursive function;
`SumSteps` and `SumIsInt` say of it, for every sequence, what the proofs need, by
induction over the sets of lengths for which it holds (`InductiveSet`, from the
well-foundedness of the numbers). With them each way to build a packet is framed (`BuildIsFramed`), hence
`WellFormedHolds`. `OnePowerFormat` shows that a fixed packet, a raw command
and a power action of one number are the same bytes.

The requested setting (`RequestedSettingProofs`). `PacedInv` says what a task may
see: as long as nothing disturbed the loops, only the current entity's loop runs,
nothing is late, and what it sees, or has decided its step on, is at most
`unseen` steps from the heater's setting. Data that came while a step was sent
shows the heater without that step; it is news only if the step was decided on
older data, and then `unseen` is positive: this is what keeps a movement that is
observed from hiding one that is not. `PacedSteps` follows, and so does
`StepsTowardsTarget`: a step is decided on towards the target and not beyond it,
from a setting at most `unseen` steps old, and the heater moves as decided. It is
the safety half of `SettingConverges`.
`LevelTargetLost` explains `setting_restart`: the target of a level leaves its
range by a restart or a reload only, and only when the restored state is not a
level; `LevelTargetKept` concludes that without either it stays.

The back-off (`RetryBackoffProofs`). The invariant counts what is left: the time
since the latest poll and the rest of the loop's sleep together never exceed the
interval or the delay, and together with the rest of the retry they are the
delay. `NoticedAfterPowerOn` adds that the delay of a poll that left no connection
is capped by `not_found_backoff_max`; `BackoffGrows` that a delay is the one its
number of failures gives, which is monotonic.

The client (`DaemonClientProofs`). `ClientInv` relates all ages to `fetched`, the
time since the refresh began whose result is shown (`CacheInv`), and to the time
since the coordinator was last told of a success (`ShownInv`). Since an answer
from the cache is a success that makes nothing newer, neither follows from the
other: the first holds while a refresh is repeated, the second while it fails.

Only model-checked: the liveness properties (`EveryRequestAnswered`,
`PollingNeverStops`, `ConnectingPasses`, `StaleConnectedClears`, `StopCompletes`,
`EvaluationEnds`, `AutoHeatsColdRoom`, `SettingConverges`). TLAPS, as used here, does
not reason about `ENABLED`, on which their fairness is defined.

## What is not modelled

* A client dropped after a failed `start_notify` is not disconnected by the code.
  The model forgets it; its later `handle_disconnect` could clear the
  characteristics of its successor. Whether bleak delivers that depends on BlueZ.
* Replies carry no request number. `PolledFrameIsCurrent` excludes what was queued
  before the drain; a reply to an earlier command that arrives between the drain
  and the poll's own write, or between that and its answer, is taken for the answer.
* A peer that connects to the socket and neither sends nor closes: `HandleRequest`
  is fair, without which `wait_closed` could wait for ever.
* A reload of the config entry in `ModeControl`: an evaluation of the old Auto switch
  that is still running would end beside one of the new switch. (`Restart` has
  the loss of `mode_state`; `RequestedSetting` has the reload.)
* `time.time()` is a wall clock; `RetryBackoff` and `DaemonClient` model it as one that
  only goes forward, so a clock set back or ahead is left out.
* The heater offers the configured characteristics; a write without one would
  raise, as every other failed write does.
* Socket files, the command line, logging, formatting of replies.
* The modules are composed within the daemon and within the integration's
  entities. Across the socket, `DaemonClient` and `HeaterDaemon` are joined by
  `DaemonHealth` alone, in which `HeaterDaemon` knows no other time than `max_age`;
  `ModeControl` and `RequestedSetting` have as much of the daemon as their questions
  need, and no times, since everything they wait for may come late.
* Home Assistant's debouncing of requested refreshes: in `DaemonClient` a refresh
  begins whenever none is running.
* The config flow and the first-time set-up of the entry, the Highland switch, the
  card; of sensors and binary sensors all but availability: they keep no state of
  their own or only send single commands.
* In a frame, `preheating` and `cooldown` hold together for the state
  `cooldown_starting` (67, low nibble 3), and an error frame whose setting byte is
  0 has error code 0: properties of the parser that no run states yet.
* `src/heater_slower_socket.py` is the daemon once more but for one version
  string.

## Plan

Done: all modules of the table above, the proofs of all safety properties and of
both refinements. What could follow:

1. `ImplementsDaemonHealth` with ages in ticks, by a clock in `HeaterDaemon` in place
   of `DataAges`.
2. Auto turned off while an evaluation waits (`switch.py:252`):
   `EvaluationAdvances` says what the heater may still be told; a property for a
   run, once a document says what it should be.
3. The error code of a frame whose setting byte is 0 (`heater_daemon.py:254`),
   against `DOCS.md:129-131`, as a property of `HeaterFrame`.
