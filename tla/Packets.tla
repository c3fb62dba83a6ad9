------------------------------ MODULE Packets ------------------------------
(***************************************************************************)
(* The packets heater_daemon.py writes: the fixed ones of class Command,   *)
(* build_hcalory_command and its callers, and which requests of a socket   *)
(* client are refused instead.  `response` is the cached frame, which      *)
(* hcalory_set_temp takes its default unit from.                           *)
(*                                                                         *)
(* A behaviour handles one request after the other; HeaterDaemon has the   *)
(* tasks, the locks and the frames that arrive in between.                 *)
(***************************************************************************)
EXTENDS HeaterFrame, Integers, Sequences

CONSTANTS Responses,     \* notifications that may be cached
          RawIds,        \* numbers a client may ask for with raw,
          Levels,        \* with hcalory_set_gear
          Temperatures   \* and with hcalory_set_temp

ASSUME InputsAssumption ==
    /\ Responses \subseteq Notification
    /\ RawIds \cup Levels \cup Temperatures \subseteq Int

VARIABLES response,  \* heater_response, or None
          request,   \* the request being handled, or None
          packet     \* the packet made of it, << >> when it was refused

vars == <<response, request, packet>>

-----------------------------------------------------------------------------
(* Building. *)

Zeros(n) == [i \in 1 .. n |-> 0]

SumOf(bytes) ==
    LET sum[n \in 0 .. Len(bytes)] == IF n = 0 THEN 0 ELSE sum[n - 1] + bytes[n]
    IN  sum[Len(bytes)]

SetGear  == <<6, 7>>      \* HCALORY_CMD_SET_GEAR
SetTemp  == <<7, 6>>      \* HCALORY_CMD_SET_TEMP
CmdPower == <<14, 4>>     \* HCALORY_CMD_POWER

(* build_hcalory_command, for a command type of two bytes *)
BuildCommand(type, payload) ==
    LET body == <<type[2], 0, 0, Len(payload)>> \o payload
    IN  <<0, 2, 0, 1, 0, 1, 0, type[1]>> \o body \o <<SumOf(body) % 256>>

(* build_hcalory_power_action *)
PowerAction(action) == BuildCommand(CmdPower, Append(Zeros(8), action))

PowerActions == [auto |-> 5, thermostat |-> 6, gear |-> 7, highland |-> 9,
                 celsius |-> 10, fahrenheit |-> 11]

CommandHeader == <<0, 2, 0, 1, 0, 1, 0, 14, 4, 0, 0, 9>> \o Zeros(8)

(* class Command *)
Command == [stop_heat   |-> <<1, 14>>, start_heat  |-> <<2, 15>>,
            up          |-> <<3, 16>>, down        |-> <<4, 17>>,
            gear        |-> <<7, 20>>, thermostat  |-> <<6, 19>>,
            pump_data   |-> <<0, 13>>, ventilation |-> <<8, 21>>]

(* Defect: the checksum is not reduced to a byte. *)
RawCommandUnreduced(id) == CommandHeader \o <<id, id + 13>>

(* Defect: the checksum leaves out the first byte of the sum. *)
RawCommandShortSum(id) == CommandHeader \o <<id, (id + 9) % 256>>

RawCommand(id) == CommandHeader \o <<id, (id + 13) % 256>>

-----------------------------------------------------------------------------
(* Requests. *)

Init ==
    /\ response \in Responses \cup {None}
    /\ request = None
    /\ packet  = << >>

(* Builds the packet of a request, unless its argument is refused. *)
Handled(r, accepted, p) ==
    /\ request = None
    /\ request' = r
    /\ packet'  = IF accepted THEN p ELSE << >>
    /\ UNCHANGED response

SendCommand ==
    \E c \in DOMAIN Command :
        Handled([kind |-> "command"], TRUE, CommandHeader \o Command[c])

SendRawCommand ==
    \E id \in RawIds :
        Handled([kind |-> "raw", id |-> id], id \in 0 .. 255, RawCommand(id % 256))

SendHcaloryPowerAction ==
    \E a \in DOMAIN PowerActions :
        Handled([kind |-> "power"], TRUE, PowerAction(PowerActions[a]))

SendHcalorySetGear ==
    \E level \in Levels :
        Handled([kind |-> "gear", level |-> level],
                level \in 1 .. 10, BuildCommand(SetGear, <<level>>))

(* Defect: a frame without a known unit counts as Celsius. *)
UnitOrCelsius(unit) ==
    IF unit # None THEN unit
    ELSE IF response # None /\ Parsed(response).temperature_unit = 1 THEN 1 ELSE 0

(* The unit given, or else that of the cached frame, or else Celsius. *)
UnitOf(unit) ==
    IF unit # None THEN unit
    ELSE IF response = None THEN 0 ELSE Parsed(response).temperature_unit

RangeOf(unit) == CASE unit = 0 -> 0 .. 40 [] unit = 1 -> 32 .. 104 [] OTHER -> {}

SendHcalorySetTemperature ==
    \E t \in Temperatures, given \in {0, 1, None} :
        LET unit == UnitOf(given)
        IN  Handled([kind |-> "temperature", unit |-> given],
                    t \in RangeOf(unit), BuildCommand(SetTemp, <<t, unit>>))

(* The reply is written and the connection closed. *)
Answer ==
    /\ request # None
    /\ request' = None
    /\ packet'  = << >>
    /\ UNCHANGED response

Next ==
    \/ SendCommand \/ SendRawCommand \/ SendHcaloryPowerAction
    \/ SendHcalorySetGear \/ SendHcalorySetTemperature
    \/ Answer

Spec == Init /\ [][Next]_vars

-----------------------------------------------------------------------------
(* Correctness. *)

(* A packet is a sequence of bytes: bytes() never raises for a request     *)
(* that passed its range check.                                            *)
TypeOK ==
    /\ response \in Responses \cup {None}
    /\ packet \in Seq(Byte)

(* Whichever way a packet was made, its length byte counts the payload and *)
(* its last byte is the checksum the heater expects.                       *)
WellFormed ==
    packet # << >> =>
        /\ SubSeq(packet, 1, 7) = <<0, 2, 0, 1, 0, 1, 0>>
        /\ Len(packet) = 12 + packet[12] + 1
        /\ packet[Len(packet)] = SumOf(SubSeq(packet, 9, Len(packet) - 1)) % 256

(* A temperature is sent in the unit that the request gives, else in the   *)
(* one the heater was last seen to use, else, with no frame cached yet, in *)
(* Celsius, and never on the strength of a frame cut before its unit; and  *)
(* it is within what the heater may be asked for in that unit.             *)
TemperatureInUnit ==
    packet # << >> /\ request.kind = "temperature" =>
        LET t == packet[13]  unit == packet[14]
        IN  /\ \/ unit = request.unit
               \/ request.unit = None /\ response = None /\ unit = 0
               \/ request.unit = None /\ response # None
                  /\ response.length > 37 /\ response.unit = unit
            /\ unit = 0 => t <= 40
            /\ unit = 1 => t \in 32 .. 104

(* The heater is never shown to be running and cooling down at once,       *)
(* whether its state byte has a name or only a status nibble.              *)
RunningNotCooling ==
    response # None =>
        ~(Parsed(response).running /\ Parsed(response).cooldown)

(* A notification that lost its end is invalid, or the readings the        *)
(* integration uses are those of the whole frame.                          *)
TruncationSafe ==
    response # None =>
        \A n \in 0 .. response.length :
            LET part == [response EXCEPT !.length = n]
            IN  Valid(part) =>
                    \A f \in {"heater_state", "heater_mode", "heater_setting",
                              "voltage", "body_temperature", "ambient_temperature",
                              "error_code", "running", "cooldown", "preheating"} :
                        Parsed(part)[f] = Parsed(response)[f]
=============================================================================
