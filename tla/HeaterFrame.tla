---------------------------- MODULE HeaterFrame ----------------------------
(***************************************************************************)
(* class HeaterResponse of heater_daemon.py: what is read from a           *)
(* notification of the heater, which may be shorter than a frame.          *)
(*                                                                         *)
(* A notification is its length and the values at the places the parser    *)
(* looks at; what is beyond the length is not there.                       *)
(***************************************************************************)
EXTENDS Naturals

CONSTANT None

Byte == 0 .. 255
Word == 0 .. 65535

ASSUME NoneAssumption == None \notin Nat \cup BOOLEAN

Notification ==
    [length : Nat, state : Byte, mode : Byte, setting : Byte, auto : Byte,
     voltage : Byte, body : Word, ambient : Word, highland : Byte, unit : Byte]

HeaterState == [off |-> 0, standby |-> 1, cooldown |-> 65,
                cooldown_starting |-> 67, cooldown_received |-> 69,
                ignition_received |-> 128, ignition_starting |-> 129,
                igniting |-> 131, running |-> 133, heating |-> 135,
                fan_starting |-> 192, fan_only |-> 193,
                error26 |-> 26, error255 |-> 255]

HeaterMode == [off |-> 0, thermostat |-> 1, gear |-> 2, ventilation |-> 3,
               ignition_failed |-> 8, unknown |-> 92]

(* Keys of HCALORY_STATUS_NAMES. *)
StatusOff     == 0
StatusTurning == 4
StatusHeating == 8
StatusFan     == 12
StatusError   == 15
StatusNames   == {StatusOff, StatusTurning, StatusHeating, StatusFan, StatusError}

StepIgnition  == 3

-----------------------------------------------------------------------------
(* Reading. *)

(* raw[i] if len(raw) > i else None *)
At(raw, i, value) == IF raw.length > i THEN value ELSE None

(* Defect: half a word is taken for a word. *)
TenthsOfAnyLength(raw, last, value) ==
    IF raw.length < last THEN None
    ELSE (IF raw.length > last THEN value ELSE value \div 256) \div 10

(* read_u16_tenths(raw[last - 1 : last + 1]) *)
Tenths(raw, last, value) == IF raw.length > last THEN value \div 10 ELSE None

(* _parse_enum: a value without a name is None. *)
Named(enum, value) == IF \E n \in DOMAIN enum : enum[n] = value THEN value ELSE None

(* The value is a member of the enumeration with one of these names. *)
Among(value, enum, names) == \E n \in names : enum[n] = value

(* Defect: the running step is taken for the status. *)
RunningByStep(state) == state # None /\ state % 16 \in {StepIgnition, 5}

RunningState(state) ==
    \/ state # None /\ state \div 16 = StatusHeating
    \/ Among(state, HeaterState, {"ignition_received", "ignition_starting",
                                  "igniting", "running", "heating"})

CooldownState(state) ==
    \/ state # None /\ state \div 16 = StatusTurning
    \/ Among(state, HeaterState, {"cooldown_received", "cooldown_starting", "cooldown"})

PreheatingState(state) ==
    \/ state # None /\ state % 16 = StepIgnition
    \/ Among(state, HeaterState, {"ignition_received", "ignition_starting",
                                  "igniting", "heating"})

ErrorCode(state, setting) ==
    IF state # None /\ state \div 16 = StatusError
    THEN IF setting = None THEN 0 ELSE setting
    ELSE IF Among(state, HeaterState, {"error26", "error255"}) THEN state ELSE 0

(* A flag with one value for True and one for False. *)
Flag(value, true, false) ==
    IF value = true THEN TRUE ELSE IF value = false THEN FALSE ELSE None

(* asdict *)
Parsed(raw) ==
    LET state == At(raw, 20, raw.state)
    IN  [heater_state        |-> Named(HeaterState, state),
         hcalory_status      |-> IF state = None THEN None ELSE state \div 16,
         heater_mode         |-> Named(HeaterMode, At(raw, 21, raw.mode)),
         heater_setting      |-> At(raw, 22, raw.setting),
         auto_start_stop     |-> Flag(At(raw, 23, raw.auto), 1, 2),
         voltage             |-> IF raw.length > 25 THEN raw.voltage \div 10 ELSE None,
         body_temperature    |-> Tenths(raw, 28, raw.body),
         ambient_temperature |-> Tenths(raw, 31, raw.ambient),
         highland_mode       |-> Flag(At(raw, 36, raw.highland), 1, 0),
         temperature_unit    |-> At(raw, 37, raw.unit),
         error_code          |-> ErrorCode(state, At(raw, 22, raw.setting)),
         running             |-> RunningState(state),
         cooldown            |-> CooldownState(state),
         preheating          |-> PreheatingState(state)]

(* valid *)
Valid(raw) ==
    LET resp == Parsed(raw)
    IN  /\ resp.heater_state # None \/ resp.hcalory_status \in StatusNames
        /\ None \notin {resp.heater_mode, resp.voltage,
                        resp.body_temperature, resp.ambient_temperature}
=============================================================================
