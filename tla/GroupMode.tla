----------------------------- MODULE GroupMode -----------------------------
(***************************************************************************)
(* The group controller's operating mode (system/systemctrl.c, unitctrl.c, *)
(* fanctrl.c): the mode the BMS asks for, the mode the system is in, and   *)
(* the handlers that refuse a mode or fall back from it when the plant it  *)
(* needs is lost.                                                          *)
(*                                                                         *)
(* A handler is one step: it runs to its end in the dispatcher before the  *)
(* next message is taken.  due holds the kinds of change whose handler has *)
(* yet to run; a kind outside Notified has no registration that is         *)
(* executed.  A report that the event pump drops (see EventPump) is one    *)
(* that stays due until the next change of its kind: the invariants hold   *)
(* with losses, and since the pump does lose reports no liveness is stated.*)
(* A unit's eRunningMode counts only as one of the four running modes or   *)
(* none of them: it is 0 until it is first set or read (modularRoof.c:90   *)
(* is commented out), and is read from the unit as it comes.               *)
(* The devices' own start/stop commands are not part of this module: a     *)
(* device runs or stops, is usable or not, as it pleases.                  *)
(***************************************************************************)
EXTENDS Naturals

CONSTANTS
    Units,          \* psModularRoofList
    Fans,           \* psExAirFanList
    Notified        \* the kinds of change the monitor reports

Kinds == {"mode", "unitErr", "unitRun", "fanErr", "fanRemote", "fanRun"}

ASSUME DevicesAssumption  == Units # {} /\ Fans # {}
ASSUME NotifiedAssumption == Notified \subseteq Kinds

VARIABLES
    eSystemMode,    \* pThis->eSystemMode
    bmsMode,        \* psBMS->eSystemMode, the register the BMS writes and reads
    eSystemState,   \* "UNIT" stands for STATE_COOL, _HEAT, _FAN and _WET
    xUnitErrFlag,   \* no unit is usable, as last computed
    xExFanErrFlag,  \* no fan is free of faults, as last computed
    unitOk,         \* per unit: neither xStopErrFlag nor xCommErr
    unitRuns,       \* per unit: eRunningState = STATE_RUN
    fanErr,         \* per fan: xExAirFanErr
    fanRemote,      \* per fan: xExAirFanRemote
    fanRuns,        \* per fan: eRunningState = STATE_RUN
    modeKnown,      \* per unit: eRunningMode is one of the RUN_MODEs
    due             \* the kinds of change whose handler has yet to run

flags   == <<xUnitErrFlag, xExFanErrFlag>>
devices == <<unitOk, unitRuns, fanErr, fanRemote, fanRuns>>
vars    == <<eSystemMode, bmsMode, eSystemState, flags, devices, modeKnown, due>>

Modes  == {"CLOSE", "MANUAL", "AUTO", "EMERGENCY"}
States == {"CLOSED", "EX_FAN", "UNIT"}

TypeOK ==
    /\ eSystemMode \in Modes /\ bmsMode \in Modes
    /\ eSystemState \in States
    /\ xUnitErrFlag \in BOOLEAN /\ xExFanErrFlag \in BOOLEAN
    /\ unitOk \in [Units -> BOOLEAN] /\ unitRuns \in [Units -> BOOLEAN]
    /\ fanErr \in [Fans -> BOOLEAN] /\ fanRemote \in [Fans -> BOOLEAN]
    /\ fanRuns \in [Fans -> BOOLEAN]
    /\ modeKnown \in [Units -> BOOLEAN]
    /\ due \subseteq Notified

Init ==
    /\ eSystemMode = "CLOSE" /\ bmsMode = "CLOSE"
    /\ eSystemState = "CLOSED"
    /\ xUnitErrFlag = FALSE /\ xExFanErrFlag = FALSE
    /\ unitOk = [u \in Units |-> TRUE]
    /\ unitRuns = [u \in Units |-> FALSE]
    /\ fanErr = [f \in Fans |-> FALSE]
    /\ fanRemote = [f \in Fans |-> FALSE]
    /\ fanRuns = [f \in Fans |-> FALSE]
    /\ modeKnown = [u \in Units |-> FALSE]
    /\ due = {}

NoUnit   == \A u \in Units : ~unitOk[u]
NoFan    == \A f \in Fans : fanErr[f]
NoRemote == \A f \in Fans : ~fanRemote[f]
UnitRuns == \E u \in Units : unitRuns[u]
FanRuns  == \E f \in Fans : fanRuns[f]

-----------------------------------------------------------------------------
(* What the plant and the BMS do.  Every change makes its kind due.          *)
Raise(k) == due' = due \cup ({k} \cap Notified)

BMSWrite(m) ==
    /\ m # bmsMode
    /\ bmsMode' = m
    /\ Raise("mode")
    /\ UNCHANGED <<eSystemMode, eSystemState, flags, devices, modeKnown>>

(* ok may be the old value: one of the two fault flags of the unit changed   *)
(* while the other was set.                                                  *)
UnitReports(u, ok) ==
    /\ unitOk' = [unitOk EXCEPT ![u] = ok]
    /\ Raise("unitErr")
    /\ UNCHANGED <<eSystemMode, bmsMode, eSystemState, flags, unitRuns, fanErr,
                   fanRemote, fanRuns, modeKnown>>

UnitStartsOrStops(u) ==
    /\ unitRuns' = [unitRuns EXCEPT ![u] = ~@]
    /\ Raise("unitRun")
    /\ UNCHANGED <<eSystemMode, bmsMode, eSystemState, flags, unitOk, fanErr,
                   fanRemote, fanRuns, modeKnown>>

(* Read from the unit, or written by vSystem_ParameterSysn; the running mode *)
(* may also change within its class.                                         *)
UnitModeChanges(u, known) ==
    /\ modeKnown' = [modeKnown EXCEPT ![u] = known]
    /\ Raise("unitRun")
    /\ UNCHANGED <<eSystemMode, bmsMode, eSystemState, flags, devices>>

FanFaultChanges(f) ==
    /\ fanErr' = [fanErr EXCEPT ![f] = ~@]
    /\ Raise("fanErr")
    /\ UNCHANGED <<eSystemMode, bmsMode, eSystemState, flags, unitOk, unitRuns,
                   fanRemote, fanRuns, modeKnown>>

FanRemoteSwitched(f) ==
    /\ fanRemote' = [fanRemote EXCEPT ![f] = ~@]
    /\ Raise("fanRemote")
    /\ UNCHANGED <<eSystemMode, bmsMode, eSystemState, flags, unitOk, unitRuns,
                   fanErr, fanRuns, modeKnown>>

FanStartsOrStops(f) ==
    /\ fanRuns' = [fanRuns EXCEPT ![f] = ~@]
    /\ Raise("fanRun")
    /\ UNCHANGED <<eSystemMode, bmsMode, eSystemState, flags, unitOk, unitRuns,
                   fanErr, fanRemote, modeKnown>>

-----------------------------------------------------------------------------
(* The handlers.  One that writes the BMS register or the units' running     *)
(* mode makes that change due.                                               *)
WrittenKinds == (IF bmsMode' # bmsMode THEN {"mode"} ELSE {})
                \cup (IF modeKnown' # modeKnown THEN {"unitRun"} ELSE {})

Handled(k) == due' = (due \ {k}) \cup (WrittenKinds \cap Notified)

FallBackTo_SystemOnly(m) == eSystemMode' = m /\ UNCHANGED bmsMode

(* Both copies of the mode are overwritten.                                  *)
FallBackTo(m) == eSystemMode' = m /\ bmsMode' = m
KeepMode      == UNCHANGED <<eSystemMode, bmsMode>>

StateAfterRunningMode_Mode(known) ==
    IF known /\ UnitRuns THEN eSystemMode ELSE eSystemState

(* vSystem_SetUnitRunningMode: every unit takes the mode, and the state      *)
(* follows a running unit whose mode the switch lists.                       *)
StateAfterRunningMode(known) ==
    IF known /\ UnitRuns THEN "UNIT" ELSE eSystemState

SetRunningModes(known) ==
    /\ modeKnown' = [u \in Units |-> known]
    /\ eSystemState' = StateAfterRunningMode(known)

(* The BMS's register holds 1 to 4 or what WakeUp copied from a unit.        *)
SetUnitRunningMode(known) ==
    /\ SetRunningModes(known)
    /\ UNCHANGED <<eSystemMode, bmsMode, flags, devices>>
    /\ due' = due \cup (WrittenKinds \cap Notified)

Admissible_FlagsOnly(m) ==
    /\ m = "AUTO" => ~xUnitErrFlag /\ ~xExFanErrFlag
    /\ m = "EMERGENCY" => ~xUnitErrFlag

Admissible(m) ==
    /\ m = "AUTO" => ~NoRemote /\ ~xUnitErrFlag /\ ~xExFanErrFlag
    /\ m = "EMERGENCY" => ~xUnitErrFlag

Refuse == bmsMode' = eSystemMode /\ UNCHANGED <<eSystemMode, eSystemState, modeKnown>>

ChangeSystemMode ==
    /\ "mode" \in due
    /\ \/ /\ bmsMode = eSystemMode
          /\ KeepMode
          /\ UNCHANGED <<eSystemState, modeKnown>>
       \/ /\ bmsMode # eSystemMode /\ Admissible(bmsMode)
          /\ eSystemMode' = bmsMode
          /\ IF \/ bmsMode = "EMERGENCY"
                \/ bmsMode = "AUTO" /\ eSystemState \in {"CLOSED", "EX_FAN"}
             THEN SetRunningModes(TRUE)
             ELSE UNCHANGED <<eSystemState, modeKnown>>
          /\ UNCHANGED bmsMode
       \/ /\ bmsMode # eSystemMode /\ ~Admissible(bmsMode)
          /\ Refuse
    /\ UNCHANGED <<flags, devices>>
    /\ Handled("mode")

(* A device that runs turns a closed system into a manual one.               *)
WakeUp == IF eSystemMode = "CLOSE" /\ (UnitRuns \/ FanRuns)
          THEN FallBackTo("MANUAL") ELSE KeepMode

FanState == IF FanRuns THEN "EX_FAN" ELSE "CLOSED"

StatesOfPlant_FansFirst(unlisted) ==
    {IF FanRuns THEN "EX_FAN" ELSE IF UnitRuns THEN "UNIT" ELSE "CLOSED"}

(* The first running unit decides; its place in the list is not modelled, so *)
(* any running unit may be the first.  unlisted is what a running mode that  *)
(* the switch does not list leaves behind.                                   *)
StatesOfPlant(unlisted) ==
    IF UnitRuns
    THEN {IF modeKnown[u] THEN "UNIT" ELSE unlisted : u \in {v \in Units : unitRuns[v]}}
    ELSE {FanState}

UnitRunningState ==
    /\ "unitRun" \in due
    /\ WakeUp
    /\ eSystemState' \in StatesOfPlant(eSystemState)
    /\ UNCHANGED <<flags, devices, modeKnown>>
    /\ Handled("unitRun")

FanRunningState ==
    /\ "fanRun" \in due
    /\ WakeUp
    /\ eSystemState' \in StatesOfPlant(FanState)
    /\ UNCHANGED <<flags, devices, modeKnown>>
    /\ Handled("fanRun")

UnitErr_AutoOnly ==
    /\ "unitErr" \in due
    /\ xUnitErrFlag' = NoUnit
    /\ IF NoUnit /\ eSystemMode = "AUTO" THEN FallBackTo("MANUAL") ELSE KeepMode
    /\ UNCHANGED <<eSystemState, xExFanErrFlag, devices, modeKnown>>
    /\ Handled("unitErr")

UnitErr ==
    /\ "unitErr" \in due
    /\ xUnitErrFlag' = NoUnit
    /\ IF NoUnit /\ eSystemMode \in {"AUTO", "EMERGENCY"}
       THEN FallBackTo("MANUAL") ELSE KeepMode
    /\ UNCHANGED <<eSystemState, xExFanErrFlag, devices, modeKnown>>
    /\ Handled("unitErr")

ExAirFanErr_Latched ==
    /\ "fanErr" \in due
    /\ xExFanErrFlag' = (xExFanErrFlag \/ NoFan)
    /\ IF NoFan /\ eSystemMode = "AUTO" THEN FallBackTo("MANUAL") ELSE KeepMode
    /\ UNCHANGED <<eSystemState, xUnitErrFlag, devices, modeKnown>>
    /\ Handled("fanErr")

ExAirFanErr ==
    /\ "fanErr" \in due
    /\ xExFanErrFlag' = NoFan
    /\ IF NoFan /\ eSystemMode = "AUTO" THEN FallBackTo("MANUAL") ELSE KeepMode
    /\ UNCHANGED <<eSystemState, xUnitErrFlag, devices, modeKnown>>
    /\ Handled("fanErr")

ExAirFanRemoteChange ==
    /\ "fanRemote" \in due
    /\ IF NoRemote /\ eSystemMode = "AUTO" THEN FallBackTo("MANUAL") ELSE KeepMode
    /\ UNCHANGED <<eSystemState, flags, devices, modeKnown>>
    /\ Handled("fanRemote")

(* The BMS's fault reset clears the contact's copy of every fan.             *)
ExAirFanErrClean ==
    /\ \E f \in Fans : fanErr[f]
    /\ fanErr' = [f \in Fans |-> FALSE]
    /\ Raise("fanErr")
    /\ UNCHANGED <<eSystemMode, bmsMode, eSystemState, flags, unitOk, unitRuns,
                   fanRemote, fanRuns, modeKnown>>

-----------------------------------------------------------------------------
Plant ==
    \/ \E m \in Modes : BMSWrite(m)
    \/ \E u \in Units, ok \in BOOLEAN : UnitReports(u, ok)
    \/ \E u \in Units : UnitStartsOrStops(u)
    \/ \E u \in Units, known \in BOOLEAN : UnitModeChanges(u, known)
    \/ \E f \in Fans : FanFaultChanges(f)
    \/ \E f \in Fans : FanRemoteSwitched(f)
    \/ \E f \in Fans : FanStartsOrStops(f)

Next ==
    \/ Plant
    \/ ChangeSystemMode
    \/ \E known \in BOOLEAN : SetUnitRunningMode(known)
    \/ UnitRunningState
    \/ FanRunningState
    \/ UnitErr
    \/ ExAirFanErr
    \/ ExAirFanRemoteChange
    \/ ExAirFanErrClean

Spec == Init /\ [][Next]_vars

-----------------------------------------------------------------------------
(* Whether reports are late or lost, the controller never stays in a mode    *)
(* that its own fault flags forbid: automatic needs both flags clear,        *)
(* emergency ventilation needs the unit flag clear.                          *)
ModeRespectsFlags ==
    /\ eSystemMode = "AUTO" => ~xUnitErrFlag /\ ~xExFanErrFlag
    /\ eSystemMode = "EMERGENCY" => ~xUnitErrFlag

Told(k) == k \in Notified /\ k \notin due

(* A fault flag is stale only while the report of a change of its devices is *)
(* under way; this includes faults that clear again.                         *)
FlagsTruthful ==
    /\ Told("unitErr") => (xUnitErrFlag <=> NoUnit)
    /\ Told("fanErr") => (xExFanErrFlag <=> NoFan)

(* Automatic mode has a usable unit, a fan without a fault and a fan under   *)
(* remote control as soon as the reports on them are handled, whatever the   *)
(* order in which the request, the faults and the fall-backs came.           *)
AutoHasPlant ==
    eSystemMode = "AUTO" =>
        /\ Told("unitErr") => ~NoUnit
        /\ Told("fanErr") => ~NoFan
        /\ Told("fanRemote") => ~NoRemote

(* Emergency ventilation has a usable unit as soon as the units' reports are *)
(* handled, though it is asked for while units fail and come back            *)
(* (unitctrl.c:798 falls back from it as from automatic mode).               *)
EmergencyHasUnit ==
    (eSystemMode = "EMERGENCY" /\ Told("unitErr")) => ~NoUnit

(* The BMS reads the mode the system is in once its last request was         *)
(* handled: refusals and fall-backs are mirrored.                            *)
BMSMirror == Told("mode") => bmsMode = eSystemMode

(* The reported system state is that of the devices once their reports are   *)
(* handled, unless a running unit has a running mode that the switches do    *)
(* not list: units come before fans, and a mode request does not disturb it. *)
StateTruthful ==
    (/\ Told("unitRun") /\ Told("fanRun")
     /\ \A u \in Units : unitRuns[u] => modeKnown[u]) =>
        /\ (eSystemState = "UNIT") <=> UnitRuns
        /\ (eSystemState = "CLOSED") <=> ~UnitRuns /\ ~FanRuns
=============================================================================
