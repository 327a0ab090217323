------------------------------ MODULE RunMode ------------------------------
(***************************************************************************)
(* How automatic mode chooses between ventilation, wet film, cooling and   *)
(* heating (system/unitctrl.c:134-556): eight rules, each with a condition *)
(* that is to last for its delay and an interval since the previous switch *)
(* that is to be over.                                                     *)
(*                                                                         *)
(*   rule    1: FAN->WET   2: FAN->HEAT  3: WET->COOL  4: WET->FAN          *)
(*           5: COOL->WET  6: HEAT->FAN  7: COOL->WET  8: HEAT->FAN         *)
(*                                                                         *)
(* Three tasks take part: the dispatcher (requests and reports), the 10 s  *)
(* poll, and the timer task of the operating system.  The first two only   *)
(* start a rule's delay timer (vSystem_ChangeUnitRunningMode); the switch  *)
(* is decided by the callback of any delay timer                           *)
(* (vSystem_AdjustUnitRunningMode), which runs with the scheduler locked.  *)
(* No handler preempts another (README, scheduling): each is one step.  No *)
(* delay timer is ever cancelled, so one that was started in a mode left   *)
(* since is still served.                                                  *)
(*                                                                         *)
(* A tick is one minute, the unit of the delays and intervals.  Several    *)
(* timers may be due at the same tick; they are served in any order.       *)
(***************************************************************************)
EXTENDS Integers

CONSTANTS
    Temps,          \* indoor temperatures, sAmbientIn_T
    SetPoints,      \* target temperatures, usTempSet
    EnergyTemp,     \* usEnergyTemp
    TempDeviat,     \* usTempDeviat
    AdjustTemp,     \* usModeAdjustTemp_0 .. _6
    ChangeTime,     \* usModeChangeTime_1 .. _8
    Period,         \* usModeChangePeriod_1 .. _6
    MaxDwell,       \* bound: where the count of since stops
    MaxRequests     \* bound: requests and reports that interfere

Rules     == 1..8
Intervals == 1..6

ASSUME TempsAssumption == Temps \subseteq Int /\ SetPoints \subseteq Nat
ASSUME EnergyAssumption == EnergyTemp \in Nat /\ TempDeviat \in Nat
ASSUME AdjustAssumption == AdjustTemp \in [0..6 -> Nat]
ASSUME TimesAssumption ==
    /\ ChangeTime \in [Rules -> Nat]
    /\ Period \in [Intervals -> Nat]
ASSUME BoundsAssumption ==
    /\ MaxRequests \in Nat /\ MaxDwell \in Nat
    /\ \A p \in Intervals : Period[p] <= MaxDwell

VARIABLES
    eRunningMode,   \* pThis->eRunningMode; "NONE" is the zero before the first
    auto,           \* eSystemMode = MODE_AUTO
    eSystemState,   \* "UNIT" stands for STATE_COOL, _HEAT, _FAN and _WET
    temp,           \* sAmbientIn_T
    lastTemp,       \* LastAmbientIn_T, the poll's own copy
    usTempSet,
    compsClosed,    \* no compressor of a usable unit runs
    xCompFirstRun,
    tmr,            \* sModeChangeTmr_1 .. _8: minutes left, 0 due, or Off
    per,            \* sModeChangePeriodTmr_1 .. _6, likewise
    requests,       \* requests and reports so far
    since,          \* history: minutes since the last automatic switch
    byAuto          \* history: nothing else has changed the mode since then

control == <<eRunningMode, eSystemState, xCompFirstRun, tmr, per, since, byAuto>>
vars    == <<control, auto, temp, lastTemp, usTempSet, compsClosed, requests>>

Off      == -1                          \* any state but OS_TMR_STATE_RUNNING
RunModes == {"FAN", "WET", "COOL", "HEAT"}

From     == <<"FAN", "FAN", "WET", "WET", "COOL", "HEAT", "COOL", "HEAT">>
To       == <<"WET", "HEAT", "COOL", "FAN", "WET", "FAN", "WET", "FAN">>
Interval == <<1, 2, 3, 4, 5, 6, 5, 6>>

(* A bug: the way back from wet film is not held off.                        *)
Started_Not4(m) ==
    {p \in Intervals : \/ m = "FAN" /\ p = 1
                       \/ m = "WET" /\ p = 3
                       \/ m = "COOL" /\ p = 5
                       \/ m = "HEAT" /\ p = 6}

(* The interval timers an automatic switch into mode m starts.               *)
Started(m) ==
    {p \in Intervals : \/ m = "FAN" /\ p = 1
                       \/ m = "WET" /\ p \in {3, 4}
                       \/ m = "COOL" /\ p = 5
                       \/ m = "HEAT" /\ p = 6}

TypeOK ==
    /\ eRunningMode \in RunModes \cup {"NONE"}
    /\ auto \in BOOLEAN
    /\ eSystemState \in {"CLOSED", "EX_FAN", "UNIT"}
    /\ temp \in Temps /\ lastTemp \in Temps
    /\ usTempSet \in SetPoints
    /\ compsClosed \in BOOLEAN /\ xCompFirstRun \in BOOLEAN
    /\ tmr \in [Rules -> Int]
    /\ \A r \in Rules : tmr[r] \in {Off} \cup 0..ChangeTime[r]
    /\ per \in [Intervals -> Int]
    /\ \A p \in Intervals : per[p] \in {Off} \cup 0..Period[p]
    /\ requests \in 0..MaxRequests
    /\ since \in 0..MaxDwell
    /\ byAuto \in BOOLEAN

Init ==
    /\ eRunningMode = "NONE"
    /\ auto = FALSE
    /\ eSystemState = "CLOSED"
    /\ temp \in Temps /\ lastTemp = temp
    /\ usTempSet \in SetPoints
    /\ compsClosed = TRUE
    /\ xCompFirstRun = FALSE
    /\ tmr = [r \in Rules |-> Off]
    /\ per = [p \in Intervals |-> Off]
    /\ requests = 0
    /\ since = 0
    /\ byAuto = FALSE

-----------------------------------------------------------------------------
(* xTimerRegist: the BMS may set a delay or an interval to 0, with which the *)
(* kernel refuses to create the timer, and it does not run.                  *)
Loaded(n) == IF n = 0 THEN Off ELSE n

(* The conditions of the rules, for temperature t and target s.              *)
Active == auto /\ eSystemState # "CLOSED"

(* usSystem_ChangeEnergyTemp: the target of wet film and cooling.            *)
ChangeEnergyTemp(s) == IF s < EnergyTemp THEN EnergyTemp - TempDeviat ELSE s

(* In cooling and heating, first says whether the compressors have yet to    *)
(* run for the first time.                                                   *)
Holds(r, t, s, first) ==
    \/ r = 1 /\ t > s + AdjustTemp[1]
    \/ r = 2 /\ t < s - AdjustTemp[2]
    \/ r = 3 /\ t > ChangeEnergyTemp(s) + AdjustTemp[3]
    \/ r = 4 /\ t < s - AdjustTemp[4]
    \/ r = 5 /\ t < ChangeEnergyTemp(s) - AdjustTemp[5]
    \/ r = 6 /\ t > s + AdjustTemp[6]
    \/ r \in {7, 8} /\ ~first /\ compsClosed

-----------------------------------------------------------------------------
(* vSystem_ChangeUnitRunningMode: the first rule of the mode whose condition *)
(* holds and whose delay is not running has its delay started.  Heating      *)
(* counts as a first run every time.                                         *)
FirstRunAtChange ==
    xCompFirstRun \/ (Active /\ eRunningMode = "HEAT")

(* A bug: a delay that runs is started again.                                *)
ToStart_Again(t, s) ==
    {r \in Rules : /\ Active
                   /\ eRunningMode = From[r]
                   /\ Holds(r, t, s, FirstRunAtChange)}

ToStart(t, s) ==
    {r \in Rules : /\ Active
                   /\ eRunningMode = From[r]
                   /\ tmr[r] = Off
                   /\ Holds(r, t, s, FirstRunAtChange)}

(* A bug: the delay is counted from zero.                                    *)
ChangeUnitRunningMode_OneMore(t, s) ==
    /\ xCompFirstRun' = FirstRunAtChange
    /\ tmr' = [r \in Rules |->
                 IF r \in ToStart(t, s) /\ \A q \in ToStart(t, s) : r <= q
                 THEN ChangeTime[r] + 1 ELSE tmr[r]]
    /\ UNCHANGED <<eRunningMode, eSystemState, per, since, byAuto>>

ChangeUnitRunningMode(t, s) ==
    /\ xCompFirstRun' = FirstRunAtChange
    /\ tmr' = [r \in Rules |->
                 IF r \in ToStart(t, s) /\ \A q \in ToStart(t, s) : r <= q
                 THEN Loaded(ChangeTime[r]) ELSE tmr[r]]
    /\ UNCHANGED <<eRunningMode, eSystemState, per, since, byAuto>>

-----------------------------------------------------------------------------
(* vSystem_SetUnitRunningMode: the state follows if a unit already runs.     *)
SetUnitRunningMode(m) ==
    /\ eRunningMode' = m
    /\ eSystemState' \in {eSystemState, "UNIT"}

(* xSystem_UnitCompsClosed, as called when heating or cooling is entered.    *)
FirstRunAfterSwitch(m) ==
    IF m \in {"COOL", "HEAT"} THEN compsClosed ELSE xCompFirstRun

(* A bug: the callback does not look at the system's mode and state.         *)
Ready_Always(tm) ==
    {r \in Rules : /\ eRunningMode = From[r]
                   /\ tm[r] = Off
                   /\ per[Interval[r]] = Off
                   /\ Holds(r, temp, usTempSet, xCompFirstRun)}

(* vSystem_AdjustUnitRunningMode, with the delay timers being tm: the first  *)
(* rule whose condition holds and whose two timers do not run is applied.    *)
Ready(tm) ==
    {r \in Rules : /\ Active
                   /\ eRunningMode = From[r]
                   /\ tm[r] = Off
                   /\ per[Interval[r]] = Off
                   /\ Holds(r, temp, usTempSet, xCompFirstRun)}

Switch(r) ==
    /\ SetUnitRunningMode(To[r])
    /\ xCompFirstRun' = FirstRunAfterSwitch(To[r])
    /\ per' = [p \in Intervals |->
                 IF p \in Started(To[r]) THEN Loaded(Period[p]) ELSE per[p]]
    /\ since' = 0
    /\ byAuto' = TRUE

AdjustUnitRunningMode(tm) ==
    \/ \E r \in Ready(tm) : (\A q \in Ready(tm) : r <= q) /\ Switch(r)
    \/ /\ Ready(tm) = {}
       /\ UNCHANGED <<eRunningMode, eSystemState, xCompFirstRun, per, since, byAuto>>

-----------------------------------------------------------------------------
(* The timer task.                                                           *)
NothingDue == (\A r \in Rules : tmr[r] # 0) /\ (\A p \in Intervals : per[p] # 0)

Count(n) == IF n = Off THEN Off ELSE n - 1

Tick ==
    /\ NothingDue
    /\ tmr' = [r \in Rules |-> Count(tmr[r])]
    /\ per' = [p \in Intervals |-> Count(per[p])]
    /\ since' = IF since < MaxDwell THEN since + 1 ELSE since
    /\ UNCHANGED <<eRunningMode, eSystemState, xCompFirstRun, byAuto, auto, temp,
                   lastTemp, usTempSet, compsClosed, requests>>

(* vSystem_ModeChangeTimeCallback.                                           *)
DelayOver(r) ==
    /\ tmr[r] = 0
    /\ tmr' = [tmr EXCEPT ![r] = Off]
    /\ AdjustUnitRunningMode([tmr EXCEPT ![r] = Off])
    /\ UNCHANGED <<auto, temp, lastTemp, usTempSet, compsClosed, requests>>

(* vSystem_ModeChangePeriodTimeCallback.                                     *)
PeriodOver(p) ==
    /\ per[p] = 0
    /\ per' = [per EXCEPT ![p] = Off]
    /\ UNCHANGED <<eRunningMode, eSystemState, xCompFirstRun, tmr, since, byAuto, auto,
                   temp, lastTemp, usTempSet, compsClosed, requests>>

-----------------------------------------------------------------------------
(* The poll, and the readings.                                               *)
(* A bug: without the call for a temperature that does not change.           *)
Poll_OnlyCopies ==
    /\ lastTemp' = temp
    /\ UNCHANGED <<control, auto, temp, usTempSet, compsClosed, requests>>

Poll ==
    /\ IF Active /\ lastTemp = temp
       THEN ChangeUnitRunningMode(temp, usTempSet)
       ELSE UNCHANGED control
    /\ lastTemp' = temp
    /\ UNCHANGED <<auto, temp, usTempSet, compsClosed, requests>>

(* vSystem_TempHumiIn and vSystem_UnitTempHumiIn; t may be the old           *)
(* temperature, when only the humidity changed.                              *)
TempHumiIn(t) ==
    /\ temp' = t
    /\ ChangeUnitRunningMode(t, usTempSet)
    /\ UNCHANGED <<auto, lastTemp, usTempSet, compsClosed, requests>>

CompressorsReport ==
    /\ compsClosed' = ~compsClosed
    /\ UNCHANGED <<control, auto, temp, lastTemp, usTempSet, requests>>

-----------------------------------------------------------------------------
(* The dispatcher: requests of the BMS and reports of the units.             *)
Interfere ==
    /\ requests < MaxRequests
    /\ requests' = requests + 1
    /\ UNCHANGED <<temp, lastTemp, compsClosed>>

(* The mode is set by something else than a rule.                            *)
SetByOther(m) ==
    /\ byAuto' = (byAuto /\ m = eRunningMode)
    /\ UNCHANGED <<xCompFirstRun, tmr, per, since>>

SetTemp(s) ==
    /\ Interfere
    /\ s # usTempSet
    /\ usTempSet' = s
    /\ ChangeUnitRunningMode(temp, s)
    /\ UNCHANGED auto

BMSRunningMode(m) ==
    /\ Interfere
    /\ SetUnitRunningMode(m)
    /\ SetByOther(m)
    /\ UNCHANGED <<auto, usTempSet>>

(* vSystem_ChangeSystemMode; whether the mode is admissible is GroupMode's.  *)
OpeningMode == IF temp > usTempSet + AdjustTemp[0] THEN "FAN" ELSE "HEAT"

EnterAuto ==
    /\ Interfere
    /\ ~auto
    /\ auto' = TRUE
    /\ IF eSystemState \in {"CLOSED", "EX_FAN"}
       THEN SetUnitRunningMode(OpeningMode) /\ SetByOther(OpeningMode)
       ELSE UNCHANGED control
    /\ UNCHANGED usTempSet

LeaveAuto ==
    /\ Interfere
    /\ auto
    /\ auto' = FALSE
    /\ UNCHANGED <<control, usTempSet>>

Emergency ==
    /\ Interfere
    /\ auto' = FALSE
    /\ SetUnitRunningMode("FAN")
    /\ SetByOther("FAN")
    /\ UNCHANGED usTempSet

(* vSystem_UnitRunningState: a running unit's mode is taken over; without    *)
(* one, the state is that of the fans.                                       *)
UnitReportsMode(m) ==
    /\ Interfere
    /\ eRunningMode' = m
    /\ eSystemState' = "UNIT"
    /\ SetByOther(m)
    /\ UNCHANGED <<auto, usTempSet>>

UnitsStopped(s) ==
    /\ Interfere
    /\ eSystemState' = s
    /\ UNCHANGED <<eRunningMode, xCompFirstRun, tmr, per, since, byAuto, auto, usTempSet>>

-----------------------------------------------------------------------------
(* OS_TmrTask.                                                               *)
TimerTask ==
    \/ Tick
    \/ \E r \in Rules : DelayOver(r)
    \/ \E p \in Intervals : PeriodOver(p)

Next ==
    \/ TimerTask
    \/ Poll
    \/ \E t \in Temps : TempHumiIn(t)
    \/ CompressorsReport
    \/ \E s \in SetPoints : SetTemp(s)
    \/ \E m \in RunModes : BMSRunningMode(m) \/ UnitReportsMode(m)
    \/ EnterAuto \/ LeaveAuto \/ Emergency
    \/ \E s \in {"CLOSED", "EX_FAN"} : UnitsStopped(s)

Spec == Init /\ [][Next]_vars

(* The poll task and the timer task loop for ever; a tick is served          *)
(* completely, so no timer that is due waits for ever.                       *)
FairSpec ==
    /\ Spec
    /\ WF_vars(TimerTask)
    /\ WF_vars(Poll)

-----------------------------------------------------------------------------
(* A rule never undoes an automatic switch before the interval that goes     *)
(* with it has passed, whichever requests, readings and timer expiries come  *)
(* in between: the units' compressors are not cycled.  Interval 2 is left    *)
(* out: its timer is read (unitctrl.c:307) and never started.                *)
IntervalKept ==
    [][ \A r \in Rules \ {2} :
          (byAuto /\ byAuto' /\ eRunningMode = From[r] /\ eRunningMode' = To[r])
            => since >= Period[Interval[r]] ]_vars

(* No rule acts outside automatic mode or before the system runs: a delay    *)
(* that was started before automatic mode was left changes nothing when it   *)
(* ends.                                                                     *)
RulesOnlyWhenActive ==
    [][ (~Active /\ requests' = requests) => UNCHANGED <<eRunningMode, eSystemState>> ]_vars

(* A room that stays too warm is brought to cooling from every mode and with *)
(* any timers running, also when its temperature does not change.  A rule on *)
(* the way whose delay is 0 is never started (see Loaded).                   *)
TooWarm ==
    Active /\ \A r \in {1, 3, 6} : ChangeTime[r] # 0 /\ Holds(r, temp, usTempSet, TRUE)

WarmReachesCool == <>[]TooWarm => []<>(eRunningMode = "COOL")

(* A room that stays too cold is brought to heating, if the delays of the    *)
(* rules on the way are not 0.                                               *)
TooCold ==
    Active /\ \A r \in {2, 4, 5} : ChangeTime[r] # 0 /\ Holds(r, temp, usTempSet, TRUE)

ColdReachesHeat == <>[]TooCold => []<>(eRunningMode = "HEAT")
=============================================================================
