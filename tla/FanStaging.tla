----------------------------- MODULE FanStaging -----------------------------
(***************************************************************************)
(* How many exhaust fans run (system/fanctrl.c): the dispatcher's handlers *)
(* and the two timers that turn the wanted exhaust volume and the CO2      *)
(* concentration into start and stop commands.  The dispatcher (priority   *)
(* 4) is never preempted by the timer task (11), whose callbacks run with  *)
(* the scheduler locked, so every handler and every callback is one step.  *)
(* A handler changes the object in several calls: each call is an operator *)
(* from one value of the object to the next, and a handler composes them.  *)
(*                                                                         *)
(* The object is the record sys, with the two file-scope variables         *)
(* lastNum and lastTime and the fans' commands in it.  What the code reads *)
(* of the fans changes under its feet, and a contact follows a command     *)
(* late.  AUTO stands for MODE_AUTO and MODE_EMERGENCY, which the code of  *)
(* this file treats alike.                                                 *)
(***************************************************************************)
EXTENDS Integers, FiniteSets

CONSTANTS
    N,              \* EX_AIR_FAN_NUM; fan 1 is psExAirFanList[0]
    Volumes,        \* the exhaust volumes that can be wanted
    Rated,          \* ulExAirFanRated_Vol
    MinFreq,        \* usExAirFanMinFreq
    MaxFreq,        \* usExAirFanMaxFreq
    Period,         \* usExAirFanCtrlPeriod
    LeastTime,      \* usExAirFanRunTimeLeast
    Hours,          \* per fan: usRunTime_H, which changes once an hour
    Wayward         \* the fans that need not follow their commands, or that
                    \* the BMS commands in automatic mode too

ASSUME FansAssumption  == N \in Nat \ {0, 1} /\ Wayward \subseteq 1..N
ASSUME VolumeAssumption == /\ Volumes \subseteq Nat
                           /\ Rated \in Nat \ {0} /\ Rated < 2^16
ASSUME ParamAssumption == /\ MinFreq \in Nat /\ MaxFreq \in Nat
                          /\ Period \in Nat \ {0} /\ LeastTime \in Nat
                          /\ Hours \in [1..N -> Nat]

VARIABLES
    sys,            \* the System object, see Objects
    usable,         \* per fan: no fault contact and switched to remote
    runs            \* per fan: eRunningState = STATE_RUN

stagingVars == <<sys, usable, runs>>

Fans  == 1..N
Modes == {"CLOSE", "MANUAL", "AUTO"}
Types == {"CONSTANT", "BOTH"}       \* TYPE_CONSTANT, TYPE_CONSTANT_VARIABLE
Levels == {"LOW", "BAND", "HIGH"}   \* of the CO2 concentration

(* What vSystem_ExAirRequest_Vol stores besides the volume is computed anew  *)
(* by every handler before it is read: OpenNum, RequestTime and RequestNum   *)
(* below.  ulExAirFanRequestTime of the file is only read while the timer it *)
(* was set for is running.                                                   *)
Objects ==
    [mode : Modes, type : Types, co2 : Levels,
     target : Volumes,              \* ulFreAirSet_Vol * the ratio in force
     request : Volumes \cup {0},             \* ulExAirRequest_Vol
     lastNum : 0..N,                \* the file's ucConstantFanRequestNum
     varRequest : BOOLEAN,          \* xVariableFanRequest
     freq : Nat,                    \* usExAirFanFreq
     requestTmr : Nat,              \* the time sExAirFanRequestTimeTmr was
                                    \* started with, 0 when it is not running
     ctrlTmr : BOOLEAN,             \* sExAirFanCtrlTmr is running
     cmd : [Fans -> BOOLEAN],       \* per fan: eCtrlCmd = ON
     acted : Levels \cup {"NONE"}]  \* history: the level the control last
                                    \* acted on in this stay in AUTO

StagingTypeOK ==
    /\ sys \in Objects
    /\ usable \in [Fans -> BOOLEAN] /\ runs \in [Fans -> BOOLEAN]

StagingInit ==
    /\ \E t \in Types, v \in Volumes :
         sys = [mode |-> "CLOSE", type |-> t, co2 |-> "LOW", target |-> v,
                request |-> 0, lastNum |-> 0, varRequest |-> FALSE,
                freq |-> MinFreq, requestTmr |-> 0, ctrlTmr |-> FALSE,
                cmd |-> [f \in Fans |-> FALSE], acted |-> "NONE"]
    /\ usable = [f \in Fans |-> TRUE]
    /\ runs = [f \in Fans |-> FALSE]

-----------------------------------------------------------------------------
(* The processor divides by zero without a trap and the quotient is zero.    *)
Div(a, b) == IF b = 0 THEN 0 ELSE a \div b

Variate == 1
VarUsable(s) == s.type = "BOTH" /\ usable[Variate]
Constants(s) == IF s.type = "BOTH" THEN Fans \ {Variate} ELSE Fans
Staged(s)    == {f \in Constants(s) : usable[f]}
Running(s)   == {f \in Staged(s) : runs[f]}

Open(s, F)  == [s EXCEPT !.cmd = [f \in Fans |-> @[f] \/ (f \in F /\ usable[f])]]
Close(s, F) == [s EXCEPT !.cmd = [f \in Fans |-> @[f] /\ f \notin F]]

(* vSystem_AdjustExAirFanFreq                                                *)
Adjust(s, freq) ==
    IF s.type # "BOTH" THEN s
    ELSE LET raised == IF freq < MinFreq THEN MinFreq ELSE freq
         IN  [s EXCEPT !.freq = IF raised > MaxFreq THEN MaxFreq ELSE raised]

(* The order of the bubble sort: by hours, fans with equal hours as listed.  *)
Before(f, g) == Hours[f] < Hours[g] \/ (Hours[f] = Hours[g] /\ f < g)

Shortest_OneMore(F, k) == {f \in F : Cardinality({g \in F : Before(g, f)}) <= k}

Shortest(F, k) == {f \in F : Cardinality({g \in F : Before(g, f)}) < k}
Longest(F, k)  == {f \in F : Cardinality({g \in F : Before(f, g)}) < k}

(* psSystem_LongestExAirFan: among running constant fans, usable or not, and *)
(* of those with equal hours the first one listed.                           *)
LongestFan(s) ==
    LET running == {f \in Constants(s) : runs[f]}
    IN  {f \in running : \A g \in running \ {f} :
            Hours[g] < Hours[f] \/ (Hours[g] = Hours[f] /\ f < g)}

(* vSystem_ExAirRequest_Vol                                                  *)
RequestVol(s) == [s EXCEPT !.request = s.target]

OpenNum(s) ==
    LET whole == s.request \div Rated IN IF whole < N - 1 THEN whole ELSE N - 1

Surplus(s) == s.request - Rated * OpenNum(s)

RequestTime(s) ==
    IF VarUsable(s) THEN (Div(Surplus(s) * 500, MinFreq) * Period) \div Rated
                    ELSE (Surplus(s) * Period) \div Rated

RequestNum(s) ==
    IF ~VarUsable(s) /\ RequestTime(s) >= LeastTime
    THEN OpenNum(s) + 1 ELSE OpenNum(s)

(* The body that vSystem_ExAirFanConstantAlwaysOpen and _ConstantSwitch      *)
(* share: bring the running constant fans to want, closing none of the first *)
(* keep ones.  Both decide on the contacts, not on the commands.             *)
Stage(s, want, keep) ==
    LET staged  == Staged(s)
        running == Running(s)
        spare   == want > Cardinality(staged) /\ VarUsable(s)
        surplus == /\ want <= Cardinality(staged) /\ ~s.varRequest
                   /\ s.type = "BOTH" /\ runs[Variate]
        s1 == IF spare THEN Adjust(Open(s, {Variate}), MaxFreq)
              ELSE IF surplus THEN Close(s, {Variate}) ELSE s
    IN  IF want < Cardinality(running)
        THEN Close(s1, Longest(running, Cardinality(running) - keep))
        ELSE Open(s1, Shortest(staged \ running, want - Cardinality(running)))

AlwaysOpen(s) ==
    IF s.mode # "AUTO" THEN s ELSE Stage(s, OpenNum(s), RequestNum(s))

ConstantSwitch(s, num) ==
    IF s.mode # "AUTO" THEN s
    ELSE [Stage(s, num, num) EXCEPT !.lastNum = num]

StopTimers_CtrlOnly(s) == [s EXCEPT !.ctrlTmr = FALSE]

StopTimers(s) == [s EXCEPT !.requestTmr = 0, !.ctrlTmr = FALSE]

(* vSystem_ExAirFanCtrlTmrCallback.  xTimerRegist makes no one-shot timer    *)
(* for a time of zero.                                                       *)
CtrlTmrCallback(s) ==
    LET t     == RequestVol(s)
        long  == RequestTime(t) >= LeastTime
        timed == [t EXCEPT !.requestTmr = RequestTime(t)]
        renew == t.requestTmr \notin {RequestTime(t)} \ {0}
    IN  CASE s.mode # "AUTO" -> s
          [] s.mode = "AUTO" /\ VarUsable(s) /\ long ->
               Adjust(Open([timed EXCEPT !.varRequest = TRUE], {Variate}), MinFreq)
          [] s.mode = "AUTO" /\ VarUsable(s) /\ ~long ->
               Close([t EXCEPT !.varRequest = FALSE], {Variate})
          [] s.mode = "AUTO" /\ ~VarUsable(s) ->
               IF long /\ renew THEN ConstantSwitch(timed, RequestNum(t)) ELSE t

(* The tail of vSystem_ExAirFanConstantCtrl and of _BothCtrl: the periodic   *)
(* timer is registered, which calls its callback at once.                    *)
Periodic(s) ==
    LET t == IF s.requestTmr > 0 THEN ConstantSwitch(s, RequestNum(s)) ELSE s
    IN  IF ~t.ctrlTmr \/ t.lastNum # RequestNum(t)
        THEN [CtrlTmrCallback(t) EXCEPT !.ctrlTmr = TRUE]
        ELSE t

ConstantCtrl(s) == IF s.mode # "AUTO" THEN s ELSE Periodic(AlwaysOpen(s))

BothCtrl(s) ==
    LET t    == AlwaysOpen(s)
        freq == ((Surplus(s) * 500) \div Rated) % 65536
    IN  IF Surplus(s) >= (MinFreq * Rated) \div 500
        THEN StopTimers(
               IF freq >= MinFreq
               THEN Adjust(Open([t EXCEPT !.varRequest = TRUE], {Variate}), freq)
               ELSE t)
        ELSE Periodic(t)

AllFans_OneShort(s) ==
    LET t == ConstantSwitch(s, N - 1)
    IN  IF VarUsable(s)
        THEN Adjust(Open([t EXCEPT !.varRequest = TRUE], {Variate}), MaxFreq)
        ELSE t

AllFans(s) ==
    IF VarUsable(s)
    THEN LET t == ConstantSwitch(s, N - 1)
         IN  Adjust(Open([t EXCEPT !.varRequest = TRUE], {Variate}), MaxFreq)
    ELSE ConstantSwitch(s, N)

(* vSystem_ExAirFanCtrl.  In manual mode it repeats the commands in force.   *)
ExAirFanCtrl(s) ==
    IF s.mode # "AUTO" \/ s.co2 = "BAND" THEN s
    ELSE IF s.co2 = "HIGH"
    THEN StopTimers(AllFans([s EXCEPT !.acted = "HIGH"]))
    ELSE LET t == RequestVol([s EXCEPT !.acted = "LOW"])
         IN  IF VarUsable(t) THEN BothCtrl(t) ELSE ConstantCtrl(t)

(* vSystem_ExAirSet_Vol                                                      *)
ExAirSetVol(s) ==
    LET t == RequestVol(s)
    IN  IF t.request # s.request /\ t.lastNum # RequestNum(t)
        THEN ExAirFanCtrl(t) ELSE t

CloseExAirFans(s) == StopTimers(Close(s, Fans))
-----------------------------------------------------------------------------
(* The dispatcher's handlers.                                                *)
Handle(s) == sys' = s /\ UNCHANGED <<usable, runs>>

ChangeSystemMode(m) ==
    /\ m # sys.mode
    /\ LET s == [sys EXCEPT !.mode = m, !.acted = "NONE"]
       IN  Handle(CASE m = "AUTO"   -> ExAirFanCtrl(s)
                    [] m = "CLOSE"  -> CloseExAirFans(s)
                    [] m = "MANUAL" -> s)

(* vSystem_CO2PPM, _UnitCO2PPM, _SetCO2AdjustThr_V: the level may stay.      *)
CO2PPM(c) == Handle(ExAirFanCtrl([sys EXCEPT !.co2 = c]))

(* vSystem_SetCO2AdjustDeviat moves the band and controls nothing.           *)
SetCO2AdjustDeviat(c) == c # sys.co2 /\ Handle([sys EXCEPT !.co2 = c])

(* vSystem_SetFreAir, vSystem_ExAirRatio                                     *)
SetFreAir(v) ==
    /\ v # sys.target
    /\ Handle(ExAirSetVol([sys EXCEPT !.target = v]))

(* A change of the running mode puts the other ratio in force and computes   *)
(* nothing.                                                                  *)
RunningModeChanges(v) == v # sys.target /\ Handle([sys EXCEPT !.target = v])

ChangeExAirFanType(t) == t # sys.type /\ Handle([sys EXCEPT !.type = t])

(* vSystem_ExAirFanErr, _ExAirFanRemoteChange: with every fan faulty, or     *)
(* every fan local, automatic mode is left (GroupMode has the details).      *)
FanUsabilityChanged ==
    \E m \in {sys.mode} \cup (IF \E f \in Fans : usable[f] THEN {} ELSE {"MANUAL"}) :
        /\ m # sys.mode => sys.mode = "AUTO"
        /\ Handle(ExAirFanCtrl([sys EXCEPT !.mode = m,
                                    !.acted = IF m = "AUTO" THEN @ ELSE "NONE"]))

(* The timer task.                                                           *)
ExAirFanCtrlTmr == sys.ctrlTmr /\ Handle(CtrlTmrCallback(sys))

(* vSystem_ExAirFanRequestTimeTmrCallback                                    *)
ExAirFanRequestTimeTmr ==
    /\ sys.requestTmr > 0
    /\ LET s == [sys EXCEPT !.requestTmr = 0]
       IN  Handle(IF s.mode # "AUTO" THEN s
                  ELSE IF VarUsable(s)
                  THEN Close([s EXCEPT !.varRequest = FALSE], {Variate})
                  ELSE Close(s, LongestFan(s)))

(* vExAirFan_TimeoutInd, see ExhaustFan: a fan out of service or in control  *)
(* fault loses its command.  The control never looks at the control fault,   *)
(* which only a wayward fan gets, so it is not kept here.                    *)
FanTimeoutInd(f) ==
    /\ ~usable[f] \/ f \in Wayward
    /\ sys.cmd[f]
    /\ Handle([sys EXCEPT !.cmd[f] = FALSE])

(* The BMS writes the coil of a fan, which is the command itself.            *)
BMSWriteCoil(f, cmd) ==
    /\ sys.mode = "AUTO" => f \in Wayward
    /\ Handle([sys EXCEPT !.cmd[f] = cmd])

(* The plant: a fan in service follows its command, unless it is wayward;    *)
(* one out of service is run by hand or stops.  vSystem_FanRunningState      *)
(* handles the report at once (ExhaustFan and GroupMode have the late ones): *)
(* the command of a usable fan follows the contact, and the closed system    *)
(* goes to manual mode when it finds a fan running.                          *)
Contact(f) ==
    /\ usable[f] /\ f \notin Wayward => runs[f] # sys.cmd[f]
    /\ runs' = [runs EXCEPT ![f] = ~@]
    /\ sys' = [sys EXCEPT !.cmd[f] = IF usable[f] THEN ~runs[f] ELSE @,
                          !.mode = IF @ = "CLOSE" /\ (\E g \in Fans : runs'[g])
                                   THEN "MANUAL" ELSE @]
    /\ UNCHANGED usable

ServiceChanges(f) ==
    /\ usable' = [usable EXCEPT ![f] = ~@]
    /\ UNCHANGED <<sys, runs>>

StagingNext ==
    \/ \E m \in Modes : ChangeSystemMode(m)
    \/ \E c \in Levels : CO2PPM(c) \/ SetCO2AdjustDeviat(c)
    \/ \E v \in Volumes : SetFreAir(v) \/ RunningModeChanges(v)
    \/ \E t \in Types : ChangeExAirFanType(t)
    \/ FanUsabilityChanged
    \/ ExAirFanCtrlTmr
    \/ ExAirFanRequestTimeTmr
    \/ \E f \in Fans : FanTimeoutInd(f) \/ Contact(f) \/ ServiceChanges(f)
    \/ \E f \in Fans, cmd \in BOOLEAN : BMSWriteCoil(f, cmd)

StagingSpec == StagingInit /\ [][StagingNext]_stagingVars

-----------------------------------------------------------------------------
(* Neither timer runs in a closed system or after the fans were all opened   *)
(* for the CO2 concentration (fanctrl.c:20-21, 724-725), and the timer that  *)
(* ends a surplus run never runs without the periodic one that starts the    *)
(* next: a surplus would be exhausted once and then no more.                 *)
TimersMatch ==
    /\ sys.mode = "CLOSE" \/ sys.acted = "HIGH" => ~sys.ctrlTmr
    /\ sys.requestTmr > 0 => sys.ctrlTmr

(* A level is acted on in automatic mode only, and forgotten when it is left *)
(* (history).  Full exhaust rests on it: in any other mode the BMS writes    *)
(* every fan's coil.                                                         *)
ActedInAuto == sys.acted # "NONE" => sys.mode = "AUTO"

StagingInv == StagingTypeOK /\ TimersMatch /\ ActedInAuto

Settled == \A f \in Fans : usable[f] => runs[f] = sys.cmd[f]

(* "All fans open" above the CO2 band (fanctrl.c:699-700): a control that    *)
(* acts on a high concentration with no contact lagging behind its command   *)
(* leaves every usable fan commanded, and until a control acts on a low one, *)
(* in the band too, nothing takes the command from a usable fan that follows *)
(* it: not a timer of the earlier staging, nor a new volume, fan type or CO2 *)
(* band, nor what another, wayward fan does.                                 *)
FullExhaust ==
    [][sys'.acted = "HIGH" =>
         \A f \in Fans : usable[f] /\ usable'[f]
             /\ \/ sys.cmd[f] /\ f \notin Wayward
                \/ sys.acted # "HIGH" /\ Settled
             => sys'.cmd[f]]_stagingVars

(* What a control makes of the object when the concentration is low.         *)
Controlled == ExAirFanCtrl([sys EXCEPT !.co2 = "LOW"])

Within(s, low, high) ==
    LET on     == Cardinality({f \in Staged(s) : s.cmd[f]})
        staged == Cardinality(Staged(s))
    IN  on <= high /\ (on >= low \/ on = staged)

(* A control that acts on a low concentration (fanctrl.c:729-746), with no   *)
(* contact lagging behind, commands at least the always-open number of the   *)
(* usable constant fans, or all of them, and never more than are requested,  *)
(* although AlwaysOpen, ConstantSwitch and the timer callback it runs decide *)
(* one after the other on the same contacts.                                 *)
ControlMeetsDemand ==
    sys.mode = "AUTO" /\ Settled =>
        Within(Controlled, OpenNum(Controlled), RequestNum(Controlled))
=============================================================================
