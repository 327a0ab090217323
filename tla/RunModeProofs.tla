--------------------------- MODULE RunModeProofs ---------------------------
(***************************************************************************)
(* RunMode is type correct, its rules keep the intervals after automatic   *)
(* switches and act in automatic mode only, for all temperatures, targets, *)
(* thresholds, delays and intervals.                                       *)
(*                                                                         *)
(* The interval property rests on DwellCovered: in a mode that a rule      *)
(* chose, the minutes since the switch and the minutes an interval timer   *)
(* of that mode has left add up to the interval at least.                  *)
(***************************************************************************)
EXTENDS RunMode, TLAPS

(* Minutes an interval timer has left; one that does not run has none.       *)
Left(p) == IF per[p] = Off THEN 0 ELSE per[p]

DwellCovered ==
    byAuto => \A p \in Started(eRunningMode) : since + Left(p) >= Period[p]

IInv == TypeOK /\ DwellCovered

(* The tables: a rule leads between two different modes, and the interval it *)
(* waits for, unless it is interval 2, was started on entering its mode.     *)
LEMMA Tables ==
    /\ \A r \in Rules : /\ From[r] \in RunModes /\ To[r] \in RunModes
                        /\ From[r] # To[r]
                        /\ Interval[r] \in Intervals
    /\ \A r \in Rules \ {2} : Interval[r] \in Started(From[r])
    /\ \A q, r \in Rules :
          From[q] = From[r] /\ To[q] = To[r] => Interval[q] = Interval[r]
  BY DEF Rules, Intervals, From, To, Interval, Started, RunModes

(* vSystem_ChangeUnitRunningMode keeps the delay timers in range.            *)
LEMMA ChangeTyped ==
    ASSUME TypeOK, NEW t, NEW s, ChangeUnitRunningMode(t, s)
    PROVE  /\ xCompFirstRun' \in BOOLEAN
           /\ tmr' \in [Rules -> Int]
           /\ \A r \in Rules : tmr'[r] \in {Off} \cup 0..ChangeTime[r]
           /\ UNCHANGED <<eRunningMode, eSystemState, per, since, byAuto>>
  <1>1. xCompFirstRun' \in BOOLEAN
    BY DEF ChangeUnitRunningMode, FirstRunAtChange, Active, TypeOK
  <1>2. \A r \in Rules : tmr'[r] = tmr[r] \/ tmr'[r] = ChangeTime[r] \/ tmr'[r] = Off
    BY DEF ChangeUnitRunningMode, Loaded
  <1>3. tmr' \in [Rules -> Int]
    BY TimesAssumption DEF ChangeUnitRunningMode, Loaded, Off, TypeOK
  <1>4. \A r \in Rules : tmr'[r] \in {Off} \cup 0..ChangeTime[r]
    BY <1>2, TimesAssumption DEF TypeOK
  <1> QED  BY <1>1, <1>3, <1>4 DEF ChangeUnitRunningMode

(* A switch starts the intervals of the mode it leads to.                    *)
LEMMA SwitchCovered ==
    ASSUME TypeOK, NEW r \in Rules, Switch(r)
    PROVE  /\ eRunningMode' \in RunModes
           /\ eSystemState' \in {"CLOSED", "EX_FAN", "UNIT"}
           /\ xCompFirstRun' \in BOOLEAN
           /\ per' \in [Intervals -> Int]
           /\ \A p \in Intervals : per'[p] \in {Off} \cup 0..Period[p]
           /\ since' \in 0..MaxDwell /\ byAuto' \in BOOLEAN
           /\ DwellCovered'
  <1>1. /\ eRunningMode' = To[r] /\ eRunningMode' \in RunModes
        /\ eSystemState' \in {"CLOSED", "EX_FAN", "UNIT"}
    BY Tables DEF Switch, SetUnitRunningMode, TypeOK
  <1>2. xCompFirstRun' \in BOOLEAN
    BY DEF Switch, FirstRunAfterSwitch, TypeOK
  <1>3. \A p \in Intervals :
          per'[p] = IF p \in Started(To[r]) THEN Loaded(Period[p]) ELSE per[p]
    BY DEF Switch
  <1>4. per' \in [Intervals -> Int]
    BY TimesAssumption DEF Switch, Loaded, Off, TypeOK
  <1>5. \A p \in Intervals : per'[p] \in {Off} \cup 0..Period[p]
    BY <1>3, TimesAssumption DEF Loaded, TypeOK
  <1>6. since' = 0 /\ byAuto' = TRUE
    BY DEF Switch
  <1>7. ASSUME NEW p \in Started(eRunningMode') PROVE since' + Left(p)' >= Period[p]
    <2>1. p \in Intervals /\ p \in Started(To[r])
      BY <1>1, <1>7 DEF Started
    <2>2. per'[p] = Loaded(Period[p]) /\ Period[p] \in Nat
      BY <2>1, <1>3, TimesAssumption
    <2> QED  BY <2>2, <1>6 DEF Left, Loaded, Off
  <1>8. DwellCovered'
    BY <1>7 DEF DwellCovered, Started
  <1> QED  BY <1>1, <1>2, <1>4, <1>5, <1>6, <1>8, BoundsAssumption

(* A step that leaves the interval timers and the history alone, and does    *)
(* not call a new mode one that a rule chose, keeps DwellCovered.            *)
LEMMA DwellKept ==
    ASSUME DwellCovered, UNCHANGED <<per, since>>,
           byAuto' => byAuto /\ eRunningMode' = eRunningMode
    PROVE  DwellCovered'
  BY DEF DwellCovered, Left, Started

(* What setting the mode from outside the rules leaves.                      *)
LEMMA SetByOtherKept ==
    ASSUME IInv, NEW m \in RunModes, SetByOther(m), eRunningMode' = m
    PROVE  /\ byAuto' \in BOOLEAN
           /\ byAuto' => byAuto /\ eRunningMode' = eRunningMode
           /\ DwellCovered'
  <1>1. byAuto' => byAuto /\ eRunningMode' = eRunningMode
    BY DEF SetByOther
  <1>2. byAuto' \in BOOLEAN
    BY DEF SetByOther, IInv, TypeOK
  <1> QED  BY <1>1, <1>2, DwellKept DEF SetByOther, IInv

LEMMA InitIInv == Init => IInv
  <1> SUFFICES ASSUME Init PROVE IInv
    OBVIOUS
  <1>1. TypeOK
    <2>1. /\ tmr \in [Rules -> Int]
          /\ \A r \in Rules : tmr[r] \in {Off} \cup 0..ChangeTime[r]
      BY DEF Init, Off
    <2>2. /\ per \in [Intervals -> Int]
          /\ \A p \in Intervals : per[p] \in {Off} \cup 0..Period[p]
      BY DEF Init, Off
    <2>3. requests \in 0..MaxRequests /\ since \in 0..MaxDwell
      BY BoundsAssumption DEF Init
    <2>4. /\ eRunningMode \in RunModes \cup {"NONE"}
          /\ auto \in BOOLEAN /\ byAuto \in BOOLEAN
          /\ eSystemState \in {"CLOSED", "EX_FAN", "UNIT"}
          /\ compsClosed \in BOOLEAN /\ xCompFirstRun \in BOOLEAN
      BY Zenon DEF Init
    <2>5. temp \in Temps /\ lastTemp \in Temps /\ usTempSet \in SetPoints
      BY DEF Init
    <2> QED  BY <2>1, <2>2, <2>3, <2>4, <2>5 DEF TypeOK
  <1>2. DwellCovered
    BY DEF Init, DwellCovered
  <1> QED  BY <1>1, <1>2 DEF IInv

(* Time passes for the timers and for the history alike.                     *)
LEMMA TickIInv == IInv /\ Tick => IInv'
  <1> SUFFICES ASSUME IInv, Tick PROVE IInv'
    OBVIOUS
  <1>1. \A r \in Rules : tmr[r] # 0
    BY DEF Tick, NothingDue
  <1>2. \A p \in Intervals : per[p] # 0
    BY DEF Tick, NothingDue
  <1>3. /\ tmr' \in [Rules -> Int]
        /\ \A r \in Rules : tmr'[r] \in {Off} \cup 0..ChangeTime[r]
    BY <1>1, TimesAssumption DEF Tick, Count, IInv, TypeOK, Off
  <1>4. /\ per' \in [Intervals -> Int]
        /\ \A p \in Intervals : per'[p] \in {Off} \cup 0..Period[p]
    BY <1>2, TimesAssumption DEF Tick, Count, IInv, TypeOK, Off
  <1>5. since' \in 0..MaxDwell
    BY BoundsAssumption DEF Tick, IInv, TypeOK
  <1>6. TypeOK'
    BY <1>3, <1>4, <1>5 DEF Tick, IInv, TypeOK
  <1>7. ASSUME byAuto, NEW p \in Started(eRunningMode)
        PROVE  since' + Left(p)' >= Period[p]
    <2>1. p \in Intervals
      BY <1>7 DEF Started
    <2>2. since + Left(p) >= Period[p]
      BY <1>7 DEF IInv, DwellCovered
    <2>3. per'[p] = Count(per[p])
      BY <2>1 DEF Tick
    <2>4. /\ per[p] \in {Off} \cup 0..Period[p] /\ per[p] # 0
          /\ Period[p] \in Nat /\ Period[p] <= MaxDwell
          /\ since \in 0..MaxDwell /\ MaxDwell \in Nat
      BY <2>1, <1>2, TimesAssumption, BoundsAssumption DEF IInv, TypeOK
    <2>5. since' = IF since < MaxDwell THEN since + 1 ELSE since
      BY DEF Tick
    <2> QED  BY <2>2, <2>3, <2>4, <2>5 DEF Left, Count, Off
  <1>8. DwellCovered'
    BY <1>7 DEF DwellCovered, Tick, Started
  <1> QED  BY <1>6, <1>8 DEF IInv

LEMMA DelayOverIInv == IInv /\ (\E r \in Rules : DelayOver(r)) => IInv'
  <1> SUFFICES ASSUME IInv, NEW r \in Rules, DelayOver(r) PROVE IInv'
    OBVIOUS
  <1> DEFINE tm == [tmr EXCEPT ![r] = Off]
  <1>1. /\ tmr' \in [Rules -> Int]
        /\ \A q \in Rules : tmr'[q] \in {Off} \cup 0..ChangeTime[q]
    BY DEF DelayOver, IInv, TypeOK, Off
  <1>2. TypeOK
    BY DEF IInv
  <1>3. CASE \E q \in Ready(tm) : Switch(q)
    <2>1. PICK q \in Rules : Switch(q)
      BY <1>3 DEF Ready
    <2>2. /\ eRunningMode' \in RunModes
          /\ eSystemState' \in {"CLOSED", "EX_FAN", "UNIT"}
          /\ xCompFirstRun' \in BOOLEAN
          /\ per' \in [Intervals -> Int]
          /\ \A p \in Intervals : per'[p] \in {Off} \cup 0..Period[p]
          /\ since' \in 0..MaxDwell /\ byAuto' \in BOOLEAN
          /\ DwellCovered'
      BY <1>2, <2>1, SwitchCovered
    <2> QED  BY <1>1, <1>2, <2>2 DEF IInv, TypeOK, DelayOver
  <1>4. CASE UNCHANGED <<eRunningMode, eSystemState, xCompFirstRun, per, since, byAuto>>
    <2>1. DwellCovered'
      BY <1>4, DwellKept DEF IInv
    <2> QED  BY <1>1, <1>2, <1>4, <2>1 DEF IInv, TypeOK, DelayOver
  <1> QED  BY <1>3, <1>4 DEF DelayOver, AdjustUnitRunningMode

LEMMA PeriodOverIInv == IInv /\ (\E p \in Intervals : PeriodOver(p)) => IInv'
  <1> SUFFICES ASSUME IInv, NEW p \in Intervals, PeriodOver(p) PROVE IInv'
    OBVIOUS
  <1>1. TypeOK'
    BY DEF PeriodOver, IInv, TypeOK, Off
  <1>2. \A q \in Intervals : Left(q)' = Left(q)
    BY DEF PeriodOver, IInv, TypeOK, Left, Off
  <1>3. DwellCovered'
    BY <1>2 DEF PeriodOver, IInv, DwellCovered, Started
  <1> QED  BY <1>1, <1>3 DEF IInv

(* The steps that may start a delay and touch no mode.                       *)
LEMMA ReadingIInv ==
    IInv /\ (\/ Poll
             \/ \E t \in Temps : TempHumiIn(t)
             \/ CompressorsReport
             \/ \E s \in SetPoints : SetTemp(s)) => IInv'
  <1> SUFFICES ASSUME IInv,
                      \/ Poll
                      \/ \E t \in Temps : TempHumiIn(t)
                      \/ CompressorsReport
                      \/ \E s \in SetPoints : SetTemp(s)
               PROVE  IInv'
    OBVIOUS
  <1>1. \/ \E t, s : ChangeUnitRunningMode(t, s)
        \/ UNCHANGED control
    BY Zenon DEF Poll, TempHumiIn, CompressorsReport, SetTemp
  <1>2. /\ xCompFirstRun' \in BOOLEAN
        /\ tmr' \in [Rules -> Int]
        /\ \A r \in Rules : tmr'[r] \in {Off} \cup 0..ChangeTime[r]
        /\ UNCHANGED <<eRunningMode, eSystemState, per, since, byAuto>>
    <2>1. CASE \E t, s : ChangeUnitRunningMode(t, s)
      BY <2>1, ChangeTyped DEF IInv
    <2>2. CASE UNCHANGED control
      BY <2>2 DEF control, IInv, TypeOK
    <2> QED  BY <1>1, <2>1, <2>2
  <1>3. DwellCovered'
    BY <1>2, DwellKept DEF IInv
  <1>4. /\ auto' \in BOOLEAN /\ temp' \in Temps /\ lastTemp' \in Temps
        /\ usTempSet' \in SetPoints /\ compsClosed' \in BOOLEAN
    BY Zenon
    DEF Poll, TempHumiIn, CompressorsReport, SetTemp, Interfere, IInv, TypeOK
  <1>5. requests' \in 0..MaxRequests
    <2>1. requests' = requests \/ (requests < MaxRequests /\ requests' = requests + 1)
      BY DEF Poll, TempHumiIn, CompressorsReport, SetTemp, Interfere
    <2> QED  BY <2>1, BoundsAssumption DEF IInv, TypeOK
  <1> QED  BY <1>2, <1>3, <1>4, <1>5 DEF IInv, TypeOK

(* The steps by which something else than a rule sets the mode or state.     *)
OtherSteps ==
    \/ \E m \in RunModes : BMSRunningMode(m) \/ UnitReportsMode(m)
    \/ EnterAuto \/ LeaveAuto \/ Emergency
    \/ \E s \in {"CLOSED", "EX_FAN"} : UnitsStopped(s)

LEMMA OtherKept ==
    ASSUME IInv, OtherSteps
    PROVE  /\ \/ eRunningMode' = eRunningMode /\ byAuto' = byAuto
              \/ \E m \in RunModes : eRunningMode' = m /\ SetByOther(m)
           /\ UNCHANGED <<xCompFirstRun, tmr, per, since>>
           /\ UNCHANGED <<temp, lastTemp, compsClosed, usTempSet>>
           /\ requests' = requests + 1
           /\ requests' \in 0..MaxRequests
           /\ auto' \in BOOLEAN
           /\ eSystemState' \in {"CLOSED", "EX_FAN", "UNIT"}
  <1>1. /\ requests' = requests + 1
        /\ requests' \in 0..MaxRequests
        /\ UNCHANGED <<temp, lastTemp, compsClosed, usTempSet>>
    BY BoundsAssumption
    DEF OtherSteps, BMSRunningMode, UnitReportsMode, EnterAuto, LeaveAuto,
        Emergency, UnitsStopped, Interfere, IInv, TypeOK
  <1>2. auto' \in BOOLEAN /\ eSystemState' \in {"CLOSED", "EX_FAN", "UNIT"}
    BY DEF OtherSteps, BMSRunningMode, UnitReportsMode, EnterAuto, LeaveAuto,
        Emergency, UnitsStopped, SetUnitRunningMode, control, IInv, TypeOK
  <1>3. UNCHANGED <<xCompFirstRun, tmr, per, since>>
    BY DEF OtherSteps, BMSRunningMode, UnitReportsMode, EnterAuto, LeaveAuto,
        Emergency, UnitsStopped, SetByOther, control
  <1>4. OpeningMode \in RunModes /\ "FAN" \in RunModes
    BY DEF OpeningMode, RunModes
  <1>5. \/ eRunningMode' = eRunningMode /\ byAuto' = byAuto
        \/ \E m \in RunModes : eRunningMode' = m /\ SetByOther(m)
    BY <1>4
    DEF OtherSteps, BMSRunningMode, UnitReportsMode, EnterAuto, LeaveAuto,
        Emergency, UnitsStopped, SetUnitRunningMode, control
  <1> QED  BY <1>1, <1>2, <1>3, <1>5

LEMMA OtherIInv == IInv /\ OtherSteps => IInv'
  <1> SUFFICES ASSUME IInv, OtherSteps PROVE IInv'
    OBVIOUS
  <1>1. CASE eRunningMode' = eRunningMode /\ byAuto' = byAuto
    <2>1. DwellCovered'
      BY <1>1, OtherKept, DwellKept DEF IInv
    <2> QED  BY <1>1, <2>1, OtherKept DEF IInv, TypeOK
  <1>2. CASE \E m \in RunModes : eRunningMode' = m /\ SetByOther(m)
    <2>1. eRunningMode' \in RunModes /\ byAuto' \in BOOLEAN /\ DwellCovered'
      BY <1>2, SetByOtherKept
    <2> QED  BY <2>1, OtherKept DEF IInv, TypeOK
  <1> QED  BY <1>1, <1>2, OtherKept

LEMMA NextIInv == IInv /\ [Next]_vars => IInv'
  <1> SUFFICES ASSUME IInv, [Next]_vars PROVE IInv'
    OBVIOUS
  <1>1. CASE UNCHANGED vars
    BY <1>1 DEF vars, control, IInv, TypeOK, DwellCovered, Left, Started
  <1>2. CASE Next
    BY <1>2, TickIInv, DelayOverIInv, PeriodOverIInv, ReadingIInv, OtherIInv, Zenon
    DEF Next, TimerTask, OtherSteps
  <1> QED  BY <1>1, <1>2

LEMMA IInvHolds == Spec => []IInv
  BY InitIInv, NextIInv, PTL DEF Spec

(* Every variable keeps its type: no timer leaves its range and the mode     *)
(* stays one of the four once set.                                           *)
THEOREM TypeCorrect == Spec => []TypeOK
  <1>1. IInv => TypeOK
    BY DEF IInv
  <1> QED  BY <1>1, IInvHolds, PTL

(* The only steps that change a mode and call the new one a rule's choice    *)
(* are switches of a rule whose interval timer does not run.                 *)
LEMMA OnlyRulesSwitch ==
    ASSUME IInv, [Next]_vars, byAuto, byAuto', eRunningMode' # eRunningMode
    PROVE  \E r \in Rules : /\ Active
                            /\ eRunningMode = From[r] /\ eRunningMode' = To[r]
                            /\ per[Interval[r]] = Off
  <1>1. ~ UNCHANGED vars
    BY DEF vars, control
  <1>2. ~ Tick /\ ~ (\E p \in Intervals : PeriodOver(p)) /\ ~ CompressorsReport
    BY DEF Tick, PeriodOver, CompressorsReport, control
  <1>3. ~ (Poll \/ (\E t \in Temps : TempHumiIn(t)) \/ (\E s \in SetPoints : SetTemp(s)))
    BY DEF Poll, TempHumiIn, SetTemp, ChangeUnitRunningMode, control
  <1>4. ~ OtherSteps
    BY OtherKept DEF SetByOther
  <1>5. PICK r \in Rules : DelayOver(r)
    BY <1>1, <1>2, <1>3, <1>4, Zenon DEF Next, TimerTask, OtherSteps
  <1>6. PICK q \in Ready([tmr EXCEPT ![r] = Off]) : Switch(q)
    BY <1>5 DEF DelayOver, AdjustUnitRunningMode
  <1> QED  BY <1>6 DEF Ready, Switch, SetUnitRunningMode

(* A rule never undoes an automatic switch before its interval has passed    *)
(* (unitctrl.c:288-420), for every choice of intervals and delays.           *)
THEOREM IntervalsKept == Spec => IntervalKept
  <1> DEFINE Kept ==
        \A r \in Rules \ {2} :
          (byAuto /\ byAuto' /\ eRunningMode = From[r] /\ eRunningMode' = To[r])
            => since >= Period[Interval[r]]
  <1>1. ASSUME IInv, [Next]_vars PROVE Kept
    <2> SUFFICES ASSUME NEW r \in Rules \ {2}, byAuto, byAuto',
                        eRunningMode = From[r], eRunningMode' = To[r]
                 PROVE  since >= Period[Interval[r]]
      OBVIOUS
    <2>1. PICK q \in Rules : /\ From[r] = From[q] /\ To[r] = To[q]
                             /\ per[Interval[q]] = Off
      BY <1>1, Tables, OnlyRulesSwitch
    <2>2. Interval[q] = Interval[r] /\ Interval[r] \in Started(eRunningMode)
      BY <2>1, Tables
    <2>3. since + Left(Interval[r]) >= Period[Interval[r]]
      BY <1>1, <2>2 DEF IInv, DwellCovered
    <2>4. Left(Interval[r]) = 0 /\ since \in Nat
      BY <1>1, <2>1, <2>2, BoundsAssumption DEF Left, IInv, TypeOK
    <2> QED  BY <2>3, <2>4
  <1> QED  BY <1>1, IInvHolds, PTL DEF Spec, IntervalKept

(* Outside automatic mode, and before the system runs, mode and state change *)
(* by requests and reports only (unitctrl.c:277, 452): a delay left running  *)
(* ends without effect.                                                      *)
THEOREM RulesRest == Spec => RulesOnlyWhenActive
  <1> DEFINE Rest == (~Active /\ requests' = requests)
                       => UNCHANGED <<eRunningMode, eSystemState>>
  <1>1. ASSUME IInv, [Next]_vars PROVE Rest
    <2> SUFFICES ASSUME ~Active, requests' = requests
                 PROVE  UNCHANGED <<eRunningMode, eSystemState>>
      OBVIOUS
    <2>1. CASE UNCHANGED vars
      BY <2>1 DEF vars, control
    <2>2. CASE Tick \/ (\E p \in Intervals : PeriodOver(p)) \/ CompressorsReport
      BY <2>2 DEF Tick, PeriodOver, CompressorsReport, control
    <2>3. CASE \E r \in Rules : DelayOver(r)
      <3>1. \A tm : Ready(tm) = {}
        BY DEF Ready
      <3> QED  BY <2>3, <3>1 DEF DelayOver, AdjustUnitRunningMode
    <2>4. CASE Poll \/ (\E t \in Temps : TempHumiIn(t)) \/ (\E s \in SetPoints : SetTemp(s))
      BY <2>4 DEF Poll, TempHumiIn, SetTemp, ChangeUnitRunningMode, control
    <2>5. CASE OtherSteps
      <3>1. requests' = requests + 1 /\ requests \in Int
        BY <1>1, <2>5, OtherKept DEF IInv, TypeOK
      <3> QED  BY <3>1
    <2> QED  BY <1>1, <2>1, <2>2, <2>3, <2>4, <2>5, Zenon DEF Next, TimerTask, OtherSteps
  <1> QED  BY <1>1, IInvHolds, PTL DEF Spec, RulesOnlyWhenActive
=============================================================================
