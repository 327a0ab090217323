-------------------------- MODULE GroupAlarmProofs --------------------------
(***************************************************************************)
(* For every set of units, fans and sensors: the alarm sounds only while   *)
(* it is enabled, and what was reported goes on sounding until it is over  *)
(* or the BMS resets the alarm.  The three invariants are inductive        *)
(* together.                                                               *)
(***************************************************************************)
EXTENDS GroupAlarm, TLAPS

(* What a handler's verdict does to the relay: it closes it for what is bad, *)
(* keeps it closed while any condition holds, and never closes it while the  *)
(* alarm is disabled.                                                        *)
LEMMA Verdict ==
    ASSUME NEW bad \in BOOLEAN, NEW r \in Switch, NEW high \in BOOLEAN,
           NEW sens, xAlarmEnable \in BOOLEAN
    PROVE  /\ Judge(bad, r, high, sens) \in Switch
           /\ (xAlarmEnable /\ bad) => Judge(bad, r, high, sens) = "ON"
           /\ (xAlarmEnable /\ r = "ON" /\ Condition(high, sens))
                  => Judge(bad, r, high, sens) = "ON"
           /\ ((r = "ON" => xAlarmEnable) /\ Judge(bad, r, high, sens) = "ON")
                  => xAlarmEnable
<1>1. CASE bad
  BY <1>1 DEF Judge, SetAlarm, Switch
<1>2. CASE ~bad
  BY <1>2 DEF Judge, DelAlarmRequst, Switch
<1> QED  BY <1>1, <1>2

(* The same for a new CO2 average, judged after the relay was r.             *)
LEMMA NewCO2Verdict ==
    ASSUME TypeOK, NEW r \in Switch, NEW sens, NewCO2(r, sens)
    PROVE  /\ co2High' \in BOOLEAN /\ co2Unheard' = FALSE
           /\ sAlarm_DO' \in Switch /\ cleaned' \in BOOLEAN
           /\ (xAlarmEnable /\ co2High') => sAlarm_DO' = "ON"
           /\ (xAlarmEnable /\ r = "ON" /\ Condition(co2High', sens))
                  => sAlarm_DO' = "ON"
           /\ ((r = "ON" => xAlarmEnable) /\ sAlarm_DO' = "ON") => xAlarmEnable
           /\ cleaned' = (cleaned /\ sAlarm_DO' = "OFF")
<1>1. PICK high \in BOOLEAN : /\ co2High' = high /\ co2Unheard' = FALSE
                              /\ Leave(Judge(high, r, high, sens))
  BY DEF NewCO2
<1>2. xAlarmEnable \in BOOLEAN /\ cleaned \in BOOLEAN
  BY DEF TypeOK
<1>3. /\ sAlarm_DO' = Judge(high, r, high, sens)
      /\ cleaned' = (cleaned /\ sAlarm_DO' = "OFF")
  BY <1>1 DEF Leave
<1> QED  BY <1>1, <1>2, <1>3, Verdict

Sound == TypeOK /\ RelayOnlyIfEnabled /\ ConditionsSounded

LEMMA InitSound == Init => Sound
BY DEF Init, Sound, TypeOK, RelayOnlyIfEnabled, ConditionsSounded, Known, Switch

(* What the environment does moves no relay and adds nothing to what the     *)
(* handlers know.                                                            *)
LEMMA UnitSound ==
    ASSUME Sound, NEW u \in Units,
           \/ GoOnline(u) \/ GoOffline(u) \/ UnitTimeout(u) \/ UnitStopErr(u)
           \/ SupAir(u)
    PROVE  Sound'
<1> USE DEF Sound, TypeOK, RelayOnlyIfEnabled, ConditionsSounded, Known, Switch,
            co2
<1>1. CASE GoOnline(u)        BY <1>1 DEF GoOnline, reports
<1>2. CASE GoOffline(u)       BY <1>2 DEF GoOffline, reports
<1>3. CASE UnitTimeout(u)     BY <1>3 DEF UnitTimeout
<1>4. CASE UnitStopErr(u)     BY <1>4 DEF UnitStopErr
<1>5. CASE SupAir(u)          BY <1>5 DEF SupAir
<1> QED  BY <1>1, <1>2, <1>3, <1>4, <1>5

LEMMA FanSound ==
    ASSUME Sound, NEW f \in Fans, FanFault(f)
    PROVE  Sound'
BY DEF Sound, TypeOK, RelayOnlyIfEnabled, ConditionsSounded, Known, Switch, co2,
       FanFault

(* A threshold the BMS writes is unheard until a handler judges by it.       *)
LEMMA ThresholdSound ==
    ASSUME Sound, NEW S \in SUBSET Units, SetSupAirMax(S) \/ SetCO2PPMAlarm
    PROVE  Sound'
<1> USE DEF Sound, TypeOK, RelayOnlyIfEnabled, ConditionsSounded, Known, Switch
<1>1. CASE SetSupAirMax(S)    BY <1>1 DEF SetSupAirMax, co2
<1>2. CASE SetCO2PPMAlarm     BY <1>2 DEF SetCO2PPMAlarm, plant, reports
<1> QED  BY <1>1, <1>2

(* A handler keeps the invariant if the relay it leaves is sound for what it *)
(* then knows.                                                               *)
LEMMA UnitErrSound == Sound /\ UnitErr => Sound'
<1> SUFFICES ASSUME Sound, UnitErr PROVE Sound'
  OBVIOUS
<1> DEFINE bad == stopErr \cup commErr # {}
           r   == Judge(bad, sAlarm_DO, co2High, senErr)
<1>1. TypeOK /\ RelayOnlyIfEnabled /\ ConditionsSounded
  BY DEF Sound
<1>2. bad \in BOOLEAN /\ sAlarm_DO \in Switch /\ co2High \in BOOLEAN
      /\ xAlarmEnable \in BOOLEAN /\ cleaned \in BOOLEAN
  BY <1>1 DEF TypeOK
<1>3. /\ r \in Switch
      /\ (xAlarmEnable /\ bad) => r = "ON"
      /\ (xAlarmEnable /\ sAlarm_DO = "ON" /\ Condition(co2High, senErr)) => r = "ON"
      /\ r = "ON" => xAlarmEnable
  <2> HIDE DEF bad
  <2> QED  BY <1>1, <1>2, Verdict DEF RelayOnlyIfEnabled
<1>4. /\ SameCO2(r) \/ NewCO2(r, senErr)
      /\ due' = due \ {"unitErr"}
      /\ UNCHANGED <<xAlarmEnable, plant, senErr, dueHot, unheard>>
  BY DEF UnitErr
<1> HIDE DEF r
<1>5. CASE SameCO2(r)
  BY <1>1, <1>2, <1>3, <1>4, <1>5
     DEF Sound, TypeOK, RelayOnlyIfEnabled, ConditionsSounded, Known, Condition,
         SameCO2, Leave, plant, co2, Switch
<1>6. CASE NewCO2(r, senErr)
  <2>1. /\ co2High' \in BOOLEAN /\ co2Unheard' = FALSE
        /\ sAlarm_DO' \in Switch /\ cleaned' \in BOOLEAN
        /\ (xAlarmEnable /\ co2High') => sAlarm_DO' = "ON"
        /\ (xAlarmEnable /\ r = "ON" /\ Condition(co2High', senErr))
               => sAlarm_DO' = "ON"
        /\ sAlarm_DO' = "ON" => xAlarmEnable
        /\ cleaned' = (cleaned /\ sAlarm_DO' = "OFF")
    BY <1>1, <1>3, <1>6, NewCO2Verdict
  <2> QED
    BY <1>1, <1>2, <1>3, <1>4, <2>1
       DEF Sound, TypeOK, RelayOnlyIfEnabled, ConditionsSounded, Known,
           Condition, plant, Switch
<1> QED  BY <1>4, <1>5, <1>6

LEMMA SupAirSound ==
    ASSUME Sound, NEW u \in Units, UnitSupAirTemp(u)
    PROVE  Sound'
<1> DEFINE bad == u \in hot
           r   == Judge(bad, sAlarm_DO, co2High, senErr)
<1>1. TypeOK /\ RelayOnlyIfEnabled /\ ConditionsSounded
  BY DEF Sound
<1>2. /\ r \in Switch
      /\ (xAlarmEnable /\ bad) => r = "ON"
      /\ (xAlarmEnable /\ sAlarm_DO = "ON" /\ Condition(co2High, senErr)) => r = "ON"
      /\ r = "ON" => xAlarmEnable
  <2>1. /\ bad \in BOOLEAN /\ sAlarm_DO \in Switch /\ co2High \in BOOLEAN
        /\ xAlarmEnable \in BOOLEAN
    BY <1>1 DEF TypeOK
  <2> HIDE DEF bad
  <2> QED  BY <1>1, <2>1, Verdict DEF RelayOnlyIfEnabled
<1>3. /\ sAlarm_DO' = r /\ cleaned' = (cleaned /\ r = "OFF")
      /\ dueHot' = dueHot \ {u} /\ unheard' = unheard \ {u}
      /\ UNCHANGED <<xAlarmEnable, plant, co2, senErr, due>>
  BY DEF UnitSupAirTemp, Leave
<1> HIDE DEF r
<1> QED
  BY <1>1, <1>2, <1>3
     DEF Sound, TypeOK, RelayOnlyIfEnabled, ConditionsSounded, Known, Condition,
         plant, co2, Switch

LEMMA FanErrSound == Sound /\ ExAirFanErr => Sound'
<1> SUFFICES ASSUME Sound, ExAirFanErr PROVE Sound'
  OBVIOUS
<1> DEFINE bad == fanErr # {}
           r   == Judge(bad, sAlarm_DO, co2High, senErr)
<1>1. TypeOK /\ RelayOnlyIfEnabled /\ ConditionsSounded
  BY DEF Sound
<1>2. /\ r \in Switch
      /\ (xAlarmEnable /\ bad) => r = "ON"
      /\ (xAlarmEnable /\ sAlarm_DO = "ON" /\ Condition(co2High, senErr)) => r = "ON"
      /\ r = "ON" => xAlarmEnable
  <2>1. /\ bad \in BOOLEAN /\ sAlarm_DO \in Switch /\ co2High \in BOOLEAN
        /\ xAlarmEnable \in BOOLEAN
    BY <1>1 DEF TypeOK
  <2> HIDE DEF bad
  <2> QED  BY <1>1, <2>1, Verdict DEF RelayOnlyIfEnabled
<1>3. /\ sAlarm_DO' = r /\ cleaned' = (cleaned /\ r = "OFF")
      /\ due' = due \ {"fanErr"}
      /\ UNCHANGED <<xAlarmEnable, plant, co2, senErr, dueHot, unheard>>
  BY DEF ExAirFanErr, Leave
<1> HIDE DEF r
<1> QED
  BY <1>1, <1>2, <1>3
     DEF Sound, TypeOK, RelayOnlyIfEnabled, ConditionsSounded, Known, Condition,
         plant, co2, Switch

LEMMA AverageSound == Sound /\ (CO2PPM \/ UnitCO2PPM) => Sound'
<1> SUFFICES ASSUME Sound, CO2PPM \/ UnitCO2PPM PROVE Sound'
  OBVIOUS
<1>1. TypeOK /\ RelayOnlyIfEnabled /\ ConditionsSounded
  BY DEF Sound
<1>2. /\ NewCO2(sAlarm_DO, senErr)
      /\ UNCHANGED <<xAlarmEnable, plant, senErr, reports>>
  BY DEF CO2PPM, UnitCO2PPM
<1>3. /\ co2High' \in BOOLEAN /\ co2Unheard' = FALSE
      /\ sAlarm_DO' \in Switch /\ cleaned' \in BOOLEAN
      /\ (xAlarmEnable /\ co2High') => sAlarm_DO' = "ON"
      /\ (xAlarmEnable /\ sAlarm_DO = "ON" /\ Condition(co2High', senErr))
             => sAlarm_DO' = "ON"
      /\ sAlarm_DO' = "ON" => xAlarmEnable
      /\ cleaned' = (cleaned /\ sAlarm_DO' = "OFF")
  BY <1>1, <1>2, NewCO2Verdict DEF RelayOnlyIfEnabled, TypeOK
<1> QED
  BY <1>1, <1>2, <1>3
     DEF Sound, TypeOK, RelayOnlyIfEnabled, ConditionsSounded, Known, Condition,
         plant, reports, Switch

(* The sensors' flags: the new flag is in what the verdict looks at.         *)
LEMMA SensorSound ==
    ASSUME Sound, NEW err \in BOOLEAN, NEW k \in Sensors,
           CO2SensorErr(err) \/ TempHumiErr(k, err)
    PROVE  Sound'
<1> DEFINE flag == IF CO2SensorErr(err) THEN "CO2" ELSE k
           sens == IF err THEN senErr \cup {flag} ELSE senErr \ {flag}
           r    == Judge(err, sAlarm_DO, co2High, sens)
<1>1. TypeOK /\ RelayOnlyIfEnabled /\ ConditionsSounded
  BY DEF Sound
<1>2. /\ r \in Switch
      /\ (xAlarmEnable /\ err) => r = "ON"
      /\ (xAlarmEnable /\ sAlarm_DO = "ON" /\ Condition(co2High, sens)) => r = "ON"
      /\ r = "ON" => xAlarmEnable
  <2>1. sAlarm_DO \in Switch /\ co2High \in BOOLEAN /\ xAlarmEnable \in BOOLEAN
    BY <1>1 DEF TypeOK
  <2> HIDE DEF sens
  <2> QED  BY <1>1, <2>1, Verdict DEF RelayOnlyIfEnabled
<1>3. /\ senErr' = sens
      /\ SameCO2(r) \/ (~err /\ NewCO2(r, sens))
      /\ UNCHANGED <<xAlarmEnable, plant, reports>>
  BY DEF CO2SensorErr, TempHumiErr, SameCO2, co2, reports, plant
<1>4. sens \subseteq Sensors /\ (sens # {} => err \/ senErr # {})
  BY <1>1, SensorsAssumption DEF TypeOK
<1> HIDE DEF r, sens
<1>5. CASE SameCO2(r)
  BY <1>1, <1>2, <1>3, <1>4, <1>5
     DEF Sound, TypeOK, RelayOnlyIfEnabled, ConditionsSounded, Known, Condition,
         SameCO2, Leave, plant, reports, co2, Switch
<1>6. CASE ~err /\ NewCO2(r, sens)
  <2>1. /\ co2High' \in BOOLEAN /\ co2Unheard' = FALSE
        /\ sAlarm_DO' \in Switch /\ cleaned' \in BOOLEAN
        /\ (xAlarmEnable /\ co2High') => sAlarm_DO' = "ON"
        /\ (xAlarmEnable /\ r = "ON" /\ Condition(co2High', sens))
               => sAlarm_DO' = "ON"
        /\ sAlarm_DO' = "ON" => xAlarmEnable
        /\ cleaned' = (cleaned /\ sAlarm_DO' = "OFF")
    BY <1>1, <1>2, <1>6, NewCO2Verdict
  <2> QED
    BY <1>1, <1>2, <1>3, <1>4, <1>6, <2>1
       DEF Sound, TypeOK, RelayOnlyIfEnabled, ConditionsSounded, Known,
           Condition, plant, reports, Switch
<1> QED  BY <1>3, <1>5, <1>6

(* The BMS: a reset excuses the silence that follows, and enabling the alarm *)
(* sounds whatever is wrong at that moment.                                  *)
LEMMA BMSSound ==
    ASSUME Sound, NEW e \in BOOLEAN, CleanAlarm \/ AlarmEnable(e)
    PROVE  Sound'
<1> USE DEF Sound, TypeOK, RelayOnlyIfEnabled, ConditionsSounded, Known,
            Condition, plant, reports, co2, Switch
<1>1. CASE CleanAlarm         BY <1>1 DEF CleanAlarm
<1>2. CASE AlarmEnable(e)     BY <1>2 DEF AlarmEnable, Leave
<1> QED  BY <1>1, <1>2

LEMMA NextSound == Sound /\ [Next]_vars => Sound'
<1> SUFFICES ASSUME Sound, [Next]_vars PROVE Sound'
  OBVIOUS
<1>1. CASE \E u \in Units : \/ GoOnline(u) \/ GoOffline(u) \/ UnitTimeout(u)
                            \/ UnitStopErr(u) \/ SupAir(u)
  BY <1>1, UnitSound
<1>2. CASE \E u \in Units : UnitSupAirTemp(u)
  BY <1>2, SupAirSound
<1>3. CASE \E f \in Fans : FanFault(f)
  BY <1>3, FanSound
<1>4. CASE SetCO2PPMAlarm \/ \E S \in SUBSET Units : SetSupAirMax(S)
  BY <1>4, ThresholdSound
<1>5. CASE UnitErr \/ ExAirFanErr \/ CO2PPM \/ UnitCO2PPM
  BY <1>5, UnitErrSound, FanErrSound, AverageSound
<1>6. CASE \E err \in BOOLEAN : CO2SensorErr(err)
  BY <1>6, SensorSound, SensorsAssumption
<1>7. CASE \E k \in Sensors \ {"CO2"}, err \in BOOLEAN : TempHumiErr(k, err)
  BY <1>7, SensorSound
<1>8. CASE CleanAlarm \/ \E e \in BOOLEAN : AlarmEnable(e)
  BY <1>8, BMSSound
<1>9. CASE UNCHANGED vars
  BY <1>9 DEF vars, plant, reports, co2, Sound, TypeOK, RelayOnlyIfEnabled,
              ConditionsSounded, Known, Switch
<1> QED  BY <1>1, <1>2, <1>3, <1>4, <1>5, <1>6, <1>7, <1>8, <1>9 DEF Next

LEMMA AlwaysSound == Spec => []Sound
BY InitSound, NextSound, PTL DEF Spec

(* The alarm's fields, the reports and the history keep their types.         *)
THEOREM TypeCorrect == Spec => []TypeOK
BY AlwaysSound, PTL DEF Sound

(* However faults, recoveries, lost reports and the BMS's enable flag are    *)
(* interleaved, the relay of vSystem_SetAlarm is closed only while the alarm *)
(* is enabled.                                                               *)
THEOREM RelayNeedsEnable == Spec => []RelayOnlyIfEnabled
BY AlwaysSound, PTL DEF Sound

(* vSystem_DelAlarmRequst never silences a reported condition: for every     *)
(* number of devices, the recovery of one leaves the alarm of another.       *)
THEOREM ReportedConditionsSound == Spec => []ConditionsSounded
BY AlwaysSound, PTL DEF Sound
=============================================================================
