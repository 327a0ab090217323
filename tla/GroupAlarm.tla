----------------------------- MODULE GroupAlarm -----------------------------
(***************************************************************************)
(* The group controller's audible and visual alarm (system/systemctrl.c    *)
(* 343-495 and its callers in unitctrl.c, fanctrl.c and sensorctrl.c): one *)
(* relay, closed by the handler of whatever goes wrong and opened by the   *)
(* handler of whatever recovers, if nothing else is wrong at that moment.  *)
(*                                                                         *)
(* A handler is one step: the dispatcher has the highest priority, the     *)
(* 10 s poll that also calls handlers shares the priority of the task that *)
(* wakes the dispatcher (no time slicing), and timer callbacks run with    *)
(* the scheduler locked.  due and dueHot hold the changes whose handler    *)
(* has yet to run; a report that the event pump drops stays due until the  *)
(* next change of its kind (see GroupMode).                                *)
(* The CO2 average and the sensors' fault flags are computed by their own  *)
(* handlers, at any time and with any outcome.                             *)
(***************************************************************************)
EXTENDS Naturals

CONSTANTS
    Units,          \* psModularRoofList
    Fans,           \* psExAirFanList
    Sensors         \* the kinds of sensors: "CO2", "OUT", "IN"

ASSUME SensorsAssumption == "CO2" \in Sensors

VARIABLES
    xAlarmEnable,   \* pThis->xAlarmEnable
    sAlarm_DO,      \* the alarm relay, "ON" when closed
    offline,        \* the units with sMBSlaveDev.xOnLine = FALSE
    commErr,        \* the units with xCommErr, as of their last timer callback
    stopErr,        \* the units with xStopErrFlag
    hot,            \* the units with sSupAir_T > usSupAirMax_T
    fanErr,         \* the fans with xExAirFanErr
    co2High,        \* usCO2PPM >= usCO2PPMAlarm
    senErr,         \* xCO2SenErr, xTempHumiSenOutErr, xTempHumiSenInErr
    due,            \* "unitErr", "fanErr": the handler has yet to run
    dueHot,         \* the units whose vSystem_UnitSupAirTemp has yet to run
    unheard,        \* history: units whose threshold test changed unreported
    co2Unheard,     \* history: the same for the CO2 threshold
    cleaned         \* history: reset by the BMS and not closed since

plant   == <<offline, commErr, stopErr, hot, fanErr>>
reports == <<due, dueHot, unheard>>
co2     == <<co2High, co2Unheard>>
vars    == <<xAlarmEnable, sAlarm_DO, plant, co2, senErr, reports, cleaned>>

Switch == {"ON", "OFF"}

TypeOK ==
    /\ xAlarmEnable \in BOOLEAN /\ co2High \in BOOLEAN
    /\ co2Unheard \in BOOLEAN /\ cleaned \in BOOLEAN
    /\ sAlarm_DO \in Switch
    /\ offline \subseteq Units /\ commErr \subseteq Units
    /\ stopErr \subseteq Units /\ hot \subseteq Units
    /\ fanErr \subseteq Fans
    /\ senErr \subseteq Sensors
    /\ due \subseteq {"unitErr", "fanErr"}
    /\ dueHot \subseteq Units /\ unheard \subseteq Units

(* Every unit starts off line with xCommErr clear (calloc); the enable flag  *)
(* comes from the EEPROM.                                                    *)
Init ==
    /\ xAlarmEnable \in BOOLEAN
    /\ sAlarm_DO = "OFF"
    /\ offline = Units /\ commErr = {} /\ stopErr = {} /\ hot = {}
    /\ fanErr = {} /\ senErr = {}
    /\ co2High = FALSE /\ co2Unheard = FALSE
    /\ due = {} /\ dueHot = {} /\ unheard = {}
    /\ cleaned = FALSE

-----------------------------------------------------------------------------
(* The plant, the bus master and the BMS.                                    *)
GoOnline(u) ==
    /\ u \in offline
    /\ offline' = offline \ {u}
    /\ UNCHANGED <<xAlarmEnable, sAlarm_DO, commErr, stopErr, hot, fanErr, co2,
                   senErr, reports, cleaned>>

GoOffline_AtOnce(u) ==
    /\ u \notin offline
    /\ offline' = offline \cup {u}
    /\ UNCHANGED <<xAlarmEnable, sAlarm_DO, commErr, stopErr, hot, fanErr, co2,
                   senErr, reports, cleaned>>

(* The bus master drops a unit after MB_TEST_OFFLINE_TIMES further tests,    *)
(* 5 s apart: the unit's own 5 s timer has seen it on line by then.          *)
GoOffline(u) ==
    /\ u \notin offline /\ u \notin commErr
    /\ offline' = offline \cup {u}
    /\ UNCHANGED <<xAlarmEnable, sAlarm_DO, commErr, stopErr, hot, fanErr, co2,
                   senErr, reports, cleaned>>

UnitTimeout_Unbound(u) ==
    /\ (u \in commErr) # (u \in offline)
    /\ commErr' = IF u \in offline THEN commErr \cup {u} ELSE commErr \ {u}
    /\ due' = due \cup {"commErr"}
    /\ UNCHANGED <<xAlarmEnable, sAlarm_DO, offline, stopErr, hot, fanErr, co2,
                   senErr, dueHot, unheard, cleaned>>

(* vModularRoof_TimeoutInd, when xCommErr changes.                           *)
UnitTimeout(u) ==
    /\ (u \in commErr) # (u \in offline)
    /\ commErr' = IF u \in offline THEN commErr \cup {u} ELSE commErr \ {u}
    /\ due' = due \cup {"unitErr"}
    /\ UNCHANGED <<xAlarmEnable, sAlarm_DO, offline, stopErr, hot, fanErr, co2,
                   senErr, dueHot, unheard, cleaned>>

UnitStopErr(u) ==
    /\ \/ u \in stopErr /\ stopErr' = stopErr \ {u}
       \/ u \notin stopErr /\ stopErr' = stopErr \cup {u}
    /\ due' = due \cup {"unitErr"}
    /\ UNCHANGED <<xAlarmEnable, sAlarm_DO, offline, commErr, hot, fanErr, co2,
                   senErr, dueHot, unheard, cleaned>>

(* A new supply air temperature, above the threshold or not.                 *)
SupAir(u) ==
    /\ hot' \in {hot \cup {u}, hot \ {u}}
    /\ dueHot' = dueHot \cup {u}
    /\ UNCHANGED <<xAlarmEnable, sAlarm_DO, offline, commErr, stopErr, fanErr,
                   co2, senErr, due, unheard, cleaned>>

FanFault(f) ==
    /\ \/ f \in fanErr /\ fanErr' = fanErr \ {f}
       \/ f \notin fanErr /\ fanErr' = fanErr \cup {f}
    /\ due' = due \cup {"fanErr"}
    /\ UNCHANGED <<xAlarmEnable, sAlarm_DO, offline, commErr, stopErr, hot, co2,
                   senErr, dueHot, unheard, cleaned>>

(* The BMS writes a threshold of the system itself: no handler is bound to   *)
(* it.  A lower one makes units hot, a higher one makes units cool.          *)
SetSupAirMax(S) ==
    /\ S \subseteq hot \/ hot \subseteq S
    /\ hot' = S
    /\ unheard' = unheard \cup (S \ hot) \cup (hot \ S)
    /\ UNCHANGED <<xAlarmEnable, sAlarm_DO, offline, commErr, stopErr, fanErr,
                   co2, senErr, due, dueHot, cleaned>>

SetCO2PPMAlarm ==
    /\ co2High' = ~co2High
    /\ co2Unheard' = TRUE
    /\ UNCHANGED <<xAlarmEnable, sAlarm_DO, plant, senErr, reports, cleaned>>

-----------------------------------------------------------------------------
(* The relay after vSystem_SetAlarm and after vSystem_DelAlarmRequst, when   *)
(* it was r before and the system holds these CO2 and sensor flags.          *)
SetAlarm(r) == IF xAlarmEnable THEN "ON" ELSE r

Condition_NoFans(high, sens) ==
    offline # {} \/ stopErr # {} \/ hot # {} \/ high \/ sens # {}

Condition(high, sens) ==
    offline # {} \/ stopErr # {} \/ hot # {} \/ fanErr # {} \/ high \/ sens # {}

DelAlarmRequst(r, high, sens) ==
    IF ~xAlarmEnable \/ ~Condition(high, sens) THEN "OFF" ELSE r

Judge(bad, r, high, sens) ==
    IF bad THEN SetAlarm(r) ELSE DelAlarmRequst(r, high, sens)

(* A handler leaves the relay at r; the reset is over once it closes.        *)
Leave(r) ==
    /\ sAlarm_DO' = r
    /\ cleaned' = (cleaned /\ r = "OFF")

(* A new CO2 average, judged after the relay was r; or the old one, which is *)
(* not judged again.                                                         *)
NewCO2(r, sens) ==
    \E high \in BOOLEAN :
        /\ co2High' = high /\ co2Unheard' = FALSE
        /\ Leave(Judge(high, r, high, sens))
SameCO2(r) == UNCHANGED co2 /\ Leave(r)

UnitErr ==
    LET r == Judge(stopErr \cup commErr # {}, sAlarm_DO, co2High, senErr)
    IN  /\ "unitErr" \in due
        /\ SameCO2(r) \/ ("CO2" \in senErr /\ NewCO2(r, senErr))
        /\ due' = due \ {"unitErr"}
        /\ UNCHANGED <<xAlarmEnable, plant, senErr, dueHot, unheard>>

UnitSupAirTemp(u) ==
    /\ u \in dueHot
    /\ Leave(Judge(u \in hot, sAlarm_DO, co2High, senErr))
    /\ dueHot' = dueHot \ {u}
    /\ unheard' = unheard \ {u}
    /\ UNCHANGED <<xAlarmEnable, plant, co2, senErr, due>>

ExAirFanErr ==
    /\ "fanErr" \in due
    /\ Leave(Judge(fanErr # {}, sAlarm_DO, co2High, senErr))
    /\ due' = due \ {"fanErr"}
    /\ UNCHANGED <<xAlarmEnable, plant, co2, senErr, dueHot, unheard>>

(* The system's sensors supply the average, or the units' own do when they   *)
(* have all failed: there the sum starts from an uninitialised variable.     *)
CO2PPM ==
    /\ "CO2" \notin senErr
    /\ NewCO2(sAlarm_DO, senErr)
    /\ UNCHANGED <<xAlarmEnable, plant, senErr, reports>>

UnitCO2PPM ==
    /\ "CO2" \in senErr
    /\ NewCO2(sAlarm_DO, senErr)
    /\ UNCHANGED <<xAlarmEnable, plant, senErr, reports>>

(* The flag of all CO2 sensors changes; a recovery refreshes the average.    *)
CO2SensorErr(err) ==
    LET sens == IF err THEN senErr \cup {"CO2"} ELSE senErr \ {"CO2"}
        r    == Judge(err, sAlarm_DO, co2High, sens)
    IN  /\ err # ("CO2" \in senErr)
        /\ senErr' = sens
        /\ SameCO2(r) \/ (~err /\ NewCO2(r, sens))
        /\ UNCHANGED <<xAlarmEnable, plant, reports>>

(* The temperature or the humidity flag of a kind changes: its common flag   *)
(* is set again, to the same value or not.                                   *)
TempHumiErr(k, err) ==
    LET sens == IF err THEN senErr \cup {k} ELSE senErr \ {k}
    IN  /\ senErr' = sens
        /\ Leave(Judge(err, sAlarm_DO, co2High, sens))
        /\ UNCHANGED <<xAlarmEnable, plant, co2, reports>>

CleanAlarm ==
    /\ sAlarm_DO' = "OFF" /\ cleaned' = TRUE
    /\ UNCHANGED <<xAlarmEnable, plant, co2, senErr, reports>>

AlarmEnable(e) ==
    /\ xAlarmEnable' = e
    /\ Leave(IF ~e THEN "OFF" ELSE IF Condition(co2High, senErr) THEN "ON"
                                   ELSE sAlarm_DO)
    /\ UNCHANGED <<plant, co2, senErr, reports>>

Next ==
    \/ \E u \in Units : \/ GoOnline(u) \/ GoOffline(u) \/ UnitTimeout(u)
                        \/ UnitStopErr(u) \/ SupAir(u) \/ UnitSupAirTemp(u)
    \/ \E f \in Fans : FanFault(f)
    \/ \E S \in SUBSET Units : SetSupAirMax(S)
    \/ SetCO2PPMAlarm
    \/ UnitErr
    \/ ExAirFanErr
    \/ CO2PPM
    \/ UnitCO2PPM
    \/ \E err \in BOOLEAN : CO2SensorErr(err)
    \/ \E k \in Sensors \ {"CO2"}, err \in BOOLEAN : TempHumiErr(k, err)
    \/ CleanAlarm
    \/ \E e \in BOOLEAN : AlarmEnable(e)

Spec == Init /\ [][Next]_vars

-----------------------------------------------------------------------------
(* The alarm sounds only while it is enabled: a fault that is handled while  *)
(* the BMS disables the alarm, in either order, does not leave it sounding.  *)
RelayOnlyIfEnabled == sAlarm_DO = "ON" => xAlarmEnable

(* What the handlers have been told is wrong.                                *)
Known ==
    \/ "unitErr" \notin due /\ stopErr # {}
    \/ "unitErr" \notin due /\ offline \cap commErr # {}
    \/ hot \ (dueHot \cup unheard) # {}
    \/ "fanErr" \notin due /\ fanErr # {}
    \/ co2High /\ ~co2Unheard
    \/ senErr # {}

(* A condition that was reported goes on sounding until it is over or the    *)
(* BMS resets the alarm: neither the recovery of other devices, nor a link   *)
(* that flaps, nor disabling and enabling the alarm silences it.             *)
ConditionsSounded ==
    (xAlarmEnable /\ ~cleaned /\ Known) => sAlarm_DO = "ON"
=============================================================================
