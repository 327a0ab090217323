-------------------------- MODULE GroupModeProofs --------------------------
(***************************************************************************)
(* GroupMode for any number of units and fans, any set of registered kinds *)
(* and any order of changes and reports, late and lost ones included.      *)
(* Every property is a fact that its handler restores and a change of the  *)
(* plant suspends by making the kind due; together they are inductive.     *)
(***************************************************************************)
EXTENDS GroupMode, TLAPS

(* What RemoteChange keeps up: the third part of AutoHasPlant, on its own.   *)
AutoRemote ==
    (eSystemMode = "AUTO" /\ Told("fanRemote")) => ~NoRemote

IInv == /\ TypeOK
        /\ ModeRespectsFlags
        /\ FlagsTruthful
        /\ AutoRemote
        /\ BMSMirror
        /\ StateTruthful

(* A plant at rest satisfies the invariant; with no unit or no fan at all    *)
(* the fault flags would be wrong from the start (DevicesAssumption).        *)
LEMMA InitIInv == Init => IInv
<1> SUFFICES ASSUME Init PROVE IInv
  OBVIOUS
<1> USE DEF Init
<1>1. TypeOK
  BY DEF TypeOK, Modes, States
<1>2. ModeRespectsFlags
  BY DEF ModeRespectsFlags
<1>3. FlagsTruthful
  BY DevicesAssumption DEF FlagsTruthful, NoUnit, NoFan
<1>4. AutoRemote
  BY DEF AutoRemote
<1>5. BMSMirror
  BY DEF BMSMirror
<1>6. StateTruthful
  BY DEF StateTruthful, UnitRuns, FanRuns
<1> QED BY <1>1, <1>2, <1>3, <1>4, <1>5, <1>6 DEF IInv

(* Every step keeps the types; a handler makes only registered kinds due.    *)
LEMMA TypeStep == TypeOK /\ [Next]_vars => TypeOK'
<1> SUFFICES ASSUME TypeOK, [Next]_vars PROVE TypeOK'
  OBVIOUS
<1> USE DEF TypeOK, Modes, States, flags, devices
<1>1. ASSUME NEW m \in Modes, BMSWrite(m) PROVE TypeOK'
  BY <1>1 DEF BMSWrite, Raise
<1>2. ASSUME NEW u \in Units, NEW ok \in BOOLEAN, UnitReports(u, ok) PROVE TypeOK'
  BY <1>2 DEF UnitReports, Raise
<1>3. ASSUME NEW u \in Units, UnitStartsOrStops(u) PROVE TypeOK'
  BY <1>3 DEF UnitStartsOrStops, Raise
<1>16. ASSUME NEW u \in Units, NEW known \in BOOLEAN, UnitModeChanges(u, known)
       PROVE  TypeOK'
  BY <1>16 DEF UnitModeChanges, Raise
<1>4. ASSUME NEW f \in Fans, FanFaultChanges(f) PROVE TypeOK'
  BY <1>4 DEF FanFaultChanges, Raise
<1>5. ASSUME NEW f \in Fans, FanRemoteSwitched(f) PROVE TypeOK'
  BY <1>5 DEF FanRemoteSwitched, Raise
<1>6. ASSUME NEW f \in Fans, FanStartsOrStops(f) PROVE TypeOK'
  BY <1>6 DEF FanStartsOrStops, Raise
<1>7. CASE ChangeSystemMode
  BY <1>7 DEF ChangeSystemMode, KeepMode, SetRunningModes, StateAfterRunningMode,
              Refuse, Handled, WrittenKinds
<1>8. ASSUME NEW known \in BOOLEAN, SetUnitRunningMode(known) PROVE TypeOK'
  BY <1>8 DEF SetUnitRunningMode, SetRunningModes, StateAfterRunningMode, WrittenKinds
<1>9. CASE UnitRunningState
  BY <1>9 DEF UnitRunningState, WakeUp, FallBackTo, KeepMode, StatesOfPlant,
              FanState, Handled, WrittenKinds
<1>10. CASE FanRunningState
  BY <1>10 DEF FanRunningState, WakeUp, FallBackTo, KeepMode, StatesOfPlant,
               FanState, Handled, WrittenKinds
<1>11. CASE UnitErr
  <2>1. xUnitErrFlag' \in BOOLEAN
    BY <1>11, Zenon DEF UnitErr, NoUnit
  <2> QED BY <1>11, <2>1 DEF UnitErr, FallBackTo, KeepMode,
              Handled, WrittenKinds
<1>12. CASE ExAirFanErr
  <2>1. xExFanErrFlag' \in BOOLEAN
    BY <1>12, Zenon DEF ExAirFanErr, NoFan
  <2> QED BY <1>12, <2>1 DEF ExAirFanErr, FallBackTo, KeepMode,
              Handled, WrittenKinds
<1>13. CASE ExAirFanRemoteChange
  BY <1>13 DEF ExAirFanRemoteChange, FallBackTo, KeepMode,
              Handled, WrittenKinds
<1>14. CASE ExAirFanErrClean
  BY <1>14 DEF ExAirFanErrClean, Raise
<1>15. CASE UNCHANGED vars
  BY <1>15 DEF vars
<1> QED
  BY <1>1, <1>2, <1>3, <1>4, <1>5, <1>6, <1>7, <1>8, <1>9, <1>10, <1>11,
     <1>12, <1>13, <1>14, <1>15, <1>16
  DEF Next, Plant

(* No step leaves the controller in a mode its flags forbid, told or not: a  *)
(* handler that sets a flag leaves the mode in the same step, and the one    *)
(* that enters a mode reads the flags.                                       *)
LEMMA ModeFlagsStep ==
  TypeOK /\ ModeRespectsFlags /\ [Next]_vars => ModeRespectsFlags'
<1> SUFFICES ASSUME TypeOK, ModeRespectsFlags, [Next]_vars
             PROVE  ModeRespectsFlags'
  OBVIOUS
<1> USE DEF ModeRespectsFlags, flags
<1>1. CASE ChangeSystemMode
  BY <1>1 DEF ChangeSystemMode, Admissible, Refuse, KeepMode
<1>2. CASE UnitRunningState \/ FanRunningState
  BY <1>2 DEF UnitRunningState, FanRunningState, WakeUp, FallBackTo, KeepMode
<1>3. CASE UnitErr
  BY <1>3 DEF UnitErr, FallBackTo, KeepMode
<1>4. CASE ExAirFanErr
  BY <1>4 DEF ExAirFanErr, FallBackTo, KeepMode
<1>5. CASE ExAirFanRemoteChange
  BY <1>5 DEF ExAirFanRemoteChange, FallBackTo, KeepMode
<1>6. CASE UNCHANGED <<eSystemMode, flags>>
  BY <1>6
<1> QED
  BY <1>1, <1>2, <1>3, <1>4, <1>5, <1>6
  DEF Next, Plant, BMSWrite, UnitReports, UnitStartsOrStops, UnitModeChanges,
      FanFaultChanges,
      FanRemoteSwitched, FanStartsOrStops, SetUnitRunningMode,
      ExAirFanErrClean, vars

(* A fault flag goes stale only in a step that makes its kind due.           *)
LEMMA FlagsStep == TypeOK /\ FlagsTruthful /\ [Next]_vars => FlagsTruthful'
<1> SUFFICES ASSUME TypeOK, FlagsTruthful, [Next]_vars
             PROVE  /\ Told("unitErr")' => (xUnitErrFlag' <=> NoUnit')
                    /\ Told("fanErr")' => (xExFanErrFlag' <=> NoFan')
  BY DEF FlagsTruthful
<1> USE DEF Told, NoUnit, NoFan
<1>1. CASE UnitErr
  BY <1>1 DEF UnitErr, Handled, WrittenKinds, devices, FlagsTruthful
<1>2. CASE ExAirFanErr
  BY <1>2 DEF ExAirFanErr, Handled, WrittenKinds, devices, FlagsTruthful
<1>3. CASE \E u \in Units, ok \in BOOLEAN : UnitReports(u, ok)
  BY <1>3 DEF UnitReports, Raise, flags, FlagsTruthful
<1>4. CASE ExAirFanErrClean \/ \E f \in Fans : FanFaultChanges(f)
  BY <1>4 DEF ExAirFanErrClean, FanFaultChanges, Raise, flags, FlagsTruthful
<1>5. CASE /\ UNCHANGED <<flags, unitOk, fanErr>>
           /\ due \cap {"unitErr", "fanErr"} \subseteq due'
  BY <1>5 DEF flags, FlagsTruthful
<1>6. CASE ChangeSystemMode \/ UnitRunningState \/ FanRunningState
           \/ ExAirFanRemoteChange
  BY <1>5, <1>6 DEF ChangeSystemMode, UnitRunningState, FanRunningState,
                    ExAirFanRemoteChange, Handled, WrittenKinds, devices
<1>7. CASE UNCHANGED <<flags, unitOk, fanErr>> /\ due \subseteq due'
  BY <1>5, <1>7
<1> QED
  BY <1>1, <1>2, <1>3, <1>4, <1>6, <1>7
  DEF Next, Plant, BMSWrite, UnitStartsOrStops, UnitModeChanges, FanRemoteSwitched,
      FanStartsOrStops, Raise, SetUnitRunningMode, WrittenKinds, devices, vars

(* Automatic mode loses its last remote fan only in a step that makes the    *)
(* handler due which leaves the mode; entering it counts the remote fans.    *)
LEMMA RemoteStep == TypeOK /\ AutoRemote /\ [Next]_vars => AutoRemote'
<1> SUFFICES ASSUME TypeOK, AutoRemote, [Next]_vars,
                    eSystemMode' = "AUTO", Told("fanRemote")'
             PROVE  ~NoRemote'
  BY DEF AutoRemote
<1> USE DEF Told, NoRemote, AutoRemote
<1>1. CASE ChangeSystemMode
  BY <1>1 DEF ChangeSystemMode, Admissible, Refuse, KeepMode, Handled,
              WrittenKinds, devices
<1>2. CASE ExAirFanRemoteChange
  BY <1>2 DEF ExAirFanRemoteChange, FallBackTo, KeepMode, Handled,
              WrittenKinds, devices
<1>3. CASE \E f \in Fans : FanRemoteSwitched(f)
  BY <1>3 DEF FanRemoteSwitched, Raise
<1>4. CASE UnitRunningState \/ FanRunningState
  BY <1>4 DEF UnitRunningState, FanRunningState, WakeUp, FallBackTo, KeepMode,
              Handled, WrittenKinds, devices
<1>5. CASE UnitErr \/ ExAirFanErr
  BY <1>5 DEF UnitErr, ExAirFanErr, FallBackTo, KeepMode, Handled,
              WrittenKinds, devices
<1>6. CASE UNCHANGED <<eSystemMode, fanRemote>> /\ due \subseteq due'
  BY <1>6
<1> QED
  BY <1>1, <1>2, <1>3, <1>4, <1>5, <1>6
  DEF Next, Plant, BMSWrite, UnitReports, UnitStartsOrStops, UnitModeChanges,
      FanFaultChanges,
      FanStartsOrStops, Raise, SetUnitRunningMode, WrittenKinds, ExAirFanErrClean,
      devices, vars

(* The two copies of the mode come apart only in a step that makes the mode  *)
(* handler due, and every other writer overwrites both.                      *)
LEMMA MirrorStep == TypeOK /\ BMSMirror /\ [Next]_vars => BMSMirror'
<1> SUFFICES ASSUME TypeOK, BMSMirror, [Next]_vars, Told("mode")'
             PROVE  bmsMode' = eSystemMode'
  BY DEF BMSMirror
<1> USE DEF Told, BMSMirror
<1>1. CASE ChangeSystemMode
  <2>1. CASE bmsMode = eSystemMode /\ KeepMode
    BY <2>1 DEF KeepMode
  <2>2. CASE eSystemMode' = bmsMode /\ UNCHANGED bmsMode
    BY <2>2
  <2>3. CASE Refuse
    BY <2>3 DEF Refuse
  <2> QED BY <1>1, <2>1, <2>2, <2>3, Zenon DEF ChangeSystemMode
<1>2. CASE \E m \in Modes : BMSWrite(m)
  BY <1>2 DEF BMSWrite, Raise
<1>3. CASE UnitRunningState \/ FanRunningState
  BY <1>3 DEF UnitRunningState, FanRunningState, WakeUp, FallBackTo, KeepMode,
              Handled, WrittenKinds
<1>4. CASE UnitErr
  BY <1>4 DEF UnitErr, FallBackTo, KeepMode,
              Handled, WrittenKinds
<1>5. CASE ExAirFanErr \/ ExAirFanRemoteChange
  BY <1>5 DEF ExAirFanErr, ExAirFanRemoteChange, FallBackTo, KeepMode,
              Handled, WrittenKinds
<1>6. CASE UNCHANGED <<eSystemMode, bmsMode>> /\ due \subseteq due'
  BY <1>6
<1> QED
  BY <1>1, <1>2, <1>3, <1>4, <1>5, <1>6
  DEF Next, Plant, UnitReports, UnitStartsOrStops, UnitModeChanges,
      FanFaultChanges,
      FanRemoteSwitched, FanStartsOrStops, Raise, SetUnitRunningMode, WrittenKinds,
      ExAirFanErrClean, vars

(* The reported state goes stale only in a step that makes a run report due; *)
(* setting the running mode can only repeat what the reports said.           *)
LEMMA StateStep == TypeOK /\ StateTruthful /\ [Next]_vars => StateTruthful'
<1> DEFINE Known == \A u \in Units : unitRuns[u] => modeKnown[u]
<1> SUFFICES ASSUME TypeOK, StateTruthful, [Next]_vars,
                    Told("unitRun")', Told("fanRun")', Known'
             PROVE  /\ (eSystemState' = "UNIT") <=> UnitRuns'
                    /\ (eSystemState' = "CLOSED") <=> ~UnitRuns' /\ ~FanRuns'
  BY DEF StateTruthful
<1> USE DEF Told
<1>1. CASE UnitRunningState \/ FanRunningState
  BY <1>1 DEF UnitRunningState, FanRunningState, StatesOfPlant, FanState, UnitRuns,
              FanRuns, devices
<1>2. CASE ChangeSystemMode
  <2>1. UNCHANGED <<unitRuns, fanRuns>> /\ Told("unitRun") /\ Told("fanRun")
    BY <1>2 DEF ChangeSystemMode, Handled, WrittenKinds, devices
  <2>2. CASE UNCHANGED <<eSystemState, modeKnown>>
    BY <2>1, <2>2 DEF StateTruthful, UnitRuns, FanRuns
  <2>3. CASE SetRunningModes(TRUE) /\ modeKnown' = modeKnown
    BY <2>1, <2>3 DEF SetRunningModes, StateAfterRunningMode, StateTruthful, UnitRuns,
                      FanRuns
  <2>4. CASE modeKnown' # modeKnown
    BY <1>2, <2>1, <2>4 DEF ChangeSystemMode, Handled, WrittenKinds
  <2> QED BY <1>2, <2>2, <2>3, <2>4 DEF ChangeSystemMode, Refuse
<1>3. ASSUME NEW known \in BOOLEAN, SetUnitRunningMode(known)
      PROVE  /\ (eSystemState' = "UNIT") <=> UnitRuns'
             /\ (eSystemState' = "CLOSED") <=> ~UnitRuns' /\ ~FanRuns'
  <2>1. /\ UNCHANGED <<unitRuns, fanRuns, modeKnown>>
        /\ Told("unitRun") /\ Told("fanRun")
    BY <1>3 DEF SetUnitRunningMode, WrittenKinds, devices
  <2> QED BY <1>3, <2>1 DEF SetUnitRunningMode, SetRunningModes,
             StateAfterRunningMode, StateTruthful, UnitRuns, FanRuns
<1>4. CASE UnitErr \/ ExAirFanErr \/ ExAirFanRemoteChange
  BY <1>4 DEF UnitErr, ExAirFanErr, ExAirFanRemoteChange, Handled, WrittenKinds, UnitRuns,
              FanRuns, devices, StateTruthful
<1>5. CASE \/ \E u \in Units : UnitStartsOrStops(u)
           \/ \E u \in Units, known \in BOOLEAN : UnitModeChanges(u, known)
           \/ \E f \in Fans : FanStartsOrStops(f)
  BY <1>5 DEF UnitStartsOrStops, UnitModeChanges, FanStartsOrStops, Raise
<1>6. CASE /\ UNCHANGED <<eSystemState, unitRuns, fanRuns, modeKnown>>
           /\ due \subseteq due'
  BY <1>6 DEF UnitRuns, FanRuns, StateTruthful
<1> QED
  BY <1>1, <1>2, <1>3, <1>4, <1>5, <1>6
  DEF Next, Plant, BMSWrite, UnitReports, FanFaultChanges, FanRemoteSwitched,
      Raise, ExAirFanErrClean, devices, vars

(* Together: IInv is inductive.                                              *)
LEMMA NextIInv == IInv /\ [Next]_vars => IInv'
  BY TypeStep, ModeFlagsStep, FlagsStep, RemoteStep, MirrorStep, StateStep
  DEF IInv

LEMMA SpecIInv == Spec => []IInv
  BY InitIInv, NextIInv, PTL DEF Spec

(* The controller's variables keep their types.                              *)
THEOREM TypeCorrect == Spec => []TypeOK
<1>1. IInv => TypeOK
  BY DEF IInv
<1> QED BY <1>1, SpecIInv, PTL

(* No mode contradicts the flags, however late a report is.                  *)
THEOREM ModeAlwaysRespectsFlags == Spec => []ModeRespectsFlags
<1>1. IInv => ModeRespectsFlags
  BY DEF IInv
<1> QED BY <1>1, SpecIInv, PTL

(* Automatic mode has its unit, its fault-free fan and its remote fan once   *)
(* the reports are handled.  This is where the flags meet the plant:         *)
(* ModeRespectsFlags says the flags are clear and FlagsTruthful what that    *)
(* means.                                                                    *)
THEOREM AutoAlwaysHasPlant == Spec => []AutoHasPlant
<1>1. IInv => AutoHasPlant
  BY DEF IInv, AutoHasPlant, ModeRespectsFlags, FlagsTruthful, AutoRemote
<1> QED BY <1>1, SpecIInv, PTL

(* Emergency ventilation has a usable unit once the reports are handled.     *)
THEOREM EmergencyAlwaysHasUnit == Spec => []EmergencyHasUnit
<1>1. IInv => EmergencyHasUnit
  BY DEF IInv, EmergencyHasUnit, ModeRespectsFlags, FlagsTruthful
<1> QED BY <1>1, SpecIInv, PTL

(* Once its request is handled, the BMS reads the mode the system is in.     *)
THEOREM BMSAlwaysMirrors == Spec => []BMSMirror
<1>1. IInv => BMSMirror
  BY DEF IInv
<1> QED BY <1>1, SpecIInv, PTL

(* Once the reports are handled, the reported state is that of the devices   *)
(* whose running modes are known.                                            *)
THEOREM StateAlwaysTruthful == Spec => []StateTruthful
<1>1. IInv => StateTruthful
  BY DEF IInv
<1> QED BY <1>1, SpecIInv, PTL

(* Once the reports are handled, the fault flags are those of the devices.   *)
THEOREM FlagsAlwaysTruthful == Spec => []FlagsTruthful
<1>1. IInv => FlagsTruthful
  BY DEF IInv
<1> QED BY <1>1, SpecIInv, PTL
=============================================================================
