------------------------------ MODULE FanProofs -----------------------------
(* The exhaust fans: the supervision of one fan (ExhaustFan), for every set  *)
(* of frequencies and all timings, and the staging of all of them            *)
(* (FanStaging), for every number of fans and all volumes, parameters and    *)
(* running hours.                                                            *)
EXTENDS ExhaustFan, FanStaging, FiniteSetTheorems, WellFoundedInduction, TLAPS

(* Clamping keeps a frequency among the distinguished ones and never above   *)
(* the upper bound; with an ordered range it is not below the lower one.     *)
LEMMA ClampInRange ==
  ASSUME NEW f \in Freqs, NEW lo \in Freqs, NEW hi \in Freqs
  PROVE  /\ Clamp(f, lo, hi) \in Freqs
         /\ Clamp(f, lo, hi) <= hi
         /\ lo <= hi => Clamp(f, lo, hi) >= lo
  BY FreqAssumption DEF Clamp

(* vExFan_SetFreq keeps the set point and the output among the frequencies.  *)
LEMMA ApplyFreqType ==
  ASSUME TypeOK, NEW f \in Freqs, NEW lo \in Freqs, NEW hi \in Freqs, NEW cmd,
         ApplyFreq(f, cmd, lo, hi)
  PROVE  usSetFreq' \in Freqs /\ sFreq_AO' \in Freqs
<1>1. Clamp(f, lo, hi) \in Freqs
  BY ClampInRange
<1>2. CASE eFanFreqType = "VARIABLE_FREQ" /\ ~xExAirFanErr
  BY <1>1, <1>2 DEF ApplyFreq, TypeOK
<1>3. CASE ~(eFanFreqType = "VARIABLE_FREQ" /\ ~xExAirFanErr)
  BY <1>3 DEF ApplyFreq, TypeOK
<1> QED BY <1>2, <1>3

(* ... and an output it changes is inside the range it was given.            *)
LEMMA ApplyFreqRange ==
  ASSUME TypeOK, NEW f \in Freqs, NEW lo \in Freqs, NEW hi \in Freqs, NEW cmd,
         ApplyFreq(f, cmd, lo, hi), sFreq_AO' # sFreq_AO
  PROVE  sFreq_AO' <= hi /\ (lo <= hi => sFreq_AO' >= lo)
<1>1. eFanFreqType = "VARIABLE_FREQ" /\ ~xExAirFanErr
  BY DEF ApplyFreq
<1>2. sFreq_AO' = Clamp(f, lo, hi)
  BY <1>1 DEF ApplyFreq
<1> QED BY <1>2, ClampInRange

(* Every step keeps the fan's fields in their types.                         *)
LEMMA TypeStep == TypeOK /\ [Next]_vars => TypeOK'
<1> SUFFICES ASSUME TypeOK, [Next]_vars PROVE TypeOK'
  OBVIOUS
<1> USE DEF freqVars, inputVars, ctrlVars, FreqTypes, Switch, RunStates
<1>1. CASE TimeoutInd
  <2>1. usSetFreq' \in Freqs /\ sFreq_AO' \in Freqs
    BY <1>1, ApplyFreqType DEF TimeoutInd, TypeOK
  <2>2. ucTimeCount' \in Nat
    BY <1>1, TimeAssumption DEF TimeoutInd, TypeOK
  <2>3. eCtrlCmd' \in Switch /\ sSwitch_DO' \in Switch
    BY <1>1 DEF TimeoutInd, TypeOK
  <2>4. xExAirFanCtrl' \in BOOLEAN /\ xExAirFanCtrlErr' \in BOOLEAN
    BY <1>1, Zenon DEF TimeoutInd, TypeOK
  <2>5. UNCHANGED <<freqVars, inputVars>>
    BY <1>1 DEF TimeoutInd
  <2> QED BY <2>1, <2>2, <2>3, <2>4, <2>5 DEF TypeOK
<1>2. ASSUME NEW f \in Freqs, SetFreq(f) PROVE TypeOK'
  <2>1. usSetFreq' \in Freqs /\ sFreq_AO' \in Freqs
    BY <1>2, ApplyFreqType DEF SetFreq, TypeOK
  <2> QED BY <1>2, <2>1 DEF SetFreq, TypeOK
<1>3. ASSUME NEW lo \in Freqs, NEW hi \in Freqs, SetFreqRange(lo, hi)
      PROVE TypeOK'
  <2>1. usSetFreq' \in Freqs /\ sFreq_AO' \in Freqs
    BY <1>3, ApplyFreqType DEF SetFreqRange, TypeOK
  <2> QED BY <1>3, <2>1 DEF SetFreqRange, TypeOK
<1>4. CASE SwitchOpen
  <2>1. usSetFreq' \in Freqs /\ sFreq_AO' \in Freqs
    BY <1>4, ApplyFreqType DEF SwitchOpen, TypeOK
  <2> QED BY <1>4, <2>1 DEF SwitchOpen, TypeOK
<1>5. CASE SwitchClose
  BY <1>5 DEF SwitchClose, TypeOK
<1>6. ASSUME NEW t \in FreqTypes, ChangeFreqType(t) PROVE TypeOK'
  BY <1>6, FreqAssumption DEF ChangeFreqType, TypeOK
<1>7. CASE ErrClean
  BY <1>7 DEF ErrClean, TypeOK
<1>8. ASSUME NEW c \in Switch, BMSWriteCmd(c) PROVE TypeOK'
  BY <1>8 DEF BMSWriteCmd, TypeOK
<1>9. CASE InputScan
  BY <1>9 DEF InputScan, TypeOK
<1>10. CASE FollowFeedback
  BY <1>10 DEF FollowFeedback, TypeOK
<1>11. CASE UNCHANGED vars
  BY <1>11 DEF vars, TypeOK
<1> QED
  BY <1>1, <1>2, <1>3, <1>4, <1>5, <1>6, <1>7, <1>8, <1>9, <1>10, <1>11
  DEF Next, OtherSteps

(* A fan fresh from vExAirFan_Init is well typed.                            *)
LEMMA TypeInit == Init => TypeOK
  BY FreqAssumption DEF Init, TypeOK, FreqTypes, Switch, RunStates

(* The fields of the fan keep their types in every behaviour.                *)
THEOREM TypeCorrect == Spec => []TypeOK
  BY TypeInit, TypeStep, PTL DEF Spec

(* The inductive invariant: the types and the bound of the count.  The types *)
(* are needed because TimeoutInd compares the count with the threshold.      *)
IInv == TypeOK /\ CountBounded

(* The count is below the threshold whenever no callback is running: only    *)
(* TimeoutInd changes it, and the tick that reaches the threshold resets it. *)
THEOREM CountAlwaysBounded == Spec => []CountBounded
<1>1. Init => IInv
  BY TypeInit, TimeAssumption DEF Init, IInv, CountBounded
<1>2. IInv /\ [Next]_vars => IInv'
  <2> SUFFICES ASSUME IInv, [Next]_vars PROVE CountBounded'
    BY TypeStep DEF IInv
  <2>1. CASE TimeoutInd
    <3>1. CASE Supervised /\ xExAirFanRemote /\ ~Agree
      BY <2>1, <3>1, TimeAssumption
      DEF TimeoutInd, IInv, TypeOK, CountBounded, Expired
    <3>2. CASE Supervised /\ xExAirFanRemote /\ Agree
      BY <2>1, <3>2, TimeAssumption
      DEF TimeoutInd, IInv, TypeOK, CountBounded, Expired
    <3>3. CASE ~(Supervised /\ xExAirFanRemote)
      BY <2>1, <3>3, TimeAssumption
      DEF TimeoutInd, IInv, TypeOK, CountBounded, Expired
    <3> QED BY <3>1, <3>2, <3>3
  <2>2. CASE OtherSteps
    <3>1. UNCHANGED ucTimeCount
      BY <2>2 DEF OtherSteps, SetFreq, SetFreqRange, SwitchOpen, SwitchClose,
                  ChangeFreqType, ErrClean, BMSWriteCmd, FollowFeedback, InputScan,
                  ctrlVars
    <3> QED BY <3>1 DEF IInv, CountBounded
  <2>3. CASE UNCHANGED vars
    BY <2>3 DEF vars, ctrlVars, IInv, CountBounded
  <2> QED BY <2>1, <2>2, <2>3 DEF Next
<1>3. IInv => CountBounded
  BY DEF IInv
<1> QED BY <1>1, <1>2, <1>3, PTL DEF Spec

(* Every frequency written to the output respects the range then in force.   *)
THEOREM OutputAlwaysInRange == Spec => OutputInRange
<1> DEFINE InRange == /\ sFreq_AO' <= usMaxFreq'
                      /\ usMinFreq' <= usMaxFreq' => sFreq_AO' >= usMinFreq'
<1>1. ASSUME TypeOK, [Next]_vars, sFreq_AO' # sFreq_AO
      PROVE  InRange
  <2> USE DEF freqVars
  <2>1. CASE TimeoutInd
    <3>1. ApplyFreq(usSetFreq, eCtrlCmd, usMinFreq, usMaxFreq)
      BY <1>1, <2>1 DEF TimeoutInd
    <3>2. UNCHANGED <<usMinFreq, usMaxFreq>>
      BY <2>1 DEF TimeoutInd
    <3> QED BY <1>1, <3>1, <3>2, ApplyFreqRange DEF TypeOK
  <2>2. ASSUME NEW f \in Freqs, SetFreq(f) PROVE InRange
    BY <1>1, <2>2, ApplyFreqRange DEF SetFreq, TypeOK
  <2>3. ASSUME NEW lo \in Freqs, NEW hi \in Freqs, SetFreqRange(lo, hi)
        PROVE  InRange
    <3>1. ApplyFreq(usSetFreq, eCtrlCmd, lo, hi)
      BY <1>1, <2>3 DEF SetFreqRange
    <3>2. usMinFreq' = lo /\ usMaxFreq' = hi
      BY <2>3 DEF SetFreqRange
    <3> QED BY <1>1, <3>1, <3>2, ApplyFreqRange DEF TypeOK
  <2>4. CASE SwitchOpen
    <3>1. ApplyFreq(usSetFreq, "ON", usMinFreq, usMaxFreq)
      BY <1>1, <2>4 DEF SwitchOpen
    <3>2. UNCHANGED <<usMinFreq, usMaxFreq>>
      BY <2>4 DEF SwitchOpen
    <3> QED BY <1>1, <3>1, <3>2, ApplyFreqRange DEF TypeOK
  <2>5. CASE UNCHANGED vars
    BY <1>1, <2>5 DEF vars
  <2> QED
    BY <1>1, <2>1, <2>2, <2>3, <2>4, <2>5
    DEF Next, OtherSteps, SwitchClose, ChangeFreqType, ErrClean, BMSWriteCmd,
        FollowFeedback, InputScan
<1>2. TypeOK /\ [Next]_vars => [sFreq_AO' # sFreq_AO => InRange]_vars
  BY <1>1
<1> QED BY <1>2, TypeCorrect, PTL DEF Spec, OutputInRange

(* The fan reaches what it is told before its grace time is over: the last   *)
(* callback that could still count a disagreement finds none.  This is what  *)
(* FanStaging takes a fan outside Wayward to do.                             *)
FollowsInTime == TimeoutInd /\ ucTimeCount + TimeOut >= CtrlErrDelay => Agree

(* Justifies FanTimeoutInd of FanStaging.  Whatever the BMS, the dispatcher, *)
(* the contacts and the local switch do to it, and although the count of     *)
(* seconds outlives the command it was started for (fan.c:207-210), a fan    *)
(* that follows in time never gets a control fault, and the callback         *)
(* withdraws its command only while it is faulty or local.                   *)
THEOREM ObedientKeepsCommand ==
  Spec /\ [][FollowsInTime]_vars
    => /\ [](~xExAirFanCtrlErr)
       /\ [][TimeoutInd /\ eCtrlCmd' # eCtrlCmd => ~MayOpen]_vars
<1> DEFINE KeepsCommand == TimeoutInd /\ eCtrlCmd' # eCtrlCmd => ~MayOpen
<1>1. Init => ~xExAirFanCtrlErr
  BY DEF Init
<1>2. TypeOK /\ ~xExAirFanCtrlErr /\ [Next]_vars /\ [FollowsInTime]_vars
        => ~xExAirFanCtrlErr'
  <2> SUFFICES ASSUME TypeOK, ~xExAirFanCtrlErr, [Next]_vars, [FollowsInTime]_vars
               PROVE  ~xExAirFanCtrlErr'
    OBVIOUS
  <2>1. CASE TimeoutInd /\ FollowsInTime
    <3>1. CASE Agree
      BY <2>1, <3>1 DEF TimeoutInd
    <3>2. CASE ~Agree
      <4>1. ucTimeCount + TimeOut < CtrlErrDelay
        BY <2>1, <3>2, TimeAssumption DEF FollowsInTime, TypeOK
      <4> QED BY <2>1, <3>2, <4>1, TimeAssumption DEF TimeoutInd, TypeOK, Expired
    <3> QED BY <3>1, <3>2
  <2>2. CASE OtherSteps
    BY <2>2 DEF OtherSteps, SetFreq, SetFreqRange, SwitchOpen, SwitchClose,
                ChangeFreqType, ErrClean, BMSWriteCmd, FollowFeedback, InputScan,
                ctrlVars
  <2>3. CASE UNCHANGED vars
    BY <2>3 DEF vars, ctrlVars
  <2> QED BY <2>1, <2>2, <2>3 DEF Next
<1>3. ~xExAirFanCtrlErr' => [KeepsCommand]_vars
  <2> SUFFICES ASSUME ~xExAirFanCtrlErr', TimeoutInd, eCtrlCmd' # eCtrlCmd
               PROVE  ~MayOpen
    OBVIOUS
  <2> QED BY DEF TimeoutInd, Withdrawn, MayOpen
<1>4. Spec /\ []TypeOK /\ [][FollowsInTime]_vars
        => [](~xExAirFanCtrlErr) /\ [][KeepsCommand]_vars
  BY <1>1, <1>2, <1>3, PTL DEF Spec
<1> QED BY <1>4, TypeCorrect, PTL

-----------------------------------------------------------------------------
(* Staging: the calls a handler is made of, and what they leave alone.       *)

(* Every field but the commands and the frequency is as it was.              *)
Kept(t, s) ==
    /\ t \in Objects
    /\ t.mode = s.mode /\ t.type = s.type /\ t.co2 = s.co2
    /\ t.target = s.target /\ t.request = s.request
    /\ t.lastNum = s.lastNum /\ t.varRequest = s.varRequest
    /\ t.requestTmr = s.requestTmr /\ t.ctrlTmr = s.ctrlTmr
    /\ t.acted = s.acted

(* Kept composes along the calls of a handler.                               *)
LEMMA KeptTrans ==
  ASSUME NEW r, NEW s, NEW t, Kept(s, r), Kept(t, s) PROVE Kept(t, r)
  BY DEF Kept

(* SwitchOpen and SwitchClose, applied to a set of fans, change commands     *)
(* only.                                                                     *)
LEMMA OpenKept ==
  ASSUME NEW s \in Objects, NEW F
  PROVE  /\ Kept(Open(s, F), s)
         /\ Open(s, F).cmd = [f \in Fans |-> s.cmd[f] \/ (f \in F /\ usable[f])]
<1> DEFINE c == [f \in Fans |-> s.cmd[f] \/ (f \in F /\ usable[f])]
<1>1. c \in [Fans -> BOOLEAN]
  OBVIOUS
<1>2. Open(s, F) = [s EXCEPT !.cmd = c]
  BY DEF Open
<1>3. ASSUME NEW d \in [Fans -> BOOLEAN]
      PROVE  Kept([s EXCEPT !.cmd = d], s) /\ [s EXCEPT !.cmd = d].cmd = d
  BY DEF Objects, Kept
<1> QED BY <1>1, <1>2, <1>3

(* SwitchClose, applied to a set of fans, withdraws their commands and       *)
(* changes nothing else.                                                     *)
LEMMA CloseKept ==
  ASSUME NEW s \in Objects, NEW F
  PROVE  /\ Kept(Close(s, F), s)
         /\ Close(s, F).cmd = [f \in Fans |-> s.cmd[f] /\ f \notin F]
<1> DEFINE c == [f \in Fans |-> s.cmd[f] /\ f \notin F]
<1>1. c \in [Fans -> BOOLEAN]
  OBVIOUS
<1>2. Close(s, F) = [s EXCEPT !.cmd = c]
  BY DEF Close
<1>3. ASSUME NEW d \in [Fans -> BOOLEAN]
      PROVE  Kept([s EXCEPT !.cmd = d], s) /\ [s EXCEPT !.cmd = d].cmd = d
  BY DEF Objects, Kept
<1> QED BY <1>1, <1>2, <1>3

(* Adjusting the frequency changes no command.                               *)
LEMMA AdjustKept ==
  ASSUME NEW s \in Objects, NEW f \in Nat
  PROVE  Kept(Adjust(s, f), s) /\ Adjust(s, f).cmd = s.cmd
<1> DEFINE raised == IF f < MinFreq THEN MinFreq ELSE f
           g == IF raised > MaxFreq THEN MaxFreq ELSE raised
<1>1. g \in Nat
  BY ParamAssumption
<1>2. Adjust(s, f) = IF s.type # "BOTH" THEN s ELSE [s EXCEPT !.freq = g]
  BY DEF Adjust
<1> HIDE DEF g
<1> QED BY <1>1, <1>2 DEF Objects, Kept

(* The body that AlwaysOpen and ConstantSwitch share decides on commands     *)
(* and on the frequency, whatever numbers it is given.                       *)
LEMMA StageKept ==
  ASSUME NEW s \in Objects, NEW want, NEW keep
  PROVE  Kept(Stage(s, want, keep), s)
<1> DEFINE spare == want > Cardinality(Staged(s)) /\ VarUsable(s)
           surplus == /\ want <= Cardinality(Staged(s)) /\ ~s.varRequest
                      /\ s.type = "BOTH" /\ runs[Variate]
           s1 == IF spare THEN Adjust(Open(s, {Variate}), MaxFreq)
                 ELSE IF surplus THEN Close(s, {Variate}) ELSE s
           long == Longest(Running(s), Cardinality(Running(s)) - keep)
           short == Shortest(Staged(s) \ Running(s), want - Cardinality(Running(s)))
<1>1. Kept(s1, s)
  <2>0. Kept(s, s)
    BY DEF Kept
  <2>1. Kept(Open(s, {Variate}), s)
    BY OpenKept
  <2>2. Kept(Adjust(Open(s, {Variate}), MaxFreq), Open(s, {Variate}))
    BY <2>1, AdjustKept, ParamAssumption DEF Kept
  <2>3. Kept(Close(s, {Variate}), s)
    BY CloseKept
  <2>4. Kept(Adjust(Open(s, {Variate}), MaxFreq), s)
    BY <2>1, <2>2, KeptTrans
  <2> QED BY <2>0, <2>3, <2>4
<1>2. Stage(s, want, keep) = IF want < Cardinality(Running(s))
                             THEN Close(s1, long) ELSE Open(s1, short)
  BY DEF Stage
<1> HIDE DEF s1, long, short
<1>a. s1 \in Objects
  BY <1>1 DEF Kept
<1>3. Kept(Close(s1, long), s1) /\ Kept(Open(s1, short), s1)
  BY <1>a, OpenKept, CloseKept
<1> QED BY <1>1, <1>2, <1>3, KeptTrans

(* The demand computed from a volume: the whole fans it fills fit the        *)
(* plant, the surplus left over is not negative, so no unsigned difference   *)
(* wraps, and at most one fan is requested on top of the always-open ones,   *)
(* none when the variable fan can take the surplus.                          *)
LEMMA DemandNumbers ==
  ASSUME NEW s \in Objects
  PROVE  /\ OpenNum(s) \in 0..N-1
         /\ Surplus(s) \in Nat
         /\ RequestTime(s) \in Nat
         /\ RequestNum(s) \in {OpenNum(s), OpenNum(s) + 1}
         /\ RequestNum(s) \in 0..N
         /\ VarUsable(s) => RequestNum(s) = OpenNum(s)
<1> DEFINE whole == s.request \div Rated
<1>a. s.request \in Volumes \cup {0}
  BY DEF Objects
<1>0. /\ s.request \in Nat
      /\ Rated \in Nat /\ Rated > 0
      /\ MinFreq \in Nat /\ Period \in Nat
      /\ N \in Nat /\ N > 1
  <2>1. Volumes \subseteq Nat
    BY VolumeAssumption, Zenon
  <2>2. s.request \in Nat
    <3>1. 0 \in Nat
      OBVIOUS
    <3> QED BY <1>a, <2>1, <3>1, Zenon
  <2>3. Rated \in Nat /\ Rated > 0
    BY VolumeAssumption
  <2>4. N \in Nat /\ N > 1
    BY FansAssumption
  <2> QED BY <2>2, <2>3, <2>4, ParamAssumption
<1>1. whole \in Nat /\ Rated * whole <= s.request
  BY <1>0
<1>2. OpenNum(s) \in 0..N-1 /\ OpenNum(s) <= whole
  BY <1>0, <1>1 DEF OpenNum
<1>3. Surplus(s) \in Nat
  <2>1. Rated * OpenNum(s) \in Nat /\ Rated * OpenNum(s) <= Rated * whole
    BY <1>0, <1>1, <1>2
  <2> QED BY <1>0, <1>1, <2>1 DEF Surplus
<1>4. RequestTime(s) \in Nat
  <2>1. Surplus(s) * 500 \in Nat
    BY <1>3
  <2>2. Div(Surplus(s) * 500, MinFreq) \in Nat
    BY <1>0, <2>1 DEF Div
  <2>3. Div(Surplus(s) * 500, MinFreq) * Period \in Nat /\ Surplus(s) * Period \in Nat
    BY <1>0, <1>3, <2>2
  <2>4. \A a \in Nat : a \div Rated \in Nat
    BY <1>0
  <2> QED BY <2>3, <2>4 DEF RequestTime
<1> QED BY <1>0, <1>2, <1>3, <1>4 DEF RequestNum

(* The frequency that carries the surplus, in 16 bits.                       *)
LEMMA SurplusFreq ==
  ASSUME NEW s \in Objects
  PROVE  ((Surplus(s) * 500) \div Rated) % 65536 \in Nat
<1>0. Surplus(s) \in Nat
  BY DemandNumbers, Zenon
<1>1. Surplus(s) * 500 \in Nat
  BY <1>0
<1>2. Rated \in Nat /\ Rated > 0
  BY VolumeAssumption
<1>3. \A a \in Nat : a \div Rated \in Nat
  BY <1>2
<1>4. \A a \in Nat : a % 65536 \in Nat
  OBVIOUS
<1> QED BY <1>1, <1>3, <1>4

(* What no part of a control changes.  A request that is up to date stays.   *)
Steady(t, s) ==
    /\ t \in Objects
    /\ t.mode = s.mode /\ t.type = s.type /\ t.co2 = s.co2
    /\ t.target = s.target /\ t.acted = s.acted
    /\ s.request = s.target => t.request = s.request

(* Steady composes along the calls of a handler.                             *)
LEMMA SteadyTrans ==
  ASSUME NEW r, NEW s, NEW t, Steady(s, r), Steady(t, s) PROVE Steady(t, r)
  BY DEF Steady

(* Whoever changes commands and the frequency only is steady.                *)
LEMMA KeptSteady ==
  ASSUME NEW s, NEW t, Kept(t, s)
  PROVE  Steady(t, s)
  BY DEF Kept, Steady

(* The demand depends on the requested volume and on the fan type.           *)
LEMMA SameDemand ==
  ASSUME NEW s, NEW t, t.request = s.request, t.type = s.type
  PROVE  /\ OpenNum(t) = OpenNum(s) /\ Surplus(t) = Surplus(s)
         /\ RequestTime(t) = RequestTime(s) /\ RequestNum(t) = RequestNum(s)
<1>1. OpenNum(t) = OpenNum(s)
  BY DEF OpenNum
<1>2. Surplus(t) = Surplus(s)
  BY <1>1 DEF Surplus
<1>3. VarUsable(t) = VarUsable(s)
  BY DEF VarUsable
<1>4. RequestTime(t) = RequestTime(s)
  BY <1>2, <1>3 DEF RequestTime
<1> QED BY <1>1, <1>2, <1>3, <1>4 DEF RequestNum

(* Which fans are staged depends on the fan type and on the contacts.        *)
LEMMA SameFans ==
  ASSUME NEW s, NEW t, t.type = s.type
  PROVE  /\ VarUsable(t) = VarUsable(s) /\ Constants(t) = Constants(s)
         /\ Staged(t) = Staged(s) /\ Running(t) = Running(s)
<1>1. VarUsable(t) = VarUsable(s) /\ Constants(t) = Constants(s)
  BY DEF VarUsable, Constants
<1>2. Staged(t) = Staged(s)
  BY <1>1 DEF Staged
<1> QED BY <1>1, <1>2 DEF Running

(* ConstantSwitch changes commands, the frequency and the number             *)
(* remembered.                                                               *)
LEMMA SwitchType ==
  ASSUME NEW s \in Objects, NEW num \in 0..N
  PROVE  /\ Steady(ConstantSwitch(s, num), s)
         /\ ConstantSwitch(s, num).request = s.request
         /\ ConstantSwitch(s, num).varRequest = s.varRequest
         /\ ConstantSwitch(s, num).requestTmr = s.requestTmr
         /\ ConstantSwitch(s, num).ctrlTmr = s.ctrlTmr
<1> DEFINE t == Stage(s, num, num)
<1>1. Kept(t, s)
  BY StageKept
<1>2. ConstantSwitch(s, num) = IF s.mode # "AUTO" THEN s
                               ELSE [t EXCEPT !.lastNum = num]
  BY DEF ConstantSwitch
<1> HIDE DEF t
<1>3. ASSUME NEW u, u = [t EXCEPT !.lastNum = num]
      PROVE  /\ Steady(u, s) /\ u.request = s.request /\ u.varRequest = s.varRequest
             /\ u.requestTmr = s.requestTmr /\ u.ctrlTmr = s.ctrlTmr
  BY <1>1, <1>3 DEF Kept, Steady, Objects
<1>4. Steady(s, s)
  BY DEF Steady
<1> QED BY <1>2, <1>3, <1>4

(* AlwaysOpen changes commands and the frequency only, in every mode.        *)
LEMMA AlwaysOpenKept ==
  ASSUME NEW s \in Objects
  PROVE  Kept(AlwaysOpen(s), s)
<1>1. Kept(s, s)
  BY DEF Kept
<1> QED BY <1>1, StageKept DEF AlwaysOpen

(* Stopping the timers stops both and touches nothing else.                  *)
LEMMA StopTimersType ==
  ASSUME NEW s \in Objects
  PROVE  /\ Steady(StopTimers(s), s)
         /\ StopTimers(s).requestTmr = 0 /\ StopTimers(s).ctrlTmr = FALSE
         /\ StopTimers(s).cmd = s.cmd
  BY DEF StopTimers, Steady, Objects

(* Computing the request changes the requested volume only.                  *)
LEMMA RequestVolType ==
  ASSUME NEW s \in Objects
  PROVE  /\ Steady(RequestVol(s), s)
         /\ RequestVol(s).request = s.target
         /\ RequestVol(s).lastNum = s.lastNum
         /\ RequestVol(s).varRequest = s.varRequest
         /\ RequestVol(s).requestTmr = s.requestTmr
         /\ RequestVol(s).ctrlTmr = s.ctrlTmr
         /\ RequestVol(s).cmd = s.cmd
  BY DEF RequestVol, Steady, Objects

(* Setting the run time and the request of the variable fan.                 *)
LEMMA SetType ==
  ASSUME NEW s \in Objects, NEW time \in Nat, NEW b \in BOOLEAN
  PROVE  /\ [s EXCEPT !.requestTmr = time] \in Objects
         /\ [s EXCEPT !.varRequest = b] \in Objects
         /\ [s EXCEPT !.ctrlTmr = b] \in Objects
  BY DEF Objects

(* The periodic callback keeps the mode, the level acted on and its own      *)
(* timer.                                                                    *)
LEMMA CallbackType ==
  ASSUME NEW s \in Objects
  PROVE  /\ Steady(CtrlTmrCallback(s), s)
         /\ CtrlTmrCallback(s).ctrlTmr = s.ctrlTmr
<1> DEFINE t     == RequestVol(s)
           long  == RequestTime(t) >= LeastTime
           timed == [t EXCEPT !.requestTmr = RequestTime(t)]
           renew == t.requestTmr \notin {RequestTime(t)} \ {0}
           Good(u) == Steady(u, s) /\ u.ctrlTmr = s.ctrlTmr
<1>1. Good(s)
  BY DEF Steady
<1>2. Good(t)
  BY RequestVolType
<1> HIDE DEF t
<1>3. t \in Objects /\ RequestTime(t) \in Nat /\ RequestNum(t) \in 0..N
  BY <1>2, DemandNumbers DEF Steady
<1>4. Good(timed)
  <2>1. timed \in Objects
    BY <1>3, SetType
  <2> QED BY <1>2, <1>3, <2>1 DEF Steady, Objects
<1>5. ASSUME NEW u, Good(u), NEW b \in BOOLEAN
      PROVE  Good([u EXCEPT !.varRequest = b])
  <2>1. u \in Objects
    BY <1>5 DEF Steady
  <2>2. [u EXCEPT !.varRequest = b] \in Objects
    BY <2>1, SetType
  <2> QED BY <1>5, <2>1, <2>2 DEF Steady, Objects
<1>6. ASSUME NEW u, Good(u)
      PROVE  /\ Good(Adjust(Open(u, {Variate}), MinFreq))
             /\ Good(Close(u, {Variate}))
  <2>1. u \in Objects
    BY <1>6 DEF Steady
  <2>2. Kept(Open(u, {Variate}), u) /\ Kept(Close(u, {Variate}), u)
    BY <2>1, OpenKept, CloseKept
  <2>3. Open(u, {Variate}) \in Objects
    BY <2>2 DEF Kept
  <2>4. Kept(Adjust(Open(u, {Variate}), MinFreq), u)
    BY <2>2, <2>3, AdjustKept, KeptTrans, ParamAssumption
  <2>5. ASSUME NEW v, Kept(v, u) PROVE Good(v)
    <3>1. v.ctrlTmr = u.ctrlTmr
      BY <2>5 DEF Kept
    <3> QED BY <1>6, <2>5, <3>1, KeptSteady, SteadyTrans
  <2> QED BY <2>2, <2>4, <2>5
<1>7. Good(ConstantSwitch(timed, RequestNum(t)))
  <2>1. timed \in Objects
    BY <1>4 DEF Steady
  <2> HIDE DEF timed
  <2>2. /\ Steady(ConstantSwitch(timed, RequestNum(t)), timed)
        /\ ConstantSwitch(timed, RequestNum(t)).ctrlTmr = timed.ctrlTmr
    BY <1>3, <2>1, SwitchType
  <2> QED BY <1>4, <2>2, SteadyTrans
<1> DEFINE opened == Adjust(Open([timed EXCEPT !.varRequest = TRUE], {Variate}),
                            MinFreq)
           closed == Close([t EXCEPT !.varRequest = FALSE], {Variate})
           switched == ConstantSwitch(timed, RequestNum(t))
<1>8. Good(opened) /\ Good(closed)
  BY <1>2, <1>4, <1>5, <1>6
<1>9. CtrlTmrCallback(s) \in {s, opened, closed, switched, t}
  <2> DEFINE c == CtrlTmrCallback(s)
  <2>1. CASE s.mode # "AUTO"
    BY <2>1 DEF CtrlTmrCallback
  <2>2. CASE s.mode = "AUTO" /\ VarUsable(s) /\ long
    BY <2>2 DEF CtrlTmrCallback, t
  <2>3. CASE s.mode = "AUTO" /\ VarUsable(s) /\ ~long
    BY <2>3 DEF CtrlTmrCallback, t
  <2>4. CASE s.mode = "AUTO" /\ ~VarUsable(s)
    BY <2>4 DEF CtrlTmrCallback, t
  <2> QED BY <2>1, <2>2, <2>3, <2>4
<1> HIDE DEF opened, closed, switched, Good
<1>10. Good(CtrlTmrCallback(s))
  BY <1>1, <1>2, <1>7, <1>8, <1>9 DEF switched
<1> QED BY <1>10 DEF Good

(* After the tail of a control the periodic timer runs.                      *)
LEMMA PeriodicType ==
  ASSUME NEW s \in Objects
  PROVE  Steady(Periodic(s), s) /\ Periodic(s).ctrlTmr = TRUE
<1> DEFINE t == IF s.requestTmr > 0 THEN ConstantSwitch(s, RequestNum(s)) ELSE s
<1>1. Steady(t, s)
  <2>1. Steady(s, s)
    BY DEF Steady
  <2> QED BY <2>1, DemandNumbers, SwitchType
<1>2. Periodic(s) = IF ~t.ctrlTmr \/ t.lastNum # RequestNum(t)
                    THEN [CtrlTmrCallback(t) EXCEPT !.ctrlTmr = TRUE] ELSE t
  BY DEF Periodic
<1> HIDE DEF t
<1>3. t \in Objects
  BY <1>1 DEF Steady
<1>4. CASE ~t.ctrlTmr \/ t.lastNum # RequestNum(t)
  <2> DEFINE c == CtrlTmrCallback(t)
  <2>1. Steady(c, t)
    BY <1>3, CallbackType
  <2> HIDE DEF c
  <2>2. c \in Objects
    BY <2>1 DEF Steady
  <2>3. ASSUME NEW d, d = [c EXCEPT !.ctrlTmr = TRUE]
        PROVE  Steady(d, c) /\ d.ctrlTmr = TRUE
    BY <2>2, <2>3 DEF Steady, Objects
  <2> QED BY <1>1, <1>2, <1>4, <2>1, <2>3, SteadyTrans DEF c
<1>5. CASE ~(~t.ctrlTmr \/ t.lastNum # RequestNum(t))
  <2>1. t.ctrlTmr \in BOOLEAN
    BY <1>3 DEF Objects
  <2> QED BY <1>1, <1>2, <1>5, <2>1
<1> QED BY <1>4, <1>5

(* Requesting and opening the variable fan.                                  *)
LEMMA VariateType ==
  ASSUME NEW s \in Objects, NEW f \in Nat
  PROVE  Steady(Adjust(Open([s EXCEPT !.varRequest = TRUE], {Variate}), f), s)
<1>1. ASSUME NEW t, t = [s EXCEPT !.varRequest = TRUE]
      PROVE  Steady(t, s) /\ t \in Objects
  BY <1>1 DEF Steady, Objects
<1>2. ASSUME NEW t \in Objects
      PROVE  Steady(Adjust(Open(t, {Variate}), f), t)
  <2>1. Kept(Open(t, {Variate}), t)
    BY OpenKept
  <2>2. Open(t, {Variate}) \in Objects
    BY <2>1 DEF Kept
  <2>3. Kept(Adjust(Open(t, {Variate}), f), Open(t, {Variate}))
    BY <2>2, AdjustKept
  <2> QED BY <2>1, <2>3, KeptTrans, KeptSteady
<1> QED BY <1>1, <1>2, SteadyTrans

(* The control on a low concentration: either the timers are both stopped or *)
(* the periodic one runs.                                                    *)
TimersOff(s) == s.requestTmr = 0 /\ s.ctrlTmr = FALSE

(* The control of a plant without a usable variable fan leaves the periodic  *)
(* timer running.                                                            *)
LEMMA ConstantCtrlType ==
  ASSUME NEW s \in Objects, s.mode = "AUTO"
  PROVE  Steady(ConstantCtrl(s), s) /\ ConstantCtrl(s).ctrlTmr = TRUE
<1>1. Kept(AlwaysOpen(s), s)
  BY AlwaysOpenKept
<1>2. AlwaysOpen(s) \in Objects
  BY <1>1 DEF Kept
<1>3. /\ Steady(Periodic(AlwaysOpen(s)), AlwaysOpen(s))
      /\ Periodic(AlwaysOpen(s)).ctrlTmr = TRUE
  BY <1>2, PeriodicType
<1> QED BY <1>1, <1>3, KeptSteady, SteadyTrans DEF ConstantCtrl

(* The control with a variable fan either stops both timers or leaves the    *)
(* periodic one running, and never one without the other.                    *)
LEMMA BothCtrlType ==
  ASSUME NEW s \in Objects
  PROVE  /\ Steady(BothCtrl(s), s)
         /\ TimersOff(BothCtrl(s)) \/ BothCtrl(s).ctrlTmr = TRUE
<1> DEFINE t == AlwaysOpen(s)
           freq == ((Surplus(s) * 500) \div Rated) % 65536
           v == IF freq >= MinFreq
                THEN Adjust(Open([t EXCEPT !.varRequest = TRUE], {Variate}), freq)
                ELSE t
<1>1. Kept(t, s)
  BY AlwaysOpenKept
<1>2. freq \in Nat
  BY SurplusFreq
<1>3. BothCtrl(s) = IF Surplus(s) >= (MinFreq * Rated) \div 500
                    THEN StopTimers(v) ELSE Periodic(t)
  BY DEF BothCtrl
<1> HIDE DEF t, freq
<1>4. t \in Objects /\ Steady(t, s) /\ Steady(t, t)
  BY <1>1, KeptSteady DEF Kept, Steady
<1>5. Steady(v, t)
  BY <1>2, <1>4, VariateType
<1> HIDE DEF v
<1>6. v \in Objects /\ Steady(v, s)
  BY <1>4, <1>5, SteadyTrans DEF Steady
<1>7. Steady(StopTimers(v), s) /\ TimersOff(StopTimers(v))
  BY <1>6, StopTimersType, SteadyTrans DEF TimersOff
<1>8. Steady(Periodic(t), s) /\ Periodic(t).ctrlTmr = TRUE
  BY <1>4, PeriodicType, SteadyTrans
<1> QED BY <1>3, <1>7, <1>8

(* Opening all fans keeps the mode and the level acted on.                   *)
LEMMA AllFansType ==
  ASSUME NEW s \in Objects
  PROVE  Steady(AllFans(s), s)
<1>1. N \in 0..N /\ N - 1 \in 0..N /\ MaxFreq \in Nat
  BY FansAssumption, ParamAssumption
<1>2. Steady(ConstantSwitch(s, N), s) /\ Steady(ConstantSwitch(s, N - 1), s)
  BY <1>1, SwitchType
<1> DEFINE t == ConstantSwitch(s, N - 1)
           a == Adjust(Open([t EXCEPT !.varRequest = TRUE], {Variate}), MaxFreq)
<1>3. AllFans(s) = IF VarUsable(s) THEN a ELSE ConstantSwitch(s, N)
  BY DEF AllFans
<1>4. Steady(t, s)
  BY <1>2
<1> HIDE DEF t
<1>5. t \in Objects
  BY <1>4 DEF Steady
<1>6. Steady(a, t)
  BY <1>1, <1>5, VariateType
<1> HIDE DEF a
<1> QED BY <1>2, <1>3, <1>4, <1>6, SteadyTrans

(* StagingInv without the types, of one object.                              *)
Sound(s) ==
    /\ s.mode = "CLOSE" \/ s.acted = "HIGH" => ~s.ctrlTmr
    /\ s.requestTmr > 0 => s.ctrlTmr
    /\ s.acted # "NONE" => s.mode = "AUTO"

(* The invariant holds of the object whenever it is sound.                   *)
LEMMA SoundInv == StagingInv <=> StagingTypeOK /\ Sound(sys)
  BY DEF StagingInv, TimersMatch, ActedInAuto, Sound

(* A control of the fans, in every mode and at every CO2 level, leaves the   *)
(* timers matched.                                                           *)
LEMMA ExAirFanCtrlType ==
  ASSUME NEW s \in Objects, Sound(s)
  PROVE  ExAirFanCtrl(s) \in Objects /\ Sound(ExAirFanCtrl(s))
<1>1. CASE s.mode # "AUTO" \/ s.co2 = "BAND"
  BY <1>1 DEF ExAirFanCtrl
<1>2. CASE s.mode = "AUTO" /\ s.co2 = "HIGH"
  <2> DEFINE t == [s EXCEPT !.acted = "HIGH"]
  <2>1. t \in Objects /\ t.mode = "AUTO"
    BY <1>2 DEF Objects, Levels
  <2>2. ExAirFanCtrl(s) = StopTimers(AllFans(t))
    BY <1>2 DEF ExAirFanCtrl
  <2> HIDE DEF t
  <2>3. AllFans(t) \in Objects /\ AllFans(t).mode = "AUTO"
    BY <2>1, AllFansType DEF Steady
  <2>4. /\ StopTimers(AllFans(t)) \in Objects
        /\ StopTimers(AllFans(t)).mode = "AUTO"
        /\ TimersOff(StopTimers(AllFans(t)))
    BY <2>3, StopTimersType DEF Steady, TimersOff
  <2> QED BY <2>2, <2>4 DEF TimersOff, Sound
<1>3. CASE s.mode = "AUTO" /\ s.co2 = "LOW"
  <2> DEFINE r == [s EXCEPT !.acted = "LOW"]
             t == RequestVol(r)
             c == IF VarUsable(t) THEN BothCtrl(t) ELSE ConstantCtrl(t)
  <2>1. r \in Objects /\ r.mode = "AUTO" /\ r.acted = "LOW"
    BY <1>3 DEF Objects, Levels
  <2>2. ExAirFanCtrl(s) = c
    BY <1>3 DEF ExAirFanCtrl
  <2> HIDE DEF r
  <2>3. t \in Objects /\ t.mode = "AUTO" /\ t.acted = "LOW"
    BY <2>1, RequestVolType DEF Steady
  <2> HIDE DEF t
  <2>4. Steady(c, t) /\ (TimersOff(c) \/ c.ctrlTmr = TRUE)
    BY <2>3, BothCtrlType, ConstantCtrlType
  <2> HIDE DEF c
  <2> QED BY <2>2, <2>3, <2>4 DEF Steady, TimersOff, Sound
<1>4. s.co2 \in {"LOW", "BAND", "HIGH"}
  BY DEF Objects, Levels
<1> QED BY <1>1, <1>2, <1>3, <1>4

(* So does a new exhaust volume, whether or not it runs the control.         *)
LEMMA ExAirSetVolType ==
  ASSUME NEW s \in Objects, Sound(s)
  PROVE  ExAirSetVol(s) \in Objects /\ Sound(ExAirSetVol(s))
<1>1. RequestVol(s) \in Objects /\ Sound(RequestVol(s))
  BY RequestVolType DEF Steady, Sound
<1> QED BY <1>1, ExAirFanCtrlType DEF ExAirSetVol

(* The object that vSystem_InitDefaultData leaves satisfies the invariant.   *)
LEMMA StagingInitInv == StagingInit => StagingInv
<1> SUFFICES ASSUME StagingInit PROVE StagingInv
  OBVIOUS
<1>1. PICK t \in Types, v \in Volumes :
        sys = [mode |-> "CLOSE", type |-> t, co2 |-> "LOW", target |-> v,
               request |-> 0, lastNum |-> 0, varRequest |-> FALSE,
               freq |-> MinFreq, requestTmr |-> 0, ctrlTmr |-> FALSE,
               cmd |-> [f \in Fans |-> FALSE], acted |-> "NONE"]
  BY DEF StagingInit
<1>2. sys \in Objects
  <2>1. 0 \in 0..N
    BY FansAssumption
  <2> QED BY <1>1, <2>1, ParamAssumption DEF Objects, Modes, Levels
<1>3. usable \in [Fans -> BOOLEAN] /\ runs \in [Fans -> BOOLEAN]
  BY DEF StagingInit
<1>4. sys.requestTmr = 0 /\ sys.ctrlTmr = FALSE
  BY <1>1
<1>5. sys.acted = "NONE"
  BY <1>1
<1> QED BY <1>2, <1>3, <1>4, <1>5
        DEF StagingInv, StagingTypeOK, TimersMatch, ActedInAuto

(* The periodic callback starts the surplus timer only under its own.        *)
LEMMA CtrlTmrKeepsTimers ==
  ASSUME NEW s \in Objects, Sound(s), s.ctrlTmr
  PROVE  CtrlTmrCallback(s) \in Objects /\ Sound(CtrlTmrCallback(s))
  BY CallbackType DEF Steady, Sound

(* A handler that yields a well-typed object with matched timers preserves   *)
(* the invariant: it leaves the contacts alone.                              *)
LEMMA HandleInv ==
  ASSUME StagingTypeOK, NEW s \in Objects, Sound(s), Handle(s)
  PROVE  StagingInv'
  BY DEF StagingTypeOK, StagingInv, TimersMatch, ActedInAuto, Sound, Handle

(* Every handler, callback and change of the plant preserves StagingInv.     *)
LEMMA StagingStep == StagingInv /\ [StagingNext]_stagingVars => StagingInv'
<1> SUFFICES ASSUME StagingInv, [StagingNext]_stagingVars PROVE StagingInv'
  OBVIOUS
<1>0. StagingTypeOK /\ sys \in Objects /\ Sound(sys)
  BY SoundInv DEF StagingTypeOK
<1>1. ASSUME NEW m \in Modes, ChangeSystemMode(m) PROVE StagingInv'
  <2> DEFINE s == [sys EXCEPT !.mode = m, !.acted = "NONE"]
  <2>1. /\ s \in Objects /\ s.requestTmr = sys.requestTmr
        /\ s.ctrlTmr = sys.ctrlTmr /\ s.mode = m /\ s.acted = "NONE"
    BY <1>0 DEF Objects
  <2>2. Handle(CASE m = "AUTO"   -> ExAirFanCtrl(s)
                 [] m = "CLOSE"  -> CloseExAirFans(s)
                 [] m = "MANUAL" -> s)
    BY <1>1 DEF ChangeSystemMode
  <2> HIDE DEF s
  <2>3. CASE m = "AUTO"
    <3>1. Sound(s)
      BY <1>0, <2>1, <2>3 DEF Sound
    <3>2. Handle(ExAirFanCtrl(s))
      BY <2>2, <2>3
    <3> QED BY <1>0, <2>1, <3>1, <3>2, ExAirFanCtrlType, HandleInv
  <2>4. CASE m = "CLOSE"
    <3>1. Handle(CloseExAirFans(s))
      BY <2>2, <2>4
    <3>2. Close(s, Fans) \in Objects /\ Close(s, Fans).acted = "NONE"
      BY <2>1, CloseKept DEF Kept
    <3>3. /\ CloseExAirFans(s) \in Objects /\ TimersOff(CloseExAirFans(s))
          /\ CloseExAirFans(s).acted = "NONE"
      BY <3>2, StopTimersType DEF CloseExAirFans, Steady, TimersOff
    <3>4. Sound(CloseExAirFans(s))
      BY <3>3 DEF TimersOff, Sound
    <3> QED BY <1>0, <3>1, <3>3, <3>4, HandleInv
  <2>5. CASE m = "MANUAL"
    <3>1. Sound(s)
      BY <1>0, <2>1, <2>5 DEF Sound
    <3>2. Handle(s)
      BY <2>2, <2>5
    <3> QED BY <1>0, <2>1, <3>1, <3>2, HandleInv
  <2> QED BY <2>3, <2>4, <2>5 DEF Modes
<1>2. ASSUME NEW c \in Levels, CO2PPM(c) PROVE StagingInv'
  <2> DEFINE s == [sys EXCEPT !.co2 = c]
  <2>1. s \in Objects /\ Sound(s)
    BY <1>0 DEF Objects, Sound
  <2> HIDE DEF s
  <2>2. Handle(ExAirFanCtrl(s))
    BY <1>2 DEF CO2PPM, s
  <2> QED BY <1>0, <2>1, <2>2, ExAirFanCtrlType, HandleInv
<1>3. ASSUME NEW c \in Levels, SetCO2AdjustDeviat(c) PROVE StagingInv'
  <2>1. [sys EXCEPT !.co2 = c] \in Objects /\ Sound([sys EXCEPT !.co2 = c])
    BY <1>0 DEF Objects, Sound
  <2> QED BY <1>0, <1>3, <2>1, HandleInv DEF SetCO2AdjustDeviat
<1>4. ASSUME NEW v \in Volumes
      PROVE  SetFreAir(v) \/ RunningModeChanges(v) => StagingInv'
  <2>1. /\ [sys EXCEPT !.target = v] \in Objects
        /\ Sound([sys EXCEPT !.target = v])
    BY <1>0 DEF Objects, Sound
  <2> QED BY <1>0, <2>1, ExAirSetVolType, HandleInv
          DEF SetFreAir, RunningModeChanges
<1>5. ASSUME NEW t \in Types, ChangeExAirFanType(t) PROVE StagingInv'
  <2>1. [sys EXCEPT !.type = t] \in Objects /\ Sound([sys EXCEPT !.type = t])
    BY <1>0 DEF Objects, Sound
  <2> QED BY <1>0, <1>5, <2>1, HandleInv DEF ChangeExAirFanType
<1>6. CASE FanUsabilityChanged
  <2>1. PICK m \in {sys.mode} \cup {"MANUAL"} :
          Handle(ExAirFanCtrl([sys EXCEPT !.mode = m,
                                   !.acted = IF m = "AUTO" THEN @ ELSE "NONE"]))
    BY <1>6 DEF FanUsabilityChanged
  <2> DEFINE s == [sys EXCEPT !.mode = m, !.acted = IF m = "AUTO" THEN @ ELSE "NONE"]
  <2>2. s \in Objects /\ Sound(s)
    <3>1. s \in Objects
      BY <1>0 DEF Objects, Modes
    <3> QED BY <1>0, <3>1 DEF Objects, Sound
  <2> HIDE DEF s
  <2>3. Handle(ExAirFanCtrl(s))
    BY <2>1 DEF s
  <2> QED BY <1>0, <2>2, <2>3, ExAirFanCtrlType, HandleInv
<1>7. CASE ExAirFanCtrlTmr
  BY <1>0, <1>7, CtrlTmrKeepsTimers, HandleInv DEF ExAirFanCtrlTmr
<1>8. CASE ExAirFanRequestTimeTmr
  <2> DEFINE s == [sys EXCEPT !.requestTmr = 0]
             u == [s EXCEPT !.varRequest = FALSE]
             r == IF s.mode # "AUTO" THEN s
                  ELSE IF VarUsable(s) THEN Close(u, {Variate})
                  ELSE Close(s, LongestFan(s))
  <2>1. s \in Objects /\ Sound(s)
    BY <1>0 DEF Objects, Sound
  <2>2. Handle(r)
    BY <1>8 DEF ExAirFanRequestTimeTmr
  <2> HIDE DEF s
  <2>3. u \in Objects /\ Sound(u)
    BY <2>1 DEF Objects, Sound
  <2> HIDE DEF u
  <2>4. ASSUME NEW t \in Objects, Sound(t), NEW F
        PROVE  Close(t, F) \in Objects /\ Sound(Close(t, F))
    <3>1. Kept(Close(t, F), t)
      BY CloseKept
    <3> QED BY <2>4, <3>1 DEF Kept, Sound
  <2>5. r \in {s, Close(u, {Variate}), Close(s, LongestFan(s))}
    OBVIOUS
  <2> HIDE DEF r
  <2>6. r \in Objects /\ Sound(r)
    BY <2>1, <2>3, <2>4, <2>5
  <2> QED BY <1>0, <2>2, <2>6, HandleInv
<1>9. ASSUME NEW f \in Fans, FanTimeoutInd(f) PROVE StagingInv'
  <2>1. [sys EXCEPT !.cmd[f] = FALSE] \in Objects
    BY <1>0 DEF Objects
  <2>2. Sound([sys EXCEPT !.cmd[f] = FALSE])
    BY <1>0 DEF Objects, Sound
  <2> QED BY <1>0, <1>9, <2>1, <2>2, HandleInv DEF FanTimeoutInd
<1>10. ASSUME NEW f \in Fans, Contact(f) PROVE StagingInv'
  <2> DEFINE m == IF sys.mode = "CLOSE" /\ (\E g \in Fans : runs'[g])
                  THEN "MANUAL" ELSE sys.mode
             b == IF usable[f] THEN ~runs[f] ELSE sys.cmd[f]
  <2>1. m \in Modes /\ m \in {"MANUAL", sys.mode}
        /\ (sys.mode # "CLOSE" => m = sys.mode)
    BY <1>0 DEF Objects, Modes
  <2>2. b \in BOOLEAN
    BY <1>0 DEF Objects, StagingTypeOK
  <2>3. sys' = [sys EXCEPT !.cmd[f] = b, !.mode = m]
    BY <1>10 DEF Contact
  <2> HIDE DEF m, b
  <2>4. sys' \in Objects /\ Sound(sys')
    <3>1. sys' \in Objects
      BY <1>0, <2>1, <2>2, <2>3 DEF Objects
    <3>2. /\ sys'.mode = m /\ sys'.acted = sys.acted
          /\ sys'.ctrlTmr = sys.ctrlTmr /\ sys'.requestTmr = sys.requestTmr
      BY <1>0, <2>3 DEF Objects
    <3> QED BY <1>0, <2>1, <3>1, <3>2 DEF Sound
  <2>5. usable' \in [Fans -> BOOLEAN] /\ runs' \in [Fans -> BOOLEAN]
    BY <1>0, <1>10 DEF StagingTypeOK, Contact
  <2> QED BY <2>4, <2>5
          DEF StagingInv, StagingTypeOK, TimersMatch, ActedInAuto, Sound
<1>11. ASSUME NEW f \in Fans, NEW cmd \in BOOLEAN, BMSWriteCoil(f, cmd)
       PROVE  StagingInv'
  <2>1. [sys EXCEPT !.cmd[f] = cmd] \in Objects
    BY <1>0 DEF Objects
  <2>2. Sound([sys EXCEPT !.cmd[f] = cmd])
    BY <1>0 DEF Objects, Sound
  <2> QED BY <1>0, <1>11, <2>1, <2>2, HandleInv DEF BMSWriteCoil
<1>12. ASSUME NEW f \in Fans, ServiceChanges(f) PROVE StagingInv'
  BY <1>12 DEF ServiceChanges, StagingInv, StagingTypeOK, TimersMatch, ActedInAuto
<1>13. CASE UNCHANGED stagingVars
  BY <1>13 DEF stagingVars, StagingInv, StagingTypeOK, TimersMatch, ActedInAuto
<1> QED
  BY <1>1, <1>2, <1>3, <1>4, <1>5, <1>6, <1>7, <1>8, <1>9, <1>10, <1>11, <1>12,
     <1>13 DEF StagingNext

(* StagingInv is inductive as it stands: neither timer outlives a closing    *)
(* of the group or a full opening, and the timer that ends a surplus run     *)
(* never runs without the periodic one, for any number of fans, volumes,     *)
(* frequencies and times.                                                    *)
THEOREM StagingInvariant == StagingSpec => []StagingInv
  BY StagingInitInv, StagingStep, PTL DEF StagingSpec

-----------------------------------------------------------------------------
(* Staging: choosing fans by their running hours.                            *)

(* A strict linear order of the fans, as a set of pairs; the fans of F that  *)
(* come before f, and the first k fans of F in that order.                   *)
Linear(R) ==
    /\ \A f \in Fans : <<f, f>> \notin R
    /\ \A f, g, h \in Fans : <<f, g>> \in R /\ <<g, h>> \in R => <<f, h>> \in R
    /\ \A f, g \in Fans : f = g \/ <<f, g>> \in R \/ <<g, f>> \in R

Below(R, F, f) == {g \in F : <<g, f>> \in R}
First(R, F, k) == {f \in F : Cardinality(Below(R, F, f)) < k}

(* Sets of fans are finite.                                                  *)
LEMMA FanSets ==
  ASSUME NEW F \in SUBSET Fans
  PROVE  IsFiniteSet(F) /\ Cardinality(F) \in Nat
<1>1. IsFiniteSet(Fans)
  BY FS_Interval, FansAssumption DEF Fans
<1> QED BY <1>1, FS_Subset, FS_CardinalityType

(* A part of a set of fans has at most as many, and fewer unless it is all.  *)
LEMMA SmallerSet ==
  ASSUME NEW F \in SUBSET Fans, NEW G \in SUBSET F
  PROVE  /\ Cardinality(G) \in Nat /\ Cardinality(F) \in Nat
         /\ Cardinality(G) <= Cardinality(F)
         /\ G # F => Cardinality(G) < Cardinality(F)
<1>1. IsFiniteSet(F) /\ Cardinality(F) \in Nat
  BY FanSets
<1>2. IsFiniteSet(G) /\ Cardinality(G) \in Nat
  BY FanSets
<1>3. Cardinality(G) <= Cardinality(F) /\ (Cardinality(F) = Cardinality(G) => F = G)
  BY <1>1, FS_Subset
<1> QED BY <1>1, <1>2, <1>3

(* Every non-empty set of fans has a first one: the fan with the fewest      *)
(* fans of the set before it.                                                *)
LEMMA LeastFan ==
  ASSUME NEW R, Linear(R), NEW T \in SUBSET Fans, T # {}
  PROVE  \E m \in T : \A g \in T \ {m} : <<m, g>> \in R
<1> DEFINE C == {Cardinality(Below(R, T, m)) : m \in T}
<1>1. \A m \in T : Below(R, T, m) \in SUBSET Fans /\ Cardinality(Below(R, T, m)) \in Nat
  BY FanSets DEF Below
<1>2. C \subseteq Nat /\ C # {}
  BY <1>1
<1>3. PICK x \in C : \A y \in C : ~(<<y, x>> \in OpToRel(<, Nat))
  <2>1. IsWellFoundedOn(OpToRel(<, Nat), Nat)
    BY NatLessThanWellFounded
  <2> HIDE DEF C
  <2> QED BY <1>2, <2>1, WFMin
<1>4. \A y \in C : ~(y < x)
  BY <1>2, <1>3 DEF OpToRel
<1>5. PICK m \in T : x = Cardinality(Below(R, T, m))
  BY <1>3
<1>6. ASSUME NEW g \in T \ {m} PROVE <<m, g>> \in R
  <2>1. SUFFICES ASSUME <<g, m>> \in R PROVE FALSE
    BY DEF Linear
  <2>2. Below(R, T, g) \in SUBSET Below(R, T, m)
    BY <2>1 DEF Below, Linear
  <2>3. g \in Below(R, T, m) /\ g \notin Below(R, T, g)
    BY <2>1 DEF Below, Linear
  <2>4. Cardinality(Below(R, T, g)) < Cardinality(Below(R, T, m))
    BY <1>1, <2>2, <2>3, SmallerSet
  <2>5. Cardinality(Below(R, T, g)) \in C
    OBVIOUS
  <2> QED BY <1>4, <1>5, <2>4, <2>5
<1> QED BY <1>6

Sized(R, F, k) ==
    \/ Cardinality(First(R, F, k)) = k
    \/ First(R, F, k) = F /\ Cardinality(F) <= k

(* The first k + 1 fans are the first k and the first of the others.         *)
LEMMA FirstSizeStep ==
  ASSUME NEW R, Linear(R), NEW F \in SUBSET Fans, NEW k \in Nat, Sized(R, F, k)
  PROVE  Sized(R, F, k + 1)
<1> DEFINE S == First(R, F, k)
           B(f) == Below(R, F, f)
<1>1. /\ S \in SUBSET F /\ Cardinality(S) \in Nat /\ Cardinality(F) \in Nat
      /\ IsFiniteSet(S)
  BY FanSets, SmallerSet DEF First
<1>2. \A f \in F : B(f) \in SUBSET F /\ Cardinality(B(f)) \in Nat
  BY SmallerSet DEF Below
<1>3. S \subseteq First(R, F, k + 1)
  BY <1>2 DEF First
<1>4. CASE S = F
  <2>1. First(R, F, k + 1) = F
    BY <1>3, <1>4 DEF First
  <2>2. Cardinality(F) <= k
    BY <1>1, <1>4 DEF Sized
  <2> QED BY <1>1, <2>1, <2>2 DEF Sized
<1>5. CASE S # F
  <2>1. Cardinality(S) = k
    BY <1>5 DEF Sized
  <2>2. PICK m \in F \ S : \A g \in (F \ S) \ {m} : <<m, g>> \in R
    <3> DEFINE T == F \ S
    <3>1. T \in SUBSET Fans /\ T # {}
      BY <1>1, <1>5
    <3> HIDE DEF T
    <3>2. \E n \in T : \A g \in T \ {n} : <<n, g>> \in R
      BY <3>1, LeastFan
    <3> QED BY <3>2 DEF T
  <2>3. ASSUME NEW g \in S, NEW h \in F \ S PROVE <<g, h>> \in R
    <3>1. SUFFICES ASSUME <<h, g>> \in R PROVE FALSE
      BY <1>1 DEF Linear
    <3>2. B(h) \in SUBSET B(g)
      BY <1>1, <3>1 DEF Below, Linear
    <3>3. Cardinality(B(h)) <= Cardinality(B(g))
      BY <1>1, <1>2, <3>2, SmallerSet
    <3>4. Cardinality(B(g)) < k /\ ~(Cardinality(B(h)) < k)
      BY <1>1 DEF First
    <3> QED BY <1>1, <1>2, <3>3, <3>4
  <2>4. B(m) = S
    <3>1. \A g \in F \ S : <<g, m>> \notin R
      BY <2>2 DEF Linear
    <3> QED BY <1>1, <2>2, <2>3, <3>1 DEF Below
  <2>5. m \in First(R, F, k + 1)
    BY <2>1, <2>2, <2>4 DEF First
  <2>6. ASSUME NEW h \in (F \ S) \ {m} PROVE h \notin First(R, F, k + 1)
    <3>1. S \cup {m} \in SUBSET B(h)
      BY <1>1, <2>2, <2>3 DEF Below
    <3>2. Cardinality(S \cup {m}) = k + 1
      BY <1>1, <2>1, <2>2, FS_AddElement
    <3>3. Cardinality(S \cup {m}) <= Cardinality(B(h))
      BY <1>2, <3>1, SmallerSet
    <3> QED BY <1>2, <3>2, <3>3 DEF First
  <2>7. First(R, F, k + 1) = S \cup {m}
    BY <1>1, <1>3, <2>2, <2>5, <2>6 DEF First
  <2>8. Cardinality(S \cup {m}) = k + 1
    BY <1>1, <2>1, <2>2, FS_AddElement
  <2> QED BY <2>7, <2>8 DEF Sized
<1> QED BY <1>4, <1>5

(* The first k fans of F number k, or are all of F.  By the least k that     *)
(* fails.                                                                    *)
LEMMA FirstSize ==
  ASSUME NEW R, Linear(R), NEW F \in SUBSET Fans, NEW k \in Nat
  PROVE  Sized(R, F, k)
<1> DEFINE Bad == {n \in Nat : ~Sized(R, F, n)}
<1> SUFFICES ASSUME Bad # {} PROVE FALSE
  OBVIOUS
<1>1. PICK x \in Bad : \A y \in Bad : ~(<<y, x>> \in OpToRel(<, Nat))
  <2>1. IsWellFoundedOn(OpToRel(<, Nat), Nat)
    BY NatLessThanWellFounded
  <2>2. Bad \subseteq Nat
    OBVIOUS
  <2> HIDE DEF Bad
  <2> QED BY <2>1, <2>2, WFMin
<1>2. x \in Nat /\ \A y \in Bad : ~(y < x)
  BY <1>1 DEF OpToRel
<1>3. x # 0
  <2>1. First(R, F, 0) = {}
    <3>1. \A f \in F : Cardinality(Below(R, F, f)) \in Nat
      BY SmallerSet DEF Below
    <3> QED BY <3>1 DEF First
  <2>2. Sized(R, F, 0)
    BY <2>1, FS_EmptySet DEF Sized
  <2> QED BY <2>2
<1>4. x - 1 \in Nat /\ Sized(R, F, x - 1)
  BY <1>2, <1>3
<1>5. Sized(R, F, (x - 1) + 1)
  BY <1>4, FirstSizeStep
<1>6. (x - 1) + 1 = x
  BY <1>2
<1> QED BY <1>5, <1>6

(* The order of the bubble sort, and its reverse, are linear: no two fans    *)
(* tie.                                                                      *)
LEMMA BeforeLinear ==
  /\ Linear({p \in Fans \X Fans : Before(p[1], p[2])})
  /\ Linear({p \in Fans \X Fans : Before(p[2], p[1])})
<1>1. \A f \in Fans : f \in Int /\ Hours[f] \in Int
  BY FansAssumption, ParamAssumption DEF Fans
<1>2. \A f \in Fans : ~Before(f, f)
  BY <1>1 DEF Before
<1>3. \A f, g, h \in Fans : Before(f, g) /\ Before(g, h) => Before(f, h)
  BY <1>1 DEF Before
<1>4. \A f, g \in Fans : f = g \/ Before(f, g) \/ Before(g, f)
  BY <1>1 DEF Before
<1> QED BY <1>2, <1>3, <1>4 DEF Linear

(* Choosing k fans by their running hours yields k fans, or all there are,   *)
(* although fans may have equal hours.                                       *)
THEOREM ShortestSize ==
  ASSUME NEW F \in SUBSET Fans, NEW k \in Nat
  PROVE  /\ Shortest(F, k) \in SUBSET F /\ Longest(F, k) \in SUBSET F
         /\ \/ Cardinality(Shortest(F, k)) = k
            \/ Shortest(F, k) = F /\ Cardinality(F) <= k
         /\ \/ Cardinality(Longest(F, k)) = k
            \/ Longest(F, k) = F /\ Cardinality(F) <= k
<1> DEFINE R == {p \in Fans \X Fans : Before(p[1], p[2])}
           Q == {p \in Fans \X Fans : Before(p[2], p[1])}
<1>1. \A f \in F : /\ {g \in F : Before(g, f)} = Below(R, F, f)
                   /\ {g \in F : Before(f, g)} = Below(Q, F, f)
  BY DEF Below
<1>2. Shortest(F, k) = First(R, F, k) /\ Longest(F, k) = First(Q, F, k)
  BY <1>1 DEF Shortest, Longest, First
<1>3. Linear(R) /\ Linear(Q)
  BY BeforeLinear
<1> HIDE DEF R, Q
<1>4. Sized(R, F, k) /\ Sized(Q, F, k)
  BY <1>3, FirstSize
<1> QED BY <1>2, <1>4 DEF Sized, First

-----------------------------------------------------------------------------
(* Staging: the commands a control leaves on a low concentration.            *)

(* The commanded fans among the usable constant ones.                        *)
On(s) == {f \in Staged(s) : s.cmd[f]}

(* The staged fans are usable, and the variable fan is not one of them.      *)
LEMMA StagedFans ==
  ASSUME StagingTypeOK, NEW s \in Objects
  PROVE  /\ Staged(s) \in SUBSET Fans /\ Running(s) \in SUBSET Staged(s)
         /\ \A f \in Staged(s) : f \in Fans /\ usable[f]
         /\ s.type = "BOTH" => Variate \notin Staged(s)
         /\ On(s) \in SUBSET Staged(s)
  BY DEF StagingTypeOK, Staged, Running, Constants, On

(* What opening, closing and adjusting do to the commanded staged fans.      *)
LEMMA CommandsOn ==
  ASSUME StagingTypeOK, NEW s \in Objects, NEW F
  PROVE  /\ On(Open(s, F)) = On(s) \cup (F \cap Staged(s))
         /\ On(Close(s, F)) = On(s) \ F
         /\ \A f \in Nat : On(Adjust(s, f)) = On(s)
<1>1. /\ Open(s, F).type = s.type /\ Close(s, F).type = s.type
      /\ \A f \in Nat : Adjust(s, f).type = s.type
  BY OpenKept, CloseKept, AdjustKept DEF Kept
<1>2. /\ Staged(Open(s, F)) = Staged(s) /\ Staged(Close(s, F)) = Staged(s)
      /\ \A f \in Nat : Staged(Adjust(s, f)) = Staged(s)
  BY <1>1, SameFans
<1>3. \A f \in Staged(s) : f \in Fans /\ usable[f]
  BY StagedFans
<1>4. /\ Open(s, F).cmd = [f \in Fans |-> s.cmd[f] \/ (f \in F /\ usable[f])]
      /\ Close(s, F).cmd = [f \in Fans |-> s.cmd[f] /\ f \notin F]
      /\ \A f \in Nat : Adjust(s, f).cmd = s.cmd
  BY OpenKept, CloseKept, AdjustKept
<1>5. \A f \in Staged(s) : /\ Open(s, F).cmd[f] <=> s.cmd[f] \/ f \in F
                           /\ Close(s, F).cmd[f] <=> s.cmd[f] /\ f \notin F
  BY <1>3, <1>4
<1>6. On(Open(s, F)) = On(s) \cup (F \cap Staged(s))
  BY <1>2, <1>5 DEF On
<1>7. On(Close(s, F)) = On(s) \ F
  BY <1>2, <1>5 DEF On
<1>8. \A f \in Nat : On(Adjust(s, f)) = On(s)
  BY <1>2, <1>4 DEF On
<1> QED BY <1>6, <1>7, <1>8

(* The variable fan is not staged: opening or closing it changes no command  *)
(* of a staged fan.                                                          *)
LEMMA VariateNotOn ==
  ASSUME StagingTypeOK, NEW s \in Objects, s.type = "BOTH", NEW f \in Nat
  PROVE  /\ On(Adjust(Open(s, {Variate}), f)) = On(s)
         /\ On(Close(s, {Variate})) = On(s)
<1>1. Variate \notin Staged(s) /\ On(s) \in SUBSET Staged(s)
  BY StagedFans
<1>2. On(Open(s, {Variate})) = On(s) /\ On(Close(s, {Variate})) = On(s)
  BY <1>1, CommandsOn
<1>3. Open(s, {Variate}) \in Objects
  BY OpenKept DEF Kept
<1> QED BY <1>2, <1>3, CommandsOn

(* What the shared body does to the commanded staged fans: it closes the     *)
(* longest running ones or opens the shortest running of the stopped ones.   *)
LEMMA StageOn ==
  ASSUME StagingTypeOK, NEW s \in Objects, NEW want, NEW keep
  PROVE  On(Stage(s, want, keep)) =
           IF want < Cardinality(Running(s))
           THEN On(s) \ Longest(Running(s), Cardinality(Running(s)) - keep)
           ELSE On(s) \cup Shortest(Staged(s) \ Running(s),
                                    want - Cardinality(Running(s)))
<1> DEFINE spare == want > Cardinality(Staged(s)) /\ VarUsable(s)
           surplus == /\ want <= Cardinality(Staged(s)) /\ ~s.varRequest
                      /\ s.type = "BOTH" /\ runs[Variate]
           s1 == IF spare THEN Adjust(Open(s, {Variate}), MaxFreq)
                 ELSE IF surplus THEN Close(s, {Variate}) ELSE s
           long == Longest(Running(s), Cardinality(Running(s)) - keep)
           short == Shortest(Staged(s) \ Running(s), want - Cardinality(Running(s)))
<1>1. Kept(s1, s) /\ On(s1) = On(s)
  <2>1. CASE spare
    <3>1. s.type = "BOTH"
      BY <2>1 DEF VarUsable
    <3>2. Kept(Open(s, {Variate}), s)
      BY OpenKept
    <3>3. Kept(Adjust(Open(s, {Variate}), MaxFreq), Open(s, {Variate}))
      BY <3>2, AdjustKept, ParamAssumption DEF Kept
    <3>4. Kept(Adjust(Open(s, {Variate}), MaxFreq), s)
      BY <3>2, <3>3, KeptTrans
    <3> QED BY <2>1, <3>1, <3>4, VariateNotOn, ParamAssumption
  <2>2. CASE ~spare /\ surplus
    BY <2>2, CloseKept, VariateNotOn, ParamAssumption
  <2>3. CASE ~spare /\ ~surplus
    <3>1. Kept(s, s)
      BY DEF Kept
    <3> QED BY <2>3, <3>1
  <2> QED BY <2>1, <2>2, <2>3
<1>2. Stage(s, want, keep) = IF want < Cardinality(Running(s))
                             THEN Close(s1, long) ELSE Open(s1, short)
  BY DEF Stage
<1>3. short \subseteq Staged(s)
  BY DEF Shortest
<1> HIDE DEF s1, long, short
<1>4. s1 \in Objects /\ s1.type = s.type
  BY <1>1 DEF Kept
<1>5. Staged(s1) = Staged(s)
  BY <1>4, SameFans
<1>6. On(Close(s1, long)) = On(s) \ long /\ On(Open(s1, short)) = On(s) \cup short
  BY <1>1, <1>3, <1>4, <1>5, CommandsOn
<1> QED BY <1>2, <1>6 DEF long, short

(* What the commands of the staged fans may be once AlwaysOpen has run for   *)
(* the demand of s: the surplus running fans are closed, or the stopped ones *)
(* with the shortest hours opened.                                           *)
Demand(s, A) ==
    LET F == Staged(s)
        R == Running(s)
        r == Cardinality(R)
    IN  IF RequestNum(s) < r
        THEN A = R \ Longest(R, r - RequestNum(s))
        ELSE /\ R \cup Shortest(F \ R, OpenNum(s) - r) \subseteq A
             /\ A \subseteq R \cup Shortest(F \ R, RequestNum(s) - r)

(* Asking for more fans opens no other fans.                                 *)
LEMMA ShortestGrows ==
  ASSUME NEW F \in SUBSET Fans, NEW j \in Int, NEW k \in Int, j <= k
  PROVE  Shortest(F, j) \subseteq Shortest(F, k)
<1>1. \A f \in F : Cardinality({g \in F : Before(g, f)}) \in Nat
  BY SmallerSet
<1>2. ASSUME NEW f \in Shortest(F, j) PROVE f \in Shortest(F, k)
  <2> DEFINE rank == Cardinality({g \in F : Before(g, f)})
  <2>1. f \in F /\ rank < j
    BY DEF Shortest
  <2>2. rank \in Nat
    BY <1>1, <2>1
  <2>3. rank < k
    <3> HIDE DEF rank
    <3> QED BY <2>1, <2>2
  <2> QED BY <2>1, <2>3 DEF Shortest
<1> QED BY <1>2

(* Asking for none, or for fewer than none, opens or closes no fan.          *)
LEMMA NoneFirst ==
  ASSUME NEW F \in SUBSET Fans, NEW k \in Int, k <= 0
  PROVE  Shortest(F, k) = {} /\ Longest(F, k) = {}
<1>1. \A f \in F : /\ Cardinality({g \in F : Before(g, f)}) \in Nat
                   /\ Cardinality({g \in F : Before(f, g)}) \in Nat
  BY SmallerSet
<1>2. ASSUME NEW n \in Nat PROVE ~(n < k)
  OBVIOUS
<1>3. \A f \in F : /\ ~(Cardinality({g \in F : Before(g, f)}) < k)
                   /\ ~(Cardinality({g \in F : Before(f, g)}) < k)
  BY <1>1, <1>2
<1>4. Shortest(F, k) = {}
  BY <1>3 DEF Shortest
<1>5. Longest(F, k) = {}
  BY <1>3 DEF Longest
<1> QED BY <1>4, <1>5

(* When no contact lags behind, AlwaysOpen brings the commands within the    *)
(* demand.                                                                   *)
LEMMA AlwaysOpenDemand ==
  ASSUME StagingTypeOK, NEW s \in Objects, s.mode = "AUTO", On(s) = Running(s)
  PROVE  Demand(s, On(AlwaysOpen(s)))
<1> DEFINE F == Staged(s)
           R == Running(s)
           r == Cardinality(R)
           o == OpenNum(s)
           q == RequestNum(s)
<1>1. F \in SUBSET Fans /\ R \in SUBSET F /\ F \ R \in SUBSET Fans
  BY StagedFans
<1>2. r \in Nat /\ o \in Nat /\ q \in Nat /\ q \in {o, o + 1}
  BY <1>1, FanSets, DemandNumbers, FansAssumption
<1>3. On(AlwaysOpen(s)) = IF o < r THEN R \ Longest(R, r - q)
                          ELSE R \cup Shortest(F \ R, o - r)
  BY StageOn DEF AlwaysOpen
<1>4. Demand(s, On(AlwaysOpen(s))) <=>
        IF q < r THEN On(AlwaysOpen(s)) = R \ Longest(R, r - q)
        ELSE /\ R \cup Shortest(F \ R, o - r) \subseteq On(AlwaysOpen(s))
             /\ On(AlwaysOpen(s)) \subseteq R \cup Shortest(F \ R, q - r)
  BY DEF Demand
<1> HIDE DEF F, R, r, o, q
<1>5. CASE q < r
  <2>1. o < r
    BY <1>2, <1>5
  <2> QED BY <1>3, <1>4, <1>5, <2>1
<1>6. CASE ~(q < r) /\ o < r
  <2>1. r - q <= 0 /\ o - r <= 0 /\ r - q \in Int /\ o - r \in Int
    BY <1>2, <1>6
  <2>2. Longest(R, r - q) = {} /\ Shortest(F \ R, o - r) = {}
    BY <1>1, <2>1, NoneFirst
  <2> QED BY <1>3, <1>4, <1>6, <2>2
<1>7. CASE ~(q < r) /\ ~(o < r)
  <2>1. Shortest(F \ R, o - r) \subseteq Shortest(F \ R, q - r)
    BY <1>1, <1>2, ShortestGrows
  <2> QED BY <1>3, <1>4, <1>7, <2>1
<1> QED BY <1>5, <1>6, <1>7

(* Repeating the decision on the same contacts, as ConstantSwitch does for   *)
(* the requested number, keeps the commands within the demand.               *)
LEMMA SwitchDemand ==
  ASSUME StagingTypeOK, NEW s \in Objects, NEW t \in Objects, t.mode = "AUTO",
         t.type = s.type, Demand(s, On(t))
  PROVE  Demand(s, On(ConstantSwitch(t, RequestNum(s))))
<1> DEFINE F == Staged(s)
           R == Running(s)
           r == Cardinality(R)
           q == RequestNum(s)
           u == Stage(t, q, q)
           c == ConstantSwitch(t, q)
<1>1. F \in SUBSET Fans /\ R \in SUBSET F /\ F \ R \in SUBSET Fans
  BY StagedFans
<1>2. r \in Nat /\ q \in Nat /\ OpenNum(s) \in Nat /\ OpenNum(s) <= q
  BY <1>1, FanSets, DemandNumbers, FansAssumption
<1>3. Staged(t) = F /\ Running(t) = R
  BY SameFans
<1>4. On(c) = On(u)
  <2>1. Kept(u, t)
    BY StageKept
  <2>2. c = [u EXCEPT !.lastNum = q]
    BY DEF ConstantSwitch
  <2> HIDE DEF u, c, q
  <2>3. c.cmd = u.cmd /\ c.type = u.type
    BY <2>1, <2>2 DEF Kept, Objects
  <2> QED BY <2>3, SameFans DEF On
<1>5. On(u) = IF q < r THEN On(t) \ Longest(R, r - q)
              ELSE On(t) \cup Shortest(F \ R, q - r)
  BY <1>3, StageOn
<1>6. \A A : Demand(s, A) <=>
               IF q < r THEN A = R \ Longest(R, r - q)
               ELSE /\ R \cup Shortest(F \ R, OpenNum(s) - r) \subseteq A
                    /\ A \subseteq R \cup Shortest(F \ R, q - r)
  BY DEF Demand
<1> HIDE DEF F, R, r, u
<1>7. Demand(s, On(u))
  BY <1>5, <1>6
<1> QED BY <1>4, <1>7

(* The commanded staged fans depend on the commands and the fan type.        *)
LEMMA SameOn ==
  ASSUME NEW s, NEW t, t.cmd = s.cmd, t.type = s.type
  PROVE  On(t) = On(s)
  BY SameFans DEF On

(* t has been reached by a control that began with s and has run AlwaysOpen. *)
Serves(t, s) == t \in Objects /\ t.mode = "AUTO" /\ Steady(t, s) /\ Demand(s, On(t))

(* The periodic callback keeps the commands within the demand.               *)
LEMMA CallbackServes ==
  ASSUME StagingTypeOK, NEW s \in Objects, s.request = s.target,
         NEW t, Serves(t, s)
  PROVE  Serves(CtrlTmrCallback(t), s)
<1> DEFINE u     == RequestVol(t)
           long  == RequestTime(u) >= LeastTime
           timed == [u EXCEPT !.requestTmr = RequestTime(u)]
           renew == u.requestTmr \notin {RequestTime(u)} \ {0}
           asked == [timed EXCEPT !.varRequest = TRUE]
           unasked == [u EXCEPT !.varRequest = FALSE]
           opened == Adjust(Open(asked, {Variate}), MinFreq)
           closed == Close(unasked, {Variate})
           switched == ConstantSwitch(timed, RequestNum(u))
           c == CtrlTmrCallback(t)
<1>1. t \in Objects /\ t.mode = "AUTO" /\ Steady(t, s) /\ Demand(s, On(t))
  BY DEF Serves
<1>2. c \in Objects /\ c.mode = "AUTO" /\ Steady(c, s)
  BY <1>1, CallbackType, SteadyTrans DEF Steady
<1>3. u \in Objects /\ u.mode = "AUTO" /\ u.cmd = t.cmd /\ u.type = s.type
      /\ u.request = s.request /\ t.type = s.type
  BY <1>1, RequestVolType DEF Steady
<1>4. On(u) = On(t)
  BY <1>3, SameOn
<1>5. RequestTime(u) \in Nat /\ RequestNum(u) = RequestNum(s)
  BY <1>3, DemandNumbers, SameDemand
<1>6. /\ VarUsable(t) /\ long => c = opened
      /\ VarUsable(t) /\ ~long => c = closed
      /\ ~VarUsable(t) => c \in {switched, u}
  BY <1>1 DEF CtrlTmrCallback
<1> HIDE DEF u, long, c
<1>7. /\ timed \in Objects /\ timed.cmd = u.cmd /\ timed.type = u.type
      /\ timed.mode = u.mode
  BY <1>3, <1>5 DEF Objects
<1>8. On(timed) = On(t)
  BY <1>4, <1>7, SameOn
<1> HIDE DEF timed
<1>9. CASE VarUsable(t)
  <2>1. s.type = "BOTH"
    BY <1>3, <1>9 DEF VarUsable
  <2>2. asked \in Objects /\ asked.type = "BOTH" /\ asked.cmd = timed.cmd
    BY <1>3, <1>7, <2>1 DEF Objects
  <2>3. unasked \in Objects /\ unasked.type = "BOTH" /\ unasked.cmd = u.cmd
    BY <1>3, <2>1 DEF Objects
  <2>4. On(asked) = On(t) /\ On(unasked) = On(t)
    BY <1>3, <1>4, <1>7, <1>8, <2>1, <2>2, <2>3, SameOn
  <2> HIDE DEF asked, unasked
  <2>5. On(opened) = On(t) /\ On(closed) = On(t)
    BY <2>2, <2>3, <2>4, VariateNotOn, ParamAssumption
  <2>6. c \in {opened, closed}
    BY <1>6, <1>9
  <2> HIDE DEF opened, closed
  <2> QED BY <1>1, <1>2, <2>5, <2>6 DEF Serves, c
<1>10. CASE ~VarUsable(t)
  <2>1. Demand(s, On(switched))
    BY <1>1, <1>3, <1>5, <1>7, <1>8, SwitchDemand
  <2>2. c \in {switched, u}
    BY <1>6, <1>10
  <2> HIDE DEF switched
  <2> QED BY <1>1, <1>2, <1>4, <2>1, <2>2 DEF Serves, c
<1> QED BY <1>9, <1>10 DEF c

(* So does the tail of a control, which may switch and call the callback on  *)
(* the contacts that AlwaysOpen has already used.                            *)
LEMMA PeriodicServes ==
  ASSUME StagingTypeOK, NEW s \in Objects, s.request = s.target,
         NEW t, Serves(t, s)
  PROVE  Serves(Periodic(t), s)
<1> DEFINE u == IF t.requestTmr > 0 THEN ConstantSwitch(t, RequestNum(t)) ELSE t
           c == CtrlTmrCallback(u)
           d == [c EXCEPT !.ctrlTmr = TRUE]
<1>1. t \in Objects /\ t.mode = "AUTO" /\ Steady(t, s) /\ Demand(s, On(t))
      /\ t.type = s.type /\ t.request = s.request
  BY DEF Serves, Steady
<1>2. RequestNum(t) = RequestNum(s) /\ RequestNum(s) \in 0..N
  BY <1>1, SameDemand, DemandNumbers
<1>3. Serves(ConstantSwitch(t, RequestNum(t)), s)
  <2>1. Demand(s, On(ConstantSwitch(t, RequestNum(t))))
    BY <1>1, <1>2, SwitchDemand
  <2>2. Steady(ConstantSwitch(t, RequestNum(t)), t)
    BY <1>1, <1>2, SwitchType
  <2>3. Steady(ConstantSwitch(t, RequestNum(t)), s)
    BY <1>1, <2>2, SteadyTrans
  <2>4. /\ ConstantSwitch(t, RequestNum(t)) \in Objects
        /\ ConstantSwitch(t, RequestNum(t)).mode = "AUTO"
    BY <1>1, <2>2 DEF Steady
  <2> QED BY <2>1, <2>3, <2>4 DEF Serves
<1>4. Serves(u, s)
  BY <1>3
<1>5. Periodic(t) = IF ~u.ctrlTmr \/ u.lastNum # RequestNum(u) THEN d ELSE u
  BY DEF Periodic
<1> HIDE DEF u
<1>6. Serves(c, s)
  BY <1>4, CallbackServes
<1> HIDE DEF c
<1>7. c \in Objects /\ c.mode = "AUTO" /\ Steady(c, s) /\ Demand(s, On(c))
  BY <1>6 DEF Serves
<1>8. /\ Steady(d, c) /\ d \in Objects
      /\ d.cmd = c.cmd /\ d.type = c.type /\ d.mode = c.mode
  BY <1>7 DEF Steady, Objects
<1> HIDE DEF d
<1>9. Serves(d, s)
  BY <1>7, <1>8, SameOn, SteadyTrans DEF Serves
<1> QED BY <1>4, <1>5, <1>9

(* The demand met by the commands is the one the control promises.           *)
LEMMA DemandWithin ==
  ASSUME StagingTypeOK, NEW s \in Objects, NEW A \in SUBSET Staged(s), Demand(s, A)
  PROVE  /\ Cardinality(A) <= RequestNum(s)
         /\ Cardinality(A) >= OpenNum(s) \/ Cardinality(A) = Cardinality(Staged(s))
<1> DEFINE F == Staged(s)
           R == Running(s)
           r == Cardinality(R)
           o == OpenNum(s)
           q == RequestNum(s)
<1>1. F \in SUBSET Fans /\ R \in SUBSET F /\ R \in SUBSET Fans /\ F \ R \in SUBSET Fans
      /\ A \in SUBSET Fans
  BY StagedFans
<1>2. r \in Nat /\ o \in Nat /\ q \in Nat /\ o <= q
  BY <1>1, FanSets, DemandNumbers, FansAssumption
<1>3. IF q < r THEN A = R \ Longest(R, r - q)
      ELSE /\ R \cup Shortest(F \ R, o - r) \subseteq A
           /\ A \subseteq R \cup Shortest(F \ R, q - r)
  BY DEF Demand
<1> HIDE DEF F, R, o, q
<1>4. IsFiniteSet(R) /\ IsFiniteSet(A) /\ Cardinality(A) \in Nat
  BY <1>1, FanSets
<1>5. CASE q < r
  <2> DEFINE L == Longest(R, r - q)
  <2>1. r - q \in Nat
    BY <1>2, <1>5
  <2>2. L \in SUBSET R /\ (Cardinality(L) = r - q \/ (L = R /\ r <= r - q))
    BY <1>1, <2>1, ShortestSize
  <2>3. Cardinality(A) = r - Cardinality(L)
    <3> HIDE DEF L
    <3>1. R \cap L = L
      BY <2>2
    <3>2. Cardinality(R \ L) = r - Cardinality(R \cap L)
      BY <1>4, FS_Difference
    <3> QED BY <1>3, <1>5, <3>1, <3>2 DEF L
  <2> HIDE DEF L
  <2>4. Cardinality(A) = q
    BY <1>2, <2>2, <2>3
  <2> QED BY <1>2, <2>4 DEF q, o
<1>6. CASE ~(q < r)
  <2> DEFINE H == Shortest(F \ R, q - r)
             S == Shortest(F \ R, o - r)
  <2>0. R \cup S \subseteq A /\ A \subseteq R \cup H
    BY <1>3, <1>6
  <2>1. q - r \in Nat
    BY <1>2, <1>6
  <2>2. /\ H \in SUBSET (F \ R)
        /\ Cardinality(H) = q - r \/ (H = F \ R /\ Cardinality(F \ R) <= q - r)
    BY <1>1, <2>1, ShortestSize
  <2>3. Cardinality(A) <= q
    <3> HIDE DEF H
    <3>1. IsFiniteSet(H) /\ Cardinality(H) \in Nat /\ R \cap H = {}
      BY <1>1, <2>2, FanSets
    <3>2. Cardinality(R \cup H) = r + Cardinality(H) - Cardinality(R \cap H)
      BY <1>4, <3>1, FS_Union
    <3>3. Cardinality(R \cap H) = 0
      BY <3>1, FS_EmptySet
    <3>4. R \cup H \in SUBSET Fans /\ A \in SUBSET (R \cup H)
      BY <1>1, <2>0, <2>2
    <3>5. Cardinality(A) <= Cardinality(R \cup H)
      BY <3>4, SmallerSet
    <3>6. Cardinality(H) <= q - r
      BY <2>1, <2>2, <3>1
    <3> QED BY <1>2, <1>4, <3>1, <3>2, <3>3, <3>5, <3>6
  <2>4. CASE o < r
    <3>1. r <= Cardinality(A)
      BY <1>1, <2>0, SmallerSet
    <3>2. Cardinality(A) >= o
      BY <1>2, <1>4, <2>4, <3>1
    <3> QED BY <2>3, <3>2 DEF o, q
  <2>5. CASE ~(o < r)
    <3>1. o - r \in Nat
      BY <1>2, <2>5
    <3>2. /\ S \in SUBSET (F \ R)
          /\ Cardinality(S) = o - r \/ S = F \ R
      BY <1>1, <3>1, ShortestSize
    <3> HIDE DEF S, H
    <3>3. CASE S = F \ R
      <4>1. A = F
        BY <1>1, <2>0, <3>3 DEF F
      <4> QED BY <2>3, <4>1 DEF F, q
    <3>4. CASE Cardinality(S) = o - r
      <4>1. IsFiniteSet(S) /\ R \cap S = {}
        BY <1>1, <3>2, FanSets
      <4>2. Cardinality(R \cup S) = r + Cardinality(S) - Cardinality(R \cap S)
        BY <1>4, <4>1, FS_Union
      <4>3. Cardinality(R \cap S) = 0
        BY <4>1, FS_EmptySet
      <4>4. Cardinality(R \cup S) <= Cardinality(A)
        BY <1>1, <2>0, SmallerSet
      <4>5. Cardinality(A) >= o
        BY <1>2, <1>4, <3>4, <4>2, <4>3, <4>4
      <4> QED BY <2>3, <4>5 DEF o, q
    <3> QED BY <3>2, <3>3, <3>4
  <2> QED BY <2>4, <2>5
<1> QED BY <1>5, <1>6

(* So do both controls on a low concentration.                               *)
LEMMA LowControlServes ==
  ASSUME StagingTypeOK, NEW s \in Objects, s.mode = "AUTO", s.request = s.target,
         On(s) = Running(s)
  PROVE  /\ Serves(ConstantCtrl(s), s)
         /\ VarUsable(s) => Serves(BothCtrl(s), s)
<1> DEFINE t == AlwaysOpen(s)
           freq == ((Surplus(s) * 500) \div Rated) % 65536
           a == [t EXCEPT !.varRequest = TRUE]
           v == IF freq >= MinFreq THEN Adjust(Open(a, {Variate}), freq) ELSE t
<1>1. Serves(t, s)
  <2>1. Kept(t, s)
    BY AlwaysOpenKept
  <2>2. Demand(s, On(t))
    BY AlwaysOpenDemand
  <2> HIDE DEF t
  <2>3. t \in Objects /\ t.mode = "AUTO" /\ Steady(t, s)
    BY <2>1, KeptSteady DEF Kept
  <2> QED BY <2>2, <2>3 DEF Serves
<1>2. Serves(Periodic(t), s)
  BY <1>1, PeriodicServes
<1>3. ConstantCtrl(s) = Periodic(t)
  BY DEF ConstantCtrl
<1>4. BothCtrl(s) = IF Surplus(s) >= (MinFreq * Rated) \div 500
                    THEN StopTimers(v) ELSE Periodic(t)
  BY DEF BothCtrl
<1>5. freq \in Nat
  BY SurplusFreq
<1> HIDE DEF t, freq
<1>6. t \in Objects /\ t.mode = "AUTO" /\ Steady(t, s) /\ Demand(s, On(t))
      /\ t.type = s.type
  BY <1>1 DEF Serves, Steady
<1>7. ASSUME VarUsable(s) PROVE Serves(StopTimers(v), s)
  <2>1. /\ a \in Objects /\ a.type = t.type /\ a.cmd = t.cmd
        /\ s.type = "BOTH"
    BY <1>6, <1>7 DEF Objects, VarUsable
  <2>2. On(a) = On(t)
    BY <2>1, SameOn
  <2>3. Steady(Adjust(Open(a, {Variate}), freq), t)
    BY <1>5, <1>6, VariateType
  <2> HIDE DEF a
  <2>4. On(Adjust(Open(a, {Variate}), freq)) = On(t)
    BY <1>5, <1>6, <2>1, <2>2, VariateNotOn
  <2>5. Steady(t, t)
    BY <1>6 DEF Steady
  <2>6. Steady(v, t) /\ On(v) = On(t)
    BY <2>3, <2>4, <2>5
  <2> HIDE DEF v
  <2>7. v \in Objects /\ v.mode = "AUTO" /\ Steady(v, s)
    BY <1>6, <2>6, SteadyTrans DEF Steady
  <2>8. /\ Steady(StopTimers(v), v) /\ StopTimers(v).cmd = v.cmd
        /\ StopTimers(v).type = v.type /\ StopTimers(v).mode = "AUTO"
        /\ StopTimers(v) \in Objects
    BY <2>7, StopTimersType DEF Steady
  <2>9. On(StopTimers(v)) = On(t)
    BY <2>6, <2>8, SameOn
  <2>10. Steady(StopTimers(v), s)
    BY <2>7, <2>8, SteadyTrans
  <2> QED BY <1>6, <2>8, <2>9, <2>10 DEF Serves
<1> HIDE DEF v
<1> QED BY <1>2, <1>3, <1>4, <1>7

(* Such an object meets the bounds that ControlMeetsDemand states.           *)
LEMMA ServesWithin ==
  ASSUME StagingTypeOK, NEW s \in Objects, s.request = s.target, NEW c, Serves(c, s)
  PROVE  Within(c, OpenNum(c), RequestNum(c))
<1>1. c \in Objects /\ c.type = s.type /\ c.request = s.request /\ Demand(s, On(c))
  BY DEF Serves, Steady
<1>2. /\ OpenNum(c) = OpenNum(s) /\ RequestNum(c) = RequestNum(s)
      /\ Staged(c) = Staged(s)
  BY <1>1, SameDemand, SameFans
<1>3. On(c) \in SUBSET Staged(s)
  BY <1>2 DEF On
<1>4. /\ Cardinality(On(c)) <= RequestNum(s)
      /\ Cardinality(On(c)) >= OpenNum(s) \/ Cardinality(On(c)) = Cardinality(Staged(s))
  BY <1>1, <1>3, DemandWithin
<1>5. On(c) = {f \in Staged(c) : c.cmd[f]}
  BY DEF On
<1> QED BY <1>2, <1>4, <1>5 DEF Within

(* The control meets the demand in every state with matching types.          *)
LEMMA TypeMeetsDemand == StagingTypeOK => ControlMeetsDemand
<1> SUFFICES ASSUME StagingTypeOK, sys.mode = "AUTO", Settled
             PROVE  Within(Controlled, OpenNum(Controlled), RequestNum(Controlled))
  BY DEF ControlMeetsDemand
<1> DEFINE l == [sys EXCEPT !.co2 = "LOW"]
           r == [l EXCEPT !.acted = "LOW"]
           s == RequestVol(r)
<1>1. sys \in Objects
  BY DEF StagingTypeOK
<1>2. /\ l \in Objects /\ l.mode = "AUTO" /\ l.co2 = "LOW" /\ l.cmd = sys.cmd
      /\ l.type = sys.type
  BY <1>1 DEF Objects, Levels
<1>3. Controlled = ExAirFanCtrl(l)
  BY DEF Controlled
<1> HIDE DEF l
<1>4. /\ r \in Objects /\ r.mode = "AUTO" /\ r.cmd = sys.cmd /\ r.type = sys.type
  BY <1>2 DEF Objects, Levels
<1>5. Controlled = IF VarUsable(s) THEN BothCtrl(s) ELSE ConstantCtrl(s)
  BY <1>2, <1>3 DEF ExAirFanCtrl
<1> HIDE DEF r
<1>6. /\ s \in Objects /\ s.mode = "AUTO" /\ s.request = s.target
      /\ s.cmd = sys.cmd /\ s.type = sys.type
  BY <1>4, RequestVolType DEF Steady
<1> HIDE DEF s
<1>7. On(s) = Running(s)
  <2>1. \A f \in Staged(s) : f \in Fans /\ usable[f]
    BY <1>6, StagedFans
  <2>2. \A f \in Staged(s) : runs[f] = s.cmd[f]
    BY <1>6, <2>1 DEF Settled
  <2> QED BY <2>2 DEF On, Running
<1>8. Serves(Controlled, s)
  BY <1>5, <1>6, <1>7, LowControlServes
<1> QED BY <1>6, <1>8, ServesWithin

(* Whenever no contact lags behind its command, a control acting on a low    *)
(* concentration commands at least the always-open number of the usable      *)
(* constant fans, or all of them, and never more than are requested.         *)
THEOREM DemandMet == StagingSpec => []ControlMeetsDemand
<1>1. StagingInv => ControlMeetsDemand
  BY TypeMeetsDemand DEF StagingInv
<1> QED BY <1>1, StagingInvariant, PTL

-----------------------------------------------------------------------------
(* Staging: full exhaust.                                                    *)

(* What FullExhaust asks of a handler that makes t of s.                     *)
Follows(s) == \A f \in Fans : usable[f] => runs[f] = s.cmd[f]

Full(t, s) ==
    t.acted = "HIGH" =>
        \A f \in Fans : usable[f] /\ (s.cmd[f] \/ (s.acted # "HIGH" /\ Follows(s)))
                        => t.cmd[f]

(* At most N fans are staged, and one less when one of them is variable.     *)
LEMMA StagedSize ==
  ASSUME StagingTypeOK, NEW s \in Objects
  PROVE  /\ Cardinality(Staged(s)) <= N
         /\ s.type = "BOTH" => Cardinality(Staged(s)) <= N - 1
         /\ Cardinality(Staged(s)) \in Nat
<1>1. N \in Nat /\ N > 1 /\ Variate \in Fans
  BY FansAssumption DEF Fans, Variate
<1>2. IsFiniteSet(Fans) /\ Cardinality(Fans) = N
  BY <1>1, FS_Interval DEF Fans
<1>3. IsFiniteSet(Fans \ {Variate}) /\ Cardinality(Fans \ {Variate}) = N - 1
  BY <1>1, <1>2, FS_RemoveElement
<1>4. Staged(s) \in SUBSET Fans
  BY StagedFans
<1>5. s.type = "BOTH" => Staged(s) \in SUBSET (Fans \ {Variate})
  BY StagedFans
<1>6. Cardinality(Staged(s)) <= N /\ Cardinality(Staged(s)) \in Nat
  BY <1>2, <1>4, FS_Subset, FanSets
<1>7. s.type = "BOTH" => Cardinality(Staged(s)) <= N - 1
  BY <1>3, <1>5, FS_Subset
<1> QED BY <1>6, <1>7

(* With at least as many fans wanted as can be staged, Stage closes no       *)
(* staged fan and opens all those that are stopped; it can only close the    *)
(* variable fan.                                                             *)
LEMMA StageOpensAll ==
  ASSUME StagingTypeOK, NEW s \in Objects, NEW want \in Nat, NEW keep,
         want >= Cardinality(Staged(s)), NEW f \in Fans, usable[f],
         f = Variate => s.type # "BOTH",
         s.cmd[f] \/ Follows(s)
  PROVE  Stage(s, want, keep).cmd[f]
<1> DEFINE F == Staged(s)
           R == Running(s)
           t == Stage(s, want, keep)
<1>1. f \in F
  BY DEF Staged, Constants
<1>2. F \in SUBSET Fans /\ R \in SUBSET F /\ F \ R \in SUBSET Fans
  BY StagedFans
<1>3. /\ Cardinality(R) \in Nat /\ Cardinality(F) \in Nat
      /\ Cardinality(R) <= Cardinality(F)
  BY <1>2, SmallerSet
<1>4. want - Cardinality(R) \in Nat /\ ~(want < Cardinality(R))
  BY <1>3
<1>5. On(t) = On(s) \cup Shortest(F \ R, want - Cardinality(R))
  BY <1>4, StageOn
<1>6. Shortest(F \ R, want - Cardinality(R)) = F \ R
  <2> DEFINE S == Shortest(F \ R, want - Cardinality(R))
  <2>1. /\ S \in SUBSET (F \ R)
        /\ Cardinality(S) = want - Cardinality(R) \/ S = F \ R
    BY <1>2, <1>4, ShortestSize
  <2>2. Cardinality(F \ R) = Cardinality(F) - Cardinality(R)
    <3>1. IsFiniteSet(F) /\ F \cap R = R
      BY <1>2, FanSets
    <3> HIDE DEF F, R
    <3>2. Cardinality(F \ R) = Cardinality(F) - Cardinality(F \cap R)
      BY <3>1, FS_Difference
    <3> QED BY <3>1, <3>2
  <2>3. CASE Cardinality(S) = want - Cardinality(R)
    <3> HIDE DEF S, F, R
    <3>1. Cardinality(S) >= Cardinality(F \ R)
      BY <1>3, <2>2, <2>3 DEF F
    <3>2. S # F \ R => Cardinality(S) < Cardinality(F \ R)
      BY <1>2, <2>1, SmallerSet
    <3>3. Cardinality(S) \in Nat /\ Cardinality(F \ R) \in Nat
      BY <1>2, <2>1, SmallerSet
    <3>4. S = F \ R
      BY <3>1, <3>2, <3>3
    <3> QED BY <3>4 DEF S
  <2> QED BY <2>1, <2>3
<1>7. f \in On(t)
  <2>1. CASE s.cmd[f]
    BY <1>1, <1>5, <2>1 DEF On
  <2>2. CASE ~s.cmd[f]
    <3>1. ~runs[f]
      BY <2>2 DEF Follows
    <3>2. f \in F \ R
      BY <1>1, <3>1 DEF Running
    <3> QED BY <1>5, <1>6, <3>2
  <2> QED BY <2>1, <2>2
<1> QED BY <1>7 DEF On

(* Opening all fans leaves every usable fan commanded that was commanded,    *)
(* and every usable fan when no contact lags behind its command.             *)
LEMMA AllFansFull ==
  ASSUME StagingTypeOK, NEW s \in Objects, s.mode = "AUTO",
         NEW f \in Fans, usable[f], s.cmd[f] \/ Follows(s)
  PROVE  AllFans(s).cmd[f]
<1>0. N \in 0..N /\ N - 1 \in 0..N /\ N \in Nat /\ N - 1 \in Nat /\ MaxFreq \in Nat
  BY FansAssumption, ParamAssumption
<1>1. ASSUME NEW n \in 0..N, n \in Nat, n >= Cardinality(Staged(s)),
             f = Variate => s.type # "BOTH"
      PROVE  ConstantSwitch(s, n).cmd[f]
  <2>1. Stage(s, n, n).cmd[f]
    BY <1>1, StageOpensAll
  <2>2. Stage(s, n, n) \in Objects
    BY StageKept DEF Kept
  <2>3. ConstantSwitch(s, n) = [Stage(s, n, n) EXCEPT !.lastNum = n]
    BY DEF ConstantSwitch
  <2>4. ASSUME NEW u \in Objects PROVE [u EXCEPT !.lastNum = n].cmd = u.cmd
    BY DEF Objects
  <2> QED BY <2>1, <2>2, <2>3, <2>4
<1>2. CASE VarUsable(s)
  <2> DEFINE t == ConstantSwitch(s, N - 1)
             a == [t EXCEPT !.varRequest = TRUE]
             p == Open(a, {Variate})
  <2>1. AllFans(s) = Adjust(p, MaxFreq)
    BY <1>2 DEF AllFans
  <2>2. t \in Objects
    BY <1>0, SwitchType DEF Steady
  <2>3. f # Variate => t.cmd[f]
    BY <1>0, <1>1, <1>2, StagedSize DEF VarUsable
  <2> HIDE DEF t
  <2>4. a \in Objects /\ a.cmd = t.cmd
    BY <2>2 DEF Objects
  <2> HIDE DEF a
  <2>5. /\ p \in Objects
        /\ p.cmd = [g \in Fans |-> a.cmd[g] \/ (g \in {Variate} /\ usable[g])]
    BY <2>4, OpenKept DEF Kept
  <2>6. p.cmd[f]
    BY <2>3, <2>4, <2>5
  <2> HIDE DEF p
  <2> QED BY <1>0, <2>1, <2>5, <2>6, AdjustKept
<1>3. CASE ~VarUsable(s)
  <2>1. f = Variate => s.type # "BOTH"
    BY <1>3 DEF VarUsable
  <2>2. N >= Cardinality(Staged(s))
    BY <1>0, StagedSize
  <2> QED BY <1>0, <1>1, <1>3, <2>1, <2>2 DEF AllFans
<1> QED BY <1>2, <1>3

(* A control that leaves the object in full exhaust withdraws no command of  *)
(* a usable fan.                                                             *)
LEMMA CtrlFull ==
  ASSUME StagingTypeOK, NEW s \in Objects
  PROVE  Full(ExAirFanCtrl(s), s)
<1>1. CASE s.mode # "AUTO" \/ s.co2 = "BAND"
  BY <1>1 DEF ExAirFanCtrl, Full
<1>2. CASE s.mode = "AUTO" /\ s.co2 = "HIGH"
  <2> DEFINE t == [s EXCEPT !.acted = "HIGH"]
  <2>1. t \in Objects /\ t.mode = "AUTO" /\ t.cmd = s.cmd
    BY <1>2 DEF Objects, Levels
  <2>2. ExAirFanCtrl(s) = StopTimers(AllFans(t))
    BY <1>2 DEF ExAirFanCtrl
  <2> HIDE DEF t
  <2>3. AllFans(t) \in Objects
    BY <2>1, AllFansType DEF Steady
  <2>4. ExAirFanCtrl(s).cmd = AllFans(t).cmd
    BY <2>2, <2>3, StopTimersType
  <2>5. Follows(s) => Follows(t)
    BY <2>1 DEF Follows
  <2>6. \A f \in Fans : usable[f] /\ (s.cmd[f] \/ Follows(s)) => AllFans(t).cmd[f]
    BY <2>1, <2>5, AllFansFull
  <2> QED BY <2>4, <2>6 DEF Full
<1>3. CASE s.mode = "AUTO" /\ s.co2 = "LOW"
  <2> DEFINE r == [s EXCEPT !.acted = "LOW"]
             t == RequestVol(r)
             c == IF VarUsable(t) THEN BothCtrl(t) ELSE ConstantCtrl(t)
  <2>1. r \in Objects /\ r.mode = "AUTO" /\ r.acted = "LOW"
    BY <1>3 DEF Objects, Levels
  <2>2. ExAirFanCtrl(s) = c
    BY <1>3 DEF ExAirFanCtrl
  <2> HIDE DEF r
  <2>3. t \in Objects /\ t.mode = "AUTO" /\ t.acted = "LOW"
    BY <2>1, RequestVolType DEF Steady
  <2> HIDE DEF t
  <2>4. Steady(c, t)
    BY <2>3, BothCtrlType, ConstantCtrlType
  <2> HIDE DEF c
  <2>5. c.acted = "LOW"
    BY <2>3, <2>4 DEF Steady
  <2> QED BY <2>2, <2>5 DEF Full
<1>4. s.co2 \in {"LOW", "BAND", "HIGH"}
  BY DEF Objects, Levels
<1> QED BY <1>1, <1>2, <1>3, <1>4

(* So does a new exhaust volume.                                             *)
LEMMA SetVolFull ==
  ASSUME StagingTypeOK, NEW s \in Objects
  PROVE  Full(ExAirSetVol(s), s)
<1> DEFINE t == RequestVol(s)
<1>1. t \in Objects /\ t.cmd = s.cmd /\ t.acted = s.acted
  BY RequestVolType DEF Steady
<1>2. ExAirSetVol(s) \in {ExAirFanCtrl(t), t}
  BY DEF ExAirSetVol
<1> HIDE DEF t
<1>3. Full(ExAirFanCtrl(t), t)
  BY <1>1, CtrlFull
<1>4. Full(ExAirFanCtrl(t), s)
  BY <1>1, <1>3 DEF Full, Follows
<1>5. Full(t, s)
  BY <1>1 DEF Full
<1> QED BY <1>2, <1>4, <1>5

(* FullExhaust for one step.                                                 *)
FullStep ==
    sys'.acted = "HIGH" =>
         \A f \in Fans : usable[f] /\ usable'[f]
             /\ \/ sys.cmd[f] /\ f \notin Wayward
                \/ sys.acted # "HIGH" /\ Settled
             => sys'.cmd[f]

(* A handler with that property, started from the present commands, makes a  *)
(* step that FullExhaust allows.                                             *)
LEMMA HandleFull ==
  ASSUME NEW s, NEW t, s.cmd = sys.cmd, s.acted \in {sys.acted, "NONE"},
         Full(t, s), Handle(t)
  PROVE  FullStep
<1>1. sys' = t
  BY DEF Handle
<1>2. Settled => Follows(s)
  BY DEF Settled, Follows
<1> QED BY <1>1, <1>2 DEF Full, FullStep

(* Every step respects full exhaust: controls by the lemmas above, the       *)
(* timers because StagingInv has them stopped, the others because they       *)
(* leave the commands of usable fans alone.                                  *)
LEMMA FullExhaustStep == StagingInv /\ StagingNext => FullStep
<1> SUFFICES ASSUME StagingInv, StagingNext PROVE FullStep
  OBVIOUS
<1>0. StagingTypeOK /\ sys \in Objects
  BY DEF StagingInv, StagingTypeOK
<1>a. ASSUME sys.ctrlTmr, sys'.acted = sys.acted PROVE FullStep
  BY <1>a DEF StagingInv, TimersMatch, FullStep
<1>b. ASSUME sys'.acted = sys.acted, sys'.cmd = sys.cmd PROVE FullStep
  BY <1>b DEF FullStep
<1>1. ASSUME NEW m \in Modes, ChangeSystemMode(m) PROVE FullStep
  <2> DEFINE s == [sys EXCEPT !.mode = m, !.acted = "NONE"]
  <2>1. s \in Objects /\ s.cmd = sys.cmd /\ s.acted = "NONE"
    BY <1>0 DEF Objects
  <2>2. Handle(CASE m = "AUTO"   -> ExAirFanCtrl(s)
                 [] m = "CLOSE"  -> CloseExAirFans(s)
                 [] m = "MANUAL" -> s)
    BY <1>1 DEF ChangeSystemMode
  <2> HIDE DEF s
  <2>3. CASE m = "AUTO"
    <3>1. Handle(ExAirFanCtrl(s))
      BY <2>2, <2>3
    <3> QED BY <1>0, <2>1, <3>1, CtrlFull, HandleFull
  <2>4. CASE m = "CLOSE"
    <3>1. sys' = CloseExAirFans(s)
      BY <2>2, <2>4 DEF Handle
    <3>2. Close(s, Fans) \in Objects /\ Close(s, Fans).acted = "NONE"
      BY <2>1, CloseKept DEF Kept
    <3>3. CloseExAirFans(s).acted = "NONE"
      BY <3>2, StopTimersType DEF CloseExAirFans, Steady
    <3> QED BY <3>1, <3>3 DEF FullStep
  <2>5. CASE m = "MANUAL"
    <3>1. sys' = s
      BY <2>2, <2>5 DEF Handle
    <3> QED BY <2>1, <3>1 DEF FullStep
  <2> QED BY <2>3, <2>4, <2>5 DEF Modes
<1>2. ASSUME NEW c \in Levels, CO2PPM(c) PROVE FullStep
  <2> DEFINE s == [sys EXCEPT !.co2 = c]
  <2>1. s \in Objects /\ s.cmd = sys.cmd /\ s.acted = sys.acted
    BY <1>0 DEF Objects
  <2>2. Handle(ExAirFanCtrl(s))
    BY <1>2 DEF CO2PPM
  <2> HIDE DEF s
  <2> QED BY <1>0, <2>1, <2>2, CtrlFull, HandleFull
<1>3. ASSUME NEW c \in Levels, SetCO2AdjustDeviat(c) PROVE FullStep
  <2>1. sys'.cmd = sys.cmd /\ sys'.acted = sys.acted
    BY <1>0, <1>3 DEF SetCO2AdjustDeviat, Handle, Objects
  <2> QED BY <1>b, <2>1
<1>4. ASSUME NEW v \in Volumes, SetFreAir(v) PROVE FullStep
  <2> DEFINE s == [sys EXCEPT !.target = v]
  <2>1. s \in Objects /\ s.cmd = sys.cmd /\ s.acted = sys.acted
    BY <1>0 DEF Objects
  <2>2. Handle(ExAirSetVol(s))
    BY <1>4 DEF SetFreAir
  <2> HIDE DEF s
  <2> QED BY <1>0, <2>1, <2>2, SetVolFull, HandleFull
<1>5. ASSUME NEW v \in Volumes, RunningModeChanges(v) PROVE FullStep
  <2>1. sys'.cmd = sys.cmd /\ sys'.acted = sys.acted
    BY <1>0, <1>5 DEF RunningModeChanges, Handle, Objects
  <2> QED BY <1>b, <2>1
<1>6. ASSUME NEW t \in Types, ChangeExAirFanType(t) PROVE FullStep
  <2>1. sys'.cmd = sys.cmd /\ sys'.acted = sys.acted
    BY <1>0, <1>6 DEF ChangeExAirFanType, Handle, Objects
  <2> QED BY <1>b, <2>1
<1>7. CASE FanUsabilityChanged
  <2>1. PICK m \in {sys.mode} \cup {"MANUAL"} :
          Handle(ExAirFanCtrl([sys EXCEPT !.mode = m,
                                   !.acted = IF m = "AUTO" THEN @ ELSE "NONE"]))
    BY <1>7 DEF FanUsabilityChanged
  <2> DEFINE s == [sys EXCEPT !.mode = m, !.acted = IF m = "AUTO" THEN @ ELSE "NONE"]
  <2>2. s \in Objects /\ s.cmd = sys.cmd /\ s.acted \in {sys.acted, "NONE"}
    BY <1>0 DEF Objects, Modes
  <2>3. Handle(ExAirFanCtrl(s))
    BY <2>1
  <2> HIDE DEF s
  <2> QED BY <1>0, <2>2, <2>3, CtrlFull, HandleFull
<1>8. CASE ExAirFanCtrlTmr
  <2>1. sys'.acted = sys.acted /\ sys.ctrlTmr
    BY <1>0, <1>8, CallbackType DEF ExAirFanCtrlTmr, Handle, Steady
  <2> QED BY <1>a, <2>1
<1>9. CASE ExAirFanRequestTimeTmr
  <2> DEFINE s == [sys EXCEPT !.requestTmr = 0]
             u == [s EXCEPT !.varRequest = FALSE]
             r == IF s.mode # "AUTO" THEN s
                  ELSE IF VarUsable(s) THEN Close(u, {Variate})
                  ELSE Close(s, LongestFan(s))
  <2>1. s \in Objects /\ s.acted = sys.acted
    BY <1>0 DEF Objects
  <2>2. sys' = r
    BY <1>9 DEF ExAirFanRequestTimeTmr, Handle
  <2> HIDE DEF s
  <2>3. u \in Objects /\ u.acted = sys.acted
    BY <2>1 DEF Objects
  <2> HIDE DEF u
  <2>4. r.acted = sys.acted
    BY <2>1, <2>3, CloseKept DEF Kept
  <2>5. sys.ctrlTmr
    BY <1>9 DEF ExAirFanRequestTimeTmr, StagingInv, TimersMatch
  <2> QED BY <1>a, <2>2, <2>4, <2>5
<1>10. ASSUME NEW g \in Fans, FanTimeoutInd(g) PROVE FullStep
  <2>1. sys' = [sys EXCEPT !.cmd[g] = FALSE] /\ (~usable[g] \/ g \in Wayward)
    BY <1>10 DEF FanTimeoutInd, Handle
  <2>2. /\ sys'.acted = sys.acted
        /\ \A f \in Fans \ {g} : sys'.cmd[f] = sys.cmd[f]
    BY <1>0, <2>1 DEF Objects
  <2> QED BY <2>1, <2>2 DEF FullStep
<1>11. ASSUME NEW g \in Fans, Contact(g) PROVE FullStep
  <2> DEFINE m == IF sys.mode = "CLOSE" /\ (\E h \in Fans : runs'[h])
                  THEN "MANUAL" ELSE sys.mode
             b == IF usable[g] THEN ~runs[g] ELSE sys.cmd[g]
  <2>1. sys' = [sys EXCEPT !.cmd[g] = b, !.mode = m]
    BY <1>11 DEF Contact
  <2>2. g \notin Wayward => b = sys.cmd[g]
    <3>1. sys.cmd[g] \in BOOLEAN /\ runs[g] \in BOOLEAN
      BY <1>0 DEF Objects, StagingTypeOK
    <3>2. usable[g] /\ g \notin Wayward => runs[g] # sys.cmd[g]
      BY <1>11 DEF Contact
    <3> QED BY <3>1, <3>2
  <2> HIDE DEF m, b
  <2>3. /\ sys'.acted = sys.acted /\ sys'.cmd[g] = b
        /\ \A f \in Fans \ {g} : sys'.cmd[f] = sys.cmd[f]
    BY <1>0, <2>1 DEF Objects
  <2> QED BY <2>2, <2>3 DEF FullStep
<1>13. ASSUME NEW g \in Fans, NEW cmd \in BOOLEAN, BMSWriteCoil(g, cmd)
       PROVE  FullStep
  <2>1. /\ sys' = [sys EXCEPT !.cmd[g] = cmd]
        /\ sys.mode = "AUTO" => g \in Wayward
    BY <1>13 DEF BMSWriteCoil, Handle
  <2>2. /\ sys'.acted = sys.acted
        /\ \A f \in Fans \ {g} : sys'.cmd[f] = sys.cmd[f]
    BY <1>0, <2>1 DEF Objects
  <2>3. sys.acted = "HIGH" => g \in Wayward
    BY <2>1 DEF StagingInv, ActedInAuto
  <2> QED BY <2>2, <2>3 DEF FullStep
<1>12. ASSUME NEW g \in Fans, ServiceChanges(g) PROVE FullStep
  BY <1>12, <1>b DEF ServiceChanges
<1> QED
  BY <1>1, <1>2, <1>3, <1>4, <1>5, <1>6, <1>7, <1>8, <1>9, <1>10, <1>11, <1>12,
     <1>13 DEF StagingNext

(* Full exhaust at a high CO2 concentration commands every usable fan and    *)
(* is not undone by a timer, a volume, a fan type or a band left over from   *)
(* the earlier staging.                                                      *)
THEOREM FullExhaustHolds == StagingSpec => FullExhaust
<1>1. StagingInv /\ [StagingNext]_stagingVars => [FullStep]_stagingVars
  BY FullExhaustStep
<1> QED BY <1>1, StagingInvariant, PTL DEF StagingSpec, FullExhaust, FullStep
=============================================================================
