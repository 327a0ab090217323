----------------------------- MODULE ExhaustFan -----------------------------
(***************************************************************************)
(* One exhaust fan (Device/fan.c, class ExAirFan): its start/stop relay,   *)
(* its frequency output and the 2 s supervision callback that compares the *)
(* command with the run feedback.  The callback runs in the uC/OS-III      *)
(* timer task with the scheduler locked and none of the methods blocks, so *)
(* every method is one atomic step; the four writers of the fan's fields   *)
(* (dispatcher, timer task, input scan, Modbus slave) interleave freely.   *)
(***************************************************************************)
EXTENDS Integers

CONSTANTS
    Freqs,                  \* the frequencies (0.1 Hz) that are distinguished
    MinFanFreq,             \* MIN_FAN_FREQ
    MaxFanFreq,             \* MAX_FAN_FREQ
    TimeOut,                \* EX_AIR_FAN_TIME_OUT_S: period of the callback
    CtrlErrDelay            \* EX_AIR_FAN_CTRL_ERR_TIME_DELAY_S

ASSUME FreqAssumption  == /\ Freqs \subseteq Nat
                          /\ {0, MinFanFreq, MaxFanFreq} \subseteq Freqs
                          /\ MinFanFreq <= MaxFanFreq
ASSUME TimeAssumption  == /\ TimeOut \in Nat \ {0}
                          /\ CtrlErrDelay \in Nat \ {0}

VARIABLES
    eFanFreqType,           \* "VARIABLE_FREQ" or "CONSTANT_FREQ"
    usSetFreq, usMinFreq, usMaxFreq,
    usRunningFreq,          \* feedback, written by the analogue input scan
    eRunningState,          \* feedback "RUN" / "STOP", written by the DI scan
    xExAirFanErr,           \* fault contact, written by the DI scan
    xExAirFanRemote,        \* remote/local switch, written by the DI scan
    eCtrlCmd,               \* start/stop command "ON" / "OFF"
    xExAirFanCtrl,          \* a command is being supervised
    xExAirFanCtrlErr,       \* latched control fault
    ucTimeCount,            \* seconds of disagreement counted so far
    sSwitch_DO,             \* the relay, "ON" when energised
    sFreq_AO                \* the frequency last written to the analogue output

freqVars  == <<eFanFreqType, usMinFreq, usMaxFreq>>
inputVars == <<usRunningFreq, eRunningState, xExAirFanErr, xExAirFanRemote>>
ctrlVars  == <<xExAirFanCtrl, xExAirFanCtrlErr, ucTimeCount>>
vars == <<freqVars, inputVars, ctrlVars, usSetFreq, eCtrlCmd, sSwitch_DO,
          sFreq_AO>>

FreqTypes == {"VARIABLE_FREQ", "CONSTANT_FREQ"}
Switch    == {"ON", "OFF"}
RunStates == {"RUN", "STOP"}

TypeOK ==
    /\ eFanFreqType \in FreqTypes
    /\ usSetFreq \in Freqs /\ usMinFreq \in Freqs /\ usMaxFreq \in Freqs
    /\ usRunningFreq \in Freqs /\ sFreq_AO \in Freqs
    /\ eRunningState \in RunStates
    /\ xExAirFanErr \in BOOLEAN /\ xExAirFanRemote \in BOOLEAN
    /\ xExAirFanCtrl \in BOOLEAN /\ xExAirFanCtrlErr \in BOOLEAN
    /\ eCtrlCmd \in Switch
    /\ sSwitch_DO \in Switch
    /\ ucTimeCount \in Nat

-----------------------------------------------------------------------------
(* An object comes from calloc and ExAirFanSet makes it a constant-frequency *)
(* fan; the input scan may already have delivered any feedback.              *)
Init ==
    /\ eFanFreqType = "CONSTANT_FREQ"
    /\ usSetFreq = 0 /\ usMinFreq = 0 /\ usMaxFreq = 0 /\ usRunningFreq = 0
    /\ eRunningState \in RunStates
    /\ xExAirFanErr \in BOOLEAN
    /\ xExAirFanRemote \in BOOLEAN
    /\ eCtrlCmd = "OFF"
    /\ xExAirFanCtrl = FALSE /\ xExAirFanCtrlErr = FALSE /\ ucTimeCount = 0
    /\ sSwitch_DO = "OFF"
    /\ sFreq_AO = 0

Clamp_NoUpper(f, lo, hi) == IF f < lo THEN lo ELSE f

Clamp_OverTop(f, lo, hi) == IF f < lo THEN lo ELSE IF f > hi THEN hi + 1 ELSE f

(* First the lower bound, then the upper one: with min > max the result is max. *)
Clamp(f, lo, hi) ==
    LET raised == IF f < lo THEN lo ELSE f
    IN  IF raised > hi THEN hi ELSE raised

(* What vExFan_SetFreq does to the set point and to the output when the      *)
(* command is cmd and the range is lo..hi.                                   *)
ApplyFreq(f, cmd, lo, hi) ==
    IF eFanFreqType = "VARIABLE_FREQ" /\ ~xExAirFanErr
    THEN LET g == Clamp(f, lo, hi)
         IN  /\ usSetFreq' = g
             /\ sFreq_AO' = IF cmd = "ON" /\ usRunningFreq # g THEN g ELSE sFreq_AO
    ELSE UNCHANGED <<usSetFreq, sFreq_AO>>

SetFreq(f) ==
    /\ ApplyFreq(f, eCtrlCmd, usMinFreq, usMaxFreq)
    /\ UNCHANGED <<freqVars, inputVars, ctrlVars, eCtrlCmd, sSwitch_DO>>

SetFreqRange(lo, hi) ==
    /\ eFanFreqType = "VARIABLE_FREQ"
    /\ usMinFreq' = lo /\ usMaxFreq' = hi
    /\ IF usSetFreq < lo \/ usSetFreq > hi
       THEN ApplyFreq(usSetFreq, eCtrlCmd, lo, hi)
       ELSE UNCHANGED <<usSetFreq, sFreq_AO>>
    /\ UNCHANGED <<eFanFreqType, inputVars, ctrlVars, eCtrlCmd, sSwitch_DO>>

MayOpen == ~xExAirFanErr /\ xExAirFanRemote

SwitchOpen ==
    /\ MayOpen
    /\ sSwitch_DO' = "ON"
    /\ eCtrlCmd' = "ON"
    /\ IF eRunningState = "STOP"
       THEN ApplyFreq(usSetFreq, "ON", usMinFreq, usMaxFreq)
       ELSE UNCHANGED <<usSetFreq, sFreq_AO>>
    /\ UNCHANGED <<freqVars, inputVars, ctrlVars>>

SwitchClose ==
    /\ sSwitch_DO' = "OFF"
    /\ eCtrlCmd' = "OFF"
    /\ UNCHANGED <<freqVars, inputVars, ctrlVars, usSetFreq, sFreq_AO>>

Agree == (eCtrlCmd = "ON") <=> (eRunningState = "RUN")

FreqOff_OneSided == usSetFreq - usRunningFreq > 10
FreqOff == \/ usSetFreq - usRunningFreq > 10
           \/ usRunningFreq - usSetFreq > 10

(* vExAirFan_TimeoutInd.  Its five ifs run in this order: repeat the command *)
(* (RetryOpen, ForceClose), count the disagreement, raise the control fault  *)
(* when the count expires, withdraw the command, correct the frequency.      *)
RetryOpen  == eCtrlCmd = "ON" /\ eRunningState = "STOP" /\ MayOpen
ForceClose_Supervised == eCtrlCmd = "OFF" /\ eRunningState = "RUN" /\ xExAirFanCtrl
ForceClose == eCtrlCmd = "OFF" /\ eRunningState = "RUN"

Supervised_OpenOnly == xExAirFanCtrl \/ RetryOpen
Supervised == xExAirFanCtrl \/ RetryOpen \/ ForceClose

Expired(count) == count >= CtrlErrDelay

Withdrawn_FaultIgnored(ctrlErr) == xExAirFanErr \/ ~xExAirFanRemote
Withdrawn(ctrlErr) == xExAirFanErr \/ ~xExAirFanRemote \/ ctrlErr

TimeoutInd ==
    LET counting == Supervised /\ xExAirFanRemote
        count    == IF counting
                    THEN IF Agree THEN 0 ELSE ucTimeCount + TimeOut
                    ELSE ucTimeCount
        pending  == Supervised /\ ~(counting /\ Agree)
        expired  == Expired(count) /\ pending /\ xExAirFanRemote
        ctrlErr  == xExAirFanCtrlErr \/ expired
        withdraw == Withdrawn(ctrlErr)
        cmd      == IF withdraw THEN "OFF" ELSE eCtrlCmd
        correct  == cmd = "ON" /\ eRunningState = "RUN" /\ FreqOff
    IN  /\ ucTimeCount' = IF expired THEN 0 ELSE count
        /\ xExAirFanCtrlErr' = ctrlErr
        /\ xExAirFanCtrl' = (pending /\ ~expired /\ ~withdraw)
        /\ eCtrlCmd' = cmd
        /\ sSwitch_DO' = IF ForceClose \/ (withdraw /\ eRunningState = "RUN")
                         THEN "OFF"
                         ELSE IF RetryOpen THEN "ON" ELSE sSwitch_DO
        /\ IF RetryOpen \/ correct
           THEN ApplyFreq(usSetFreq, eCtrlCmd, usMinFreq, usMaxFreq)
           ELSE UNCHANGED <<usSetFreq, sFreq_AO>>
        /\ UNCHANGED <<freqVars, inputVars>>

(* vExAirFan_ChangeFreqType with ExAirFanVariate or ExAirFanSet[0].          *)
ChangeFreqType(t) ==
    /\ eFanFreqType' = t
    /\ IF t = "VARIABLE_FREQ"
       THEN usMinFreq' = MinFanFreq /\ usMaxFreq' = MaxFanFreq
       ELSE UNCHANGED <<usMinFreq, usMaxFreq>>
    /\ UNCHANGED <<inputVars, ctrlVars, usSetFreq, eCtrlCmd, sSwitch_DO, sFreq_AO>>

(* vSystem_ExAirFanErrClean, for this fan and with the BMS flag set.         *)
ErrClean ==
    /\ xExAirFanErr' = FALSE
    /\ xExAirFanCtrlErr' = FALSE
    /\ UNCHANGED <<freqVars, usRunningFreq, eRunningState, xExAirFanRemote,
                   xExAirFanCtrl, ucTimeCount, usSetFreq, eCtrlCmd, sSwitch_DO,
                   sFreq_AO>>

(* The BMS writes the fan's command coil straight into eCtrlCmd.             *)
BMSWriteCmd(c) ==
    /\ eCtrlCmd' = c
    /\ UNCHANGED <<freqVars, inputVars, ctrlVars, usSetFreq, sSwitch_DO, sFreq_AO>>

(* vSystem_FanRunningState: the command of a usable fan follows its feedback. *)
FollowFeedback ==
    /\ MayOpen
    /\ eCtrlCmd' = IF eRunningState = "RUN" THEN "ON" ELSE "OFF"
    /\ UNCHANGED <<freqVars, inputVars, ctrlVars, usSetFreq, sSwitch_DO, sFreq_AO>>

(* vInputReceive stores each registered channel in turn.                     *)
InputScan ==
    /\ \/ \E s \in RunStates : eRunningState' = s
          /\ UNCHANGED <<usRunningFreq, xExAirFanErr, xExAirFanRemote>>
       \/ \E b \in BOOLEAN : xExAirFanErr' = b
          /\ UNCHANGED <<usRunningFreq, eRunningState, xExAirFanRemote>>
       \/ \E b \in BOOLEAN : xExAirFanRemote' = b
          /\ UNCHANGED <<usRunningFreq, eRunningState, xExAirFanErr>>
       \/ \E f \in Freqs : usRunningFreq' = f
          /\ UNCHANGED <<eRunningState, xExAirFanErr, xExAirFanRemote>>
    /\ UNCHANGED <<freqVars, ctrlVars, usSetFreq, eCtrlCmd, sSwitch_DO, sFreq_AO>>

(* Everything but the supervision callback: the dispatcher's calls, the      *)
(* Modbus slave and the input scan.                                          *)
OtherSteps ==
    \/ \E f \in Freqs : SetFreq(f)
    \/ \E lo, hi \in Freqs : SetFreqRange(lo, hi)
    \/ SwitchOpen
    \/ SwitchClose
    \/ \E t \in FreqTypes : ChangeFreqType(t)
    \/ ErrClean
    \/ \E c \in Switch : BMSWriteCmd(c)
    \/ FollowFeedback
    \/ InputScan

Next == TimeoutInd \/ OtherSteps

Spec == Init /\ [][Next]_vars

(* The periodic timer started in vExAirFan_Init is never stopped and nothing *)
(* disables its callback: the only fairness the code gives.                  *)
FairSpec == Spec /\ WF_vars(TimeoutInd)

-----------------------------------------------------------------------------
(* The disagreement count never survives a callback at or above the fault    *)
(* threshold: whatever order of local/remote switching, commands and faults  *)
(* the fan sees, TimeoutInd expires the count in the tick that reaches it.   *)
CountBounded == ucTimeCount < CtrlErrDelay

(* A frequency written to the analogue output (fan.c:85) respects the range  *)
(* in force, through every path that writes it: a new set point, a new range *)
(* (which the BMS may give with min > max), a start or a correction by the   *)
(* callback that reuses a set point made under an older range.               *)
OutputInRange ==
    [][sFreq_AO' # sFreq_AO
         => /\ sFreq_AO' <= usMaxFreq'
            /\ usMinFreq' <= usMaxFreq' => sFreq_AO' >= usMinFreq']_vars

(* A start command does not stay open: the fan runs or the command is taken  *)
(* back (fan.c:207-209), however the fault and remote contacts bounce.       *)
CommandSettles ==
    (eCtrlCmd = "ON" /\ eRunningState = "STOP")
        ~> (eCtrlCmd = "OFF" \/ eRunningState = "RUN")

(* A fan that runs though its command is off, its fault contact is closed,   *)
(* it is on local or its control fault is latched does not keep its relay.   *)
(* The command is switched off without the relay by the BMS's coil, by       *)
(* FollowFeedback and, for a fan that stands still, by the callback          *)
(* (fan.c:207-213), and such a fan may start afterwards; only the callback's *)
(* repeated SwitchClose (fan.c:181, 211) releases it then.                   *)
RelayReleased ==
    ~<>[](/\ eRunningState = "RUN" /\ sSwitch_DO = "ON"
          /\ eCtrlCmd = "OFF" \/ ~MayOpen \/ xExAirFanCtrlErr)

(* A fan under remote control that goes on disobeying its command, in either *)
(* direction, gets its control fault (fan.c:200-205).                        *)
DeafFanReported ==
    ~<>[](~Agree /\ xExAirFanRemote /\ ~xExAirFanCtrlErr)

(* A running variable-frequency fan that stays more than 1 Hz off a steady   *)
(* set point has that set point on its output (fan.c:216-223).               *)
FrequencyDelivered ==
    ~<>[](/\ eFanFreqType = "VARIABLE_FREQ" /\ ~xExAirFanErr
          /\ xExAirFanRemote /\ ~xExAirFanCtrlErr
          /\ eCtrlCmd = "ON" /\ eRunningState = "RUN"
          /\ usRunningFreq \notin (usSetFreq - 10)..(usSetFreq + 10)
          /\ sFreq_AO # Clamp(usSetFreq, usMinFreq, usMaxFreq))
=============================================================================
