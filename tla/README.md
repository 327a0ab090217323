# Verification of the GreeIntense group controller

The firmware in `src/` runs on one LPC controller that supervises two rooftop
air-conditioning units, four exhaust fans, CO2 and temperature/humidity sensors
and an alarm relay, and is itself commanded by a building management system (BMS)
over Modbus. This directory holds TLA+ models of its control logic, TLC
configurations that check them on small instances, and TLAPS proofs of the
properties that matter for every instance.

## 1. The system

Everything the authors wrote is in `src/system`, `src/Device`, `src/Module`,
`src/App`, `src/OOC` and the multi-instance parts of `src/FreeModbus`. uC/OS-III,
lwIP, CMSIS and the chip drivers are vendored.

| component | state it keeps | operations |
|---|---|---|
| exhaust fan (`Device/fan.c`) | command, run feedback, fault, remote switch, control fault, seconds of disagreement, frequency range and set point, relay, analogue output | start, stop, set frequency and range, change type, 2 s supervision callback |
| event pump (`Module/md_monitor.c`, `Module/md_event.c`, `system/system.c`) | list of monitored variables with a shadow value each, one message buffer, the state of the two receiving tasks | register, scan, forward, dispatch, 10 s poll |
| operating mode (`system/systemctrl.c`, `unitctrl.c`, `fanctrl.c`) | mode, unit and fan fault flags, system state, the BMS's copy of the mode | mode request, unit or fan fault, remote switch, run state, fault reset |
| alarm (`system/systemctrl.c` 343-495) | relay, enable flag | raise, ask to clear, reset, enable |
| sensors (`Device/sensor.c`, `system/sensorctrl.c`) | five samples, average, fault flag each; system-wide averages and flags | sampling callback, averages, faults |
| rooftop units (`Device/modularRoof.c`, `system/unitctrl.c`) | command, state, running mode, link and stop faults, limits | start, stop, set mode, 5 s callback |
| running mode (`system/unitctrl.c` 134-556) | fan, cool, heat or wet; eight condition timers and six interval timers | evaluate, timer callbacks |
| fan staging (`system/fanctrl.c` 192-752) | requested volume and time, number of fans wanted and open | request, control period, request timer |
| set points (`system/systemctrl.c` 112-336) | fresh air, temperature, humidity, CO2 thresholds | one setter each |
| BMS registers (`Device/bms.c`) | table of registers and coils | Modbus slave writes |
| link supervision (`FreeModbus/master/functions/mbtest_m.c`, `mbscan_m.c`) | on line, data ready, synchronised, failed tests, delay timer per device; the run resource | test, state test, read, synchronise, write, delay timer |
| Modbus master port (`FreeModbus/master`: `mb_m.c`, `mbrtu_m.c`, `mbportevent_m.c`, `mbporttimer_m.c`) | event field, sender and receiver state, receive buffer, port timer | request, poll, UART interrupts, timer expiry |
| parameter store (`Module/md_eeprom.c`) | eight pages mirrored in the EEPROM, first-run flag | read, first write, periodic write |
| inputs and outputs (`Module/md_input.c`, `md_output.c`) | channel tables | scan, write |
| DTU, meter, display, clock, watchdog, start-up | no control state | - |

### How the parts interact

Devices and the BMS change variables; nobody calls the controller. The monitor
task compares each registered variable with a shadow once a second and posts the
changed one to the event task, which forwards it to the dispatcher
(`vSystem_EventPollTask`), which compares the address it got with every variable
it knows and calls the handler. Handlers write device commands, the mode and
copies of them in the BMS's registers; those are variables too. A poll task
recomputes averages and copies set points every 10 s. Devices have timer
callbacks of their own (fan 2 s, unit 5 s, sensors).

Scheduling (uC/OS-III, `App/app_config.h`, `uCOS/uC_CFG`): the dispatcher has
priority 4; poll, event and monitor task share priority 5 and there is no time
slicing (`OS_CFG_SCHED_ROUND_ROBIN_EN` is 0); input scan 6, Modbus slave and
master poll 8, master scan 9; timer callbacks run in the timer task (11) with the scheduler
locked. No handler blocks. So one handler, one callback or one register write is
one atomic step, and the steps of the different tasks interleave: this is the
granularity of every module but `MasterPort`, where interrupts split the steps of
tasks and callbacks.

### What is hard

* One set of fields, four writers: the BMS's coil, the dispatcher, the input scan
  and the callback all write a fan (`fan.c:181`, `fanctrl.c:39`, `bms.c:605`).
* A request is checked, marked and sent in three accesses to state that the UART's
  interrupts write too (`mbrtu_m.c:207`, `223`, `224`).
* Delivery is lossy: queues of size zero, one shared buffer, shadows that are
  updated before the post, a dispatcher that is deaf until the EEPROM was read.
* Decisions use flags that lag behind the devices, and several handlers decide
  about one thing (mode, alarm) from different halves of the truth.
* Timers of different periods look at the same link (`mbtest_m.c`, `modularRoof.c:386`).
* Integers of 8, 16 and 32 bits are mixed in the fan-staging arithmetic.
* A Modbus request is shared by four parties (scan task, poll task, timer task,
  UART interrupts) with one event field between them; devices answer late or not
  at all, and the run resource is never given back (`mbportevent_m.c:197`).
* The staging control consists of stages that all decide on contacts which the
  commands of the stage before have not moved yet, and leaves timers behind.
* The parameter store writes page by page and may lose power between two pages.

What makes each part correct: a fan that may not run does not keep its relay, is told
a frequency in its range, and a fan that disobeys is reported after the full delay;
every change is handled or accounted for, and what the poll recomputes does not depend
on the pump; the mode never contradicts what the controller knows and has the plant it
needs, the BMS sees the mode that is in force; the alarm sounds
exactly while something is wrong and it is enabled; a device is dropped only for
good reason and one that answers is read; a request ends and is reported as done
only if it was answered; the number of fans meets the demand, and high CO2 gets all
of them; samples sum up to their average; commands reach the units; the parameter
store is never half initialised.
`PROJECT.json` lists the hazards line by line with the properties that cover them.

## 2. Modules

| module | models | checked by | proved in |
|---|---|---|---|
| `ExhaustFan` | one exhaust fan and its writers | `FanSupervision` | `FanProofs` |
| `EventPump` | monitor, event task, dispatcher, poll | `PumpDelivery`, `PumpLostChange` | `EventPumpProofs` |
| `GroupMode` | operating mode and fault flags | `GroupModes` | `GroupModeProofs` |
| `GroupAlarm` | alarm relay and the handlers that judge it | `AlarmSounding` | `GroupAlarmProofs` |
| `ParamStore` | EEPROM task, its pages, writers of the parameters, power | `ParamDurability`, `ParamOverrun` | `ParamStoreProofs` |
| `RunMode` | the switching rules of automatic mode, their timers, poll and requests | `RunModeSwitching` | `RunModeProofs` |
| `LinkSpec` | what users of a device's `xOnLine` may rely on (abstract) | - | - |
| `ModbusLink` | bus supervision: tests, retries, delay timers, scans, the run resource | `LinkSupervision`, `WriteScan` | `ModbusLinkProofs` |
| `RequestSpec` | what the scan may rely on when it asks a device (abstract) | - | - |
| `MasterPort` | one request of the RTU master, down to interrupts and timer | `MasterPort` | `MasterPortProofs` |
| `FanStaging` | which exhaust fans are commanded, and when | `FanStaging` | `FanProofs` |

`MC...` modules hold values of constants, symmetry sets, scan orders and, in
`MCWriteScan`, the step that would follow the write task's wait. Operators with a suffix
(`Clamp_NoUpper`, `Shadowed_Never`, ...) are plausible wrong versions of the operator they are named after, kept to show that
the properties notice them; no specification uses them.

### ExhaustFan
The variables are the fields of `ExAirFan` plus the relay and the analogue
output. `SwitchOpen`, `SwitchClose`, `SetFreq`, `SetFreqRange`, `ChangeFreqType`
and `TimeoutInd` are the methods of `fan.c`; `ErrClean` and `FollowFeedback` are
what the dispatcher does to the fields directly, `BMSWriteCmd` the coil,
`InputScan` one input channel being stored. `TimeoutInd` is the whole callback:
its five consecutive `if`s are the local definitions of its LET, in order.

### EventPump
The variables that have a handler are a constant set; `Registered` says which of
them the monitor really watches, `UninitRegistered` which are registered through
the uninitialised pointer of `sensor.c:139` and `sensor.c:293` (any subset of
them may be). A scan sets every shadow and leaves the last changed variable in
the buffer; `Forward` delivers the buffer to the dispatcher if it pends.
`Accept` and `Reject` are the two outcomes of a handler. What a handler does
beyond that is the matter of the other modules.
The monitor compares memory, not variables: `Cell` says which variables the
registered type of each spans. `xCommErr`, one byte, is registered as `int16`
(`modularRoof.c:346`), so its cell holds `xStopErrFlag` too, and a change of the one
is reported as one of both. `HandlerReads` says which variables a handler acts upon:
`vSystem_UnitErr` is bound to both flags and reads both, so either report brings both
up to date.

### GroupMode
Mode, flags, reported state, the BMS's register, and per device what the handlers
look at. `due` is the set of kinds of changes whose handler has yet to run: a
handler reads the devices when it runs, so several pending changes of one kind
are one, and a report that the pump loses is one that stays due until the next
change of its kind. `Notified` says which kinds the monitor watches at all: the
committed firmware has the registrations of the fans and of the BMS commented out
(`fan.c:234`, `bms.c:747`), the handlers are written for all of them, and the
theorems hold for every choice. The pump loses reports, so no liveness is stated: that
a mode is left, or a request answered, in the end is more than the firmware
guarantees. Of a unit's running mode only `modeKnown` is kept, whether it is one of
the four the switches list: it is 0 until it is first set or read, and comes from the
unit as it is. The switches' `default: break` (`unitctrl.c:103`, `240`, `fanctrl.c:89`)
leaves the state as it was (`StatesOfPlant`, `StateAfterRunningMode`), which is why
`StateTruthful` speaks of units with a known mode. Device commands are left out.

### GroupAlarm
The relay and the enable flag, and for each kind of condition the devices that
meet it. A unit's link (`offline`) and its fault flag (`commErr`) are separate:
the flag follows the link with the unit's 5 s timer, the alarm looks at the link.
`GoOffline` needs a unit whose flag is clear: `LinkSpec`, which `ModbusLink`
implements, says that a drop takes two delay periods of 5 s since the device last
answered, and the unit's own 5 s timer has cleared the flag by then.
Averages and sensor flags take any value at any time. `unheard` and `co2Unheard`
record that a threshold changed the verdict without anybody being told, `cleaned`
that the BMS reset the alarm.

### ParamStore
A type has a value in its pages (`store`), in its buffer (`buf`) and in the
variables (`val`); the first-run flag, the last byte of the uint8 page, is kept
apart. `Check`, `FirstWrite`, `ReadPage`, `CopyAll` and `Scan` are the task: it
sleeps after each driver call, so a type is a step, `todo` holds the types still
to come and `Turn` takes them in the order of their pages. `PagesWritten`
computes from the layout which pages a driver call programs; the types whose
pages it reaches beside its own (`Reached`) get any value, because what lies
behind a buffer in RAM is the linker's choice. Reading overruns the buffers in
the same way; that is left out for the same reason. uint16 pages are two: each of
their parameters is old or new after a power cut, and one value stands for all.
`PowerCut` comes between any two steps; RAM then holds what the constructors of
the next start leave there. Run times advance by one period of 10 s, at most once
between two looks of the task (a pass takes about 3 s, the boot less than 1 s).

### RunMode
Eight rules, given as tables (`From`, `To`, `Interval`) and a condition each
(`Holds`), move the units between ventilation, wet film, cooling and heating.
`ChangeUnitRunningMode` starts the delay timer of a rule, `AdjustUnitRunningMode`
is what the callback of any delay timer does. A timer counts minutes, is due at 0
and `Off` otherwise; all timers due at a tick are served before the next one, in
any order, and tasks may run in between. Delays and intervals may be 0 (`bms.c:362`);
the kernel creates no timer for them (`os_tmr.c:154`), so it never runs (`Loaded`). `Interfere` counts the steps by which
something else changes mode, state or target; readings and compressors change
without limit. Whether a system mode is admissible is `GroupMode`'s matter, and
the set points sent to units are left out. `since` and `byAuto` are history: the
minutes since the last switch by a rule, and that nothing else changed the mode.
The firmware reads the timer of interval 2 (`unitctrl.c:307`) and never starts
it, so no interval holds for the switch from ventilation to heating. Standby, which the
comments at `unitctrl.c:378` and `519` exempt only before the first start, is exempted
for as long as `xCompFirstRun` is set, and the `&&` at 380 and 520 keeps it from being
cleared: no property says that standby ends cooling or heating.

### LinkSpec and ModbusLink
`LinkSpec` has three variables: the flag, the unanswered tries and the delay
periods since the last accepted test. A device comes on line by an accepted test
and is dropped by a try that goes unanswered, if `Misses` tries and `Pauses`
delays came before. `ModbusLink` has the fields of `sMBSlaveDev`, the place of
the read task (`rPass`, `rDev`, `rJob`, `rTry`, `rSent`) and the owner of the run
resource. The read task walks the devices twice per round: `VisitTest` is the
walk of `vMBDevTest`, `VisitScan` that of `vMBMasterScanReadSlaveDev`. `Request`
sends and blocks; `Retry`, `DevTest`, `CurStateTest` and `ScanReadData` are what
the task does with the outcome up to its next request. Every outcome other than a
timeout or a wrong value is accepted, a damaged frame included (`mbtest_m.c:229`).
`Link == INSTANCE LinkSpec WITH up <- xOnLine` is the refinement; `silent` and
`pauses` are history variables for it. Each device has one data table, as in the
firmware. `RunResRelease` is the call of `OSMutexPost` with the kernel's own tests
on option and owner: it fails always, so the mutex stays with the read task.
`ScanWrite` takes the write task to its wait and no further; `MCWriteScan` adds the
step after the wait and shows that it is never reached.

### MasterPort
A request from `eMBMasterReqReadHoldingRegister` to the code of
`eMBMasterWaitRequestFinish`. `ReqRead`, `TimeDly` and `WaitRequestFinish` are the
scan task; `FrameSent`, `FrameReceived`, `Execute` and `ErrorProcess` the cases of
`eMBMasterPoll`; `TransmitDone` and `ReceiveFSM` the UART's interrupts; `TimerExpired`
and `ShortFrame` the beginnings of the timer's callback. An interrupt may come wherever
the poll task or the timer task (the scheduler is locked, interrupts are not) reads or
writes the two state machines a second time, so their routines are split there:
`eMBMasterRTUSend` into `FrameSent` (the check, 207), `SendXmit` (223) and `SendStart`
(224), with `sending` for the place in it; the callback into its first switch,
`TimerExpiredRcv` (449), `TimerExpiredSnd` (451) and `TimerExpiredEnd` (468-469, which
no interrupt tells apart), and for a fragment `ShortFrame` (423), `ShortFrameRcv`
(431), `ShortFrameSnd` (432) and `ShortFrameEnd` (433), with `expiring` for the place.
A byte between the check and the start leaves the receiver in `RX_RCV` with the sender
in `TX_XMIT` or `TX_IDLE`; its timer may then make the sender wait (`TX_XFWR`) before
the frame is out, in which case the transmit interrupt does nothing (400) and the UART
is "mute" until the next request. So the assertions at 266 and 353, which are compiled
out, do not hold, and a receiver in `RX_RCV` may meet a sender in any state; what does
hold is that a sender that waits has some timer, and one that transmits has the
transmitter. The poll task (priority 8) is above the scan task (9) and the timer task (11), so no task goes
on while an event waits for it. A frame is a head and a tail; a single chunk is a
fragment, noise is a chunk of its own, and a frame is intact if head and tail of one
answer lie in the buffer with nothing else. One answer may be under way and
one more be late. Answers have the function code of the request or are exceptions;
an intact answer with a code that has no handler, which `eMBMasterPoll` would take for
a success without storing anything (`mb_m.c:346-393`), is left out, so what the module
says of successes is about devices that answer with the code they were asked. Broadcasts and the convert delay are not used by this firmware.
`served` and `code` are history: the answer executed for the request, and its code.
`RequestSpec` is the same seen from the scan: `Ask`, `Store` and `End`, with `waiting`
for `pending`, `req` for `asked` and `served` for `stored`. It lets an answer be stored
after its request was given up, and lets a request end in error although one was, because
the port does both.

### FanStaging
The object is one record, `sys`: each function of `fanctrl.c` that changes it is an
operator from record to record, and a handler is a composition of them, in the
order of the calls. `Stage` is the body that `vSystem_ExAirFanConstantAlwaysOpen`
and `_ConstantSwitch` share. What the code reads of the fans, `usable` and `runs`,
changes in between, and a contact follows its command late. The request time and
the numbers wanted are functions of the volume and are not stored, because every
handler computes them before it reads them. CO2 has three levels, above, in and
below the band. `ChangeExAirFanType`, `SetCO2AdjustDeviat` and a change of the
running mode store and control nothing, as in the code; the deviations 1 and 2 of
the comments at `fanctrl.c:699` and `727` are not what it compares with, and
the ratio for heating is never stored (`fanctrl.c:759`), so `target` is the volume
the code really uses. A report of the running state is handled at once (late ones are in
`ExhaustFan` and `GroupMode`): the command of a usable fan follows its contact, as
`vSystem_FanRunningState` has it.

`Wayward` are the fans that need not do what they are told: they start and stop by
themselves, get control faults and so lose their commands (`fan.c:207`), and the BMS
writes their coils in automatic mode too. The other fans follow in time, and the BMS
writes their coils only while the mode is not automatic. The control looks at the fault
contact and at the switch and never at the control fault (`fanctrl.c:240`, `328`), so it
goes on counting on a wayward fan; what it does to the others is what the
properties are about. `ObedientKeepsCommand` shows of `ExhaustFan` that a fan that
follows in time loses its command to the supervision only when it is out of service.
`acted` is history: the level the control last acted on.

## 3. Runs

| run | instance | what it shows |
|---|---|---|
| `FanSupervision` | frequencies 0, 49.5, 50 Hz; the code's 2 s and 10 s | types; output in range (`OutputInRange`); a start command ends (`CommandSettles`), a fan that runs without being allowed to does not keep its relay (`RelayReleased`), a deaf fan is reported (`DeafFanReported`), a wrong frequency is corrected (`FrequencyDelivered`) |
| `PumpDelivery` | four variables (the two fault flags of a unit, one registered too wide; a sensor value, the BMS's mode), two values, two changes each | every change of a cell is dispatched, in flight, unseen or lost, and no handler is called more often than its cell changed (`ChangesAccounted`); polled variables are brought up to date (`ResyncedUpToDate`) |
| `PumpLostChange` | a unit's supply-air temperature too, registered as in the firmware | violated: of two changes in a scan one is lost (`UnitChangeHandled`) |
| `GroupModes` | two units, one fan | flags, mode, BMS register and state agree with the plant as far as its reports are handled (`FlagsTruthful`, `AutoHasPlant`, `EmergencyHasUnit`, `BMSMirror`, `StateTruthful`) |
| `AlarmSounding` | two units, a fan, two kinds of sensors | a reported condition goes on sounding until it is over or reset (`ConditionsSounded`) |
| `ParamDurability` | uint8, uint16, int16 and run-time types, two settings, run time wrapping at 5, interval 3 | defaults are written once in a board's life (`FirstRunOnce`); no unwritten page is used unless the first write was cut (`InitialisedUnlessCut`); pages no other write reaches are current (`SafePagesCurrent`); at most one interval of run time is lost (`RunTimeLossBounded`); a setting that stays is stored (`SettingStored`) |
| `ParamOverrun` | uint8, uint16, int16 | violated: writing the uint16 parameters spoils the page of the int16 one (`AllPagesCurrent`) |
| `RunModeSwitching` | temperatures 2, 6, 7; targets 4, 6; energy-saving temperature 6; thresholds 1, delays 1 (rule 7: 0), intervals 2 (the sixth: 0); two interfering steps | no switch by a rule is undone before its interval (`IntervalKept`); rules rest outside automatic mode (`RulesOnlyWhenActive`); a room that stays too warm or cold is cooled or heated if no delay on the way is 0 (`WarmReachesCool`, `ColdReachesHeat`) |
| `LinkSupervision` | two devices, one tested by value | the flags of the supervision fit together (`LinkInv`); `xOnLine` implements `LinkSpec` (`DropsEarned`); a device whose line stays good is read again and again (`Refreshed`) |
| `WriteScan` | one device | violated: the write task waits for the run resource for ever (`WriteServed`) |
| `MasterPort` | requests to two devices, of one size; buffer of two chunks; two sleeps | with interrupts in the middle of the send routine and the timer callback, a waiting sender has a timer, a transmitting one the transmitter, and the event field an outcome where one is read (`PortInv`); it implements `RequestSpec`: a request has one end and is reported as done only after an answer of its device in its size was stored (`RequestsServed`); every request ends (`RequestEnds`) |
| `FanStaging` | two fans, one of them wayward; volumes of a third of a fan, just over one, and five thirds; the code's defaults for the rest | timers run only where they have work (`StagingInv`); a control leaves between the always-open and the requested number of fans commanded (`ControlMeetsDemand`); full exhaust is reached and not undone for a fan that follows its commands (`FullExhaust`) |

The runs marked violated state what a comment of the source says; `PROJECT.json`
quotes it under "findings". Comments the models contradict without a run of their
own are notes of the hazards there: a relay left closed when a command is withdrawn
(`fan.c:211`), automatic mode with a faulty remote and a healthy local fan
(`fanctrl.c:844`), an alarm that is not judged again (`systemctrl.c:420`), standby
exempted for ever (`unitctrl.c:520`), the frequency of the substitute fan
(`fanctrl.c:265`), an answer taken for that of another range (`mb_m.c:331`) and the
assertions that sender and receiver exclude each other (`mbrtu_m.c:266`, `353`).

**Bounds.** Two is the smallest number of units for which "some" and "all" differ;
the handlers only count, and the safety properties are proved for all numbers of
units and fans. Units
are interchangeable, so `AlarmSounding`, a safety run, uses symmetry; no run with
a liveness property does. Three frequencies separate below, in and above a range, and
495 and 500 differ by less than the dead band of 10. `PumpDelivery` lets each
variable change twice: a change, and one that overtakes its report; it registers
the BMS's variable, which the firmware does not, so that refusals happen. The
alarm's outdoor and indoor sensors are treated alike and one stands for both.
`MaxWrites`, `MaxRequests` and `MaxDwell` are the only bounds on counters: two
interfering steps let automatic mode be entered and then be left or overridden
once with any timers running, and the proofs have no such limit. An interval
longer than a delay makes a delay end while its interval runs. The temperatures
are too cold, between the thresholds of wet film and cooling, and too hot for
target 4, and the targets lie on both sides of the case distinction of
`usSystem_ChangeEnergyTemp`. Two
devices let a request to one come between two tests of the other, and the counters
of `ModbusLink` are bounded by the code. `MasterPort` needs two devices with equal sizes for a
late answer to be refused by its address alone, and a repeated request for one to be
taken; two sleeps instead of ten let a request be given up before, between and after
the parts of an answer; the proofs have no such bounds and cover unequal sizes. Two
fans, both constant or one of them variable, let "some" and "all" differ and the
always-open number reach its limit of one less than all; the volumes give a surplus
worth a timed run, one too small for it, and one above the share of the minimum
frequency. Running hours, which change once an hour, are constant in a run, and a view
identifies states that differ only in the frequency last set, which no handler reads.
The parameter store
needs no bound: the run time wraps, at 5 periods instead of 65535 h, and is written
every 3 changes instead of 720, so that wraps, writes and cuts meet.

**Fairness.** The fan's callback is periodic and never stopped (`fan.c:270`): weak
fairness of `TimeoutInd`, none for anything else, so commands, faults and inputs
may go on for ever or not. The monitor, event and poll tasks loop and the EEPROM
read ends: weak fairness of each. `GroupMode` has no fairness, because reports to its
handlers may be lost. The EEPROM task (priority 7) waits for time only and
the tasks above it block between their steps: weak fairness of its steps; nothing
says that power comes back or that parameters stop changing. In `RunMode` the timer
task and the poll task loop for ever: weak fairness of each; the room, the
compressors and the BMS are not fair. In
`ModbusLink` the read task loops, each of its requests ends (`RequestEnds` of
`MasterPort`, 2 s at the latest) and a started one-shot timer expires: weak fairness
of both, none for lines and devices. `WriteScan` also assumes strong fairness of the
step after the mutex: a free mutex would be given to the task that waits. In
`MasterPort` queued events are handled, a transmission ends, and a routine of the poll
task or the timer task that was begun goes on: weak fairness. The scan task sleeps 200 ms at a
time while the work of poll task and interrupts takes microseconds, so it runs if it
can run again and again: strong fairness of its wait, also against endless noise.
Answers need not come, and the port timer need not expire.

## 4. Proofs

All theorems hold for every value of the constants that satisfies the named
assumptions.

* `FanProofs`, on `ExhaustFan` (`FreqAssumption`, `TimeAssumption`): `TypeCorrect`;
  `CountAlwaysBounded`, inductive with the types because the count is compared in
  the step that raises it; the action property `OutputAlwaysInRange` follows step by
  step from `ClampInRange`.
  `ObedientKeepsCommand` is of the form assumption and guarantee: its hypothesis
  `FollowsInTime`, that the callback which could expire the count finds command and
  contact agreeing, is what a fan outside `Wayward` does in `FanStaging`, and its
  conclusion is the guard of `FanTimeoutInd` there.
* `FanProofs`, on `FanStaging` (`FansAssumption`, `VolumeAssumption`, `ParamAssumption`):
  `StagingInv` is inductive: the two timers match (`TimersMatch`) and a level is acted on
  in automatic mode only (`ActedInAuto`). Each call a handler is made of has a lemma
  that says which fields it keeps (`Kept`, `Steady`), and the handlers follow by
  composition. `DemandMet`: in any well-typed state a control leaves the right number
  of fans commanded. `Demand` and `Serves` say of an object between two calls how many
  of the usable constant fans are commanded; `StageOn` says what one staging decision
  makes of that, and `AlwaysOpenDemand`, `SwitchDemand`, `CallbackServes` and
  `PeriodicServes` follow the calls of a control, which all look at the same contacts.
  Underneath lies `ShortestSize`: choosing k fans by running hours yields k of them, or all.
  It needs an induction over k, for which the library's theorems cannot be used; it is
  done by hand, from the least k that fails (`WFMin`) and the least fan of a set
  (`LeastFan`). `FullExhaustHolds` is proved step by step from `StagingInv`: `AllFansFull`
  and `CtrlFull` give the commands at the step that acts on a high level, and afterwards
  no timer runs that could withdraw one, and the mode in which the BMS writes every
  coil is not left without forgetting the level.
* `EventPumpProofs` (`VarsAssumption`, `NoMsgAssumption`): the account
  `ChangesAccounted` (dispatched + in flight + unseen <= changes of the cell) is
  inductive for any cells, given that the buffer of a scan holds a variable that
  changed (`LastChangedIsChanged`, from the fact that a finite set of positions
  has a greatest one, `GreatestPosition`).
* `GroupModeProofs` (`DevicesAssumption`): the invariant adds `AutoRemote`
  (automatic mode has a remote fan unless a report on that is due) to the checked
  properties; `AutoHasPlant` then follows from it, and `EmergencyHasUnit` too, from mode,
  flags and plant agreeing. One lemma per conjunct, one step per action.
* `GroupAlarmProofs` (`SensorsAssumption`): types, `RelayOnlyIfEnabled` and
  `ConditionsSounded` are inductive together. `Verdict` says what a handler's
  judgement does to the relay; each handler's lemma applies it to what the handler
  looks at. The guard of `GoOffline` is needed: without it a unit could come back
  and drop again under an old fault flag and be known as faulty in silence.
* `ParamStoreProofs` (`TypesAssumption`, `DomainAssumption`): one inductive
  invariant in four parts besides the types. `FlagInv` follows the flag from the
  buffer to the page; `WrittenInv` says that the first write has reached what it
  has passed; `PagesInv` that what was read is in the buffer and safe pages follow
  it; `LossInv` that the buffer is ahead of the page by the changes counted and
  the run time ahead of the buffer by one tick, which the bound alone does not
  carry. `RunTimesNotReached` evaluates the layout: no write spoils the run times.
* `ModbusLinkProofs` (`LinkAssumption`): `LinkInv` is inductive: a device that missed
  tests keeps its request (`SuspectTested`), its counter is paid for by unanswered
  tries and by delays ended or running (`CountEarned`), and the place of the read
  task says what it knows of its device (`ReaderPlaced`). `LinkImplemented` is the
  refinement: each step is a step of `LinkSpec` or a stutter; `DropStep` needs
  `CountEarned`, because a drop happens on the counter and `LinkSpec` asks for tries
  and delays. With it goes the guard of `GroupAlarm!GoOffline`.
* `MasterPortProofs` (`PortAssumption`): `PortInv` is inductive: a waiting sender has
  a timer unless the callback is about to end the wait or to time it (`WaitsTimed`), a
  transmitting one has the transmitter (`XmitHasUart`), a
  finished request has left its outcome in the event field (`OutcomeLeft`), what was
  executed fits the request (`ServedFits`). One lemma per party, one step per part of a
  routine that interrupts can split. `SuccessMeansAnswer`
  follows from the last two. `RequestsImplemented` is the refinement of `RequestSpec`:
  only `ReqRead`, `Execute` and `WaitRequestFinish` show, and the last needs
  `OutcomeLeft`, because the code of a request is read from a field that also carries
  orders and whose default is success.
* `RunModeProofs` (`TimesAssumption`, `BoundsAssumption`): that intervals are kept is
  not inductive; `DwellCovered` is: in a mode a rule chose, the minutes since the
  switch and the minutes left on each interval timer of the mode add up to the
  interval. `OnlyRulesSwitch` says that only a rule whose interval timer does not
  run changes such a mode, and `Tables` that this timer is one the mode's entry
  started (all rules but 2). `RulesRest` follows step by step.

`CountAlwaysBounded`, `ModeAlwaysRespectsFlags`, `RelayNeedsEnable`, `SuccessMeansAnswer`
and `ObedientKeepsCommand` are proved and not run: the proofs cover every instance.

Only model-checked: all liveness properties (weak and strong fairness are out of the
prover's reach) and everything the violated runs say. Every invariant and every action
property of a passing run is proved.

## 5. Not modelled, and the plan

The repository is mostly code that is not the controller's: uC/OS-III, lwIP, CMSIS
and the chip drivers, with their examples. They are used as they come; what
the models need of them (priorities, the timer task's locked scheduler,
`OSMutexPost`, queues of size zero) is taken from their source where an argument
rests on it. The share of all lines of the repository that these models cover is
therefore small, the share of the controller's own control logic is not.

Left out for good: analogue conversion, display, clock, start-up, watchdog, DTU and
meter (no decision depends on them); the Modbus slave, whose requests are single
steps of the modules they write to; TCP, ASCII and the function codes the scan does
not use.

Left open:

1. Sensors: five samples, their sum and average, the fault flag; the system-wide
   averages with the uninitialised sums of `unitctrl.c:602`.
2. Rooftop units: command and state, opening and closing the group, the poll that
   repeats commands; then whether closing reaches every unit (`modularRoof.c:63`).
3. Set points: fresh air split over the usable units in base 65535
   (`systemctrl.c:147`), overwritten when a unit fails (`unitctrl.c:763`).
