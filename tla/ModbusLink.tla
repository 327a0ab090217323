----------------------------- MODULE ModbusLink -----------------------------
(***************************************************************************)
(* The Modbus master's supervision of its slave devices                    *)
(* (FreeModbus/master/functions/mbtest_m.c and mbscan_m.c, with the run    *)
(* resource of port/mbportevent_m.c), in the build the repository ships:   *)
(* RTU over uC/OS-III.                                                     *)
(*                                                                         *)
(* Two tasks of one priority scan the list of devices.  The read task      *)
(* walks it twice per round: the first walk tests the devices that are off *)
(* line, the second tests the suspects again and reads the others.  Each   *)
(* of its requests blocks it until the port reports an outcome, so that    *)
(* timers and the write task run in between.  The write task writes the    *)
(* registers that changed; a request needs the run resource, a mutex.      *)
(*                                                                         *)
(* What a request does to the registers is left out: this module is about  *)
(* the flags that say whether a device is there.  silent and pauses are    *)
(* history variables for the refinement of LinkSpec.                       *)
(***************************************************************************)
EXTENDS Naturals

CONSTANTS
    N,          \* the length of psMBSlaveDevsList
    Checked     \* the devices whose test compares a value (xCheckVal)

Devs == 1..N

ASSUME LinkAssumption == N \in Nat \ {0} /\ Checked \subseteq Devs

MB_TEST_RETRY_TIMES   == 2      \* tries per test
MB_TEST_OFFLINE_TIMES == 2      \* failed tests that are forgiven

VARIABLES
    xOnLine, xDataReady, xSynchronized, xStateTestRequest, xDevOnTimeout,
    ucOfflineTimes,     \* fields of sMBSlaveDev, per device
    clean,      \* the line to the device is good: it answers, and as it should
    owner,      \* the task that owns sMBIdleMutex
    rPass,      \* the read task's walk: 1 tests, 2 scans
    rDev,       \* ... the device it is at
    rJob,       \* ... what it does there
    rTry,       \* ... the try n of a test
    rSent,      \* ... it waits in eMBMasterWaitRequestFinish
    wJob,       \* the write task: between requests, or pending on the mutex
    silent,     \* history: unanswered tries since the last accepted test
    pauses      \* history: delay periods since then

flags  == <<xOnLine, xDataReady, xSynchronized, xStateTestRequest,
            xDevOnTimeout, ucOfflineTimes>>
reader == <<rPass, rDev, rJob, rTry, rSent>>
vars   == <<flags, clean, owner, reader, wJob, silent, pauses>>

(* Unanswered tries and delay periods without which no device is dropped.    *)
Misses == MB_TEST_RETRY_TIMES * (MB_TEST_OFFLINE_TIMES + 1)
Pauses == MB_TEST_OFFLINE_TIMES

Jobs     == {"visit", "test", "state", "read", "sync"}
Outcomes == {"ok", "wrong", "error", "timeout"}

TypeOK ==
    /\ xOnLine \in [Devs -> BOOLEAN] /\ xDataReady \in [Devs -> BOOLEAN]
    /\ xSynchronized \in [Devs -> BOOLEAN]
    /\ xStateTestRequest \in [Devs -> BOOLEAN]
    /\ xDevOnTimeout \in [Devs -> BOOLEAN]
    /\ ucOfflineTimes \in [Devs -> 0..MB_TEST_OFFLINE_TIMES]
    /\ clean \in [Devs -> BOOLEAN]
    /\ owner \in {"none", "read", "write"}
    /\ rPass \in 1..2 /\ rDev \in Devs /\ rJob \in Jobs
    /\ rTry \in 1..MB_TEST_RETRY_TIMES /\ rSent \in BOOLEAN
    /\ wJob \in {"scan", "pend"}
    /\ silent \in [Devs -> 0..Misses] /\ pauses \in [Devs -> 0..Pauses]

(* Devices are allocated with calloc.                                        *)
Init ==
    /\ xOnLine = [d \in Devs |-> FALSE] /\ xDataReady = [d \in Devs |-> FALSE]
    /\ xSynchronized = [d \in Devs |-> FALSE]
    /\ xStateTestRequest = [d \in Devs |-> FALSE]
    /\ xDevOnTimeout = [d \in Devs |-> FALSE]
    /\ ucOfflineTimes = [d \in Devs |-> 0]
    /\ clean \in [Devs -> BOOLEAN]
    /\ owner = "none"
    /\ rPass = 1 /\ rDev = 1 /\ rJob = "visit" /\ rTry = 1 /\ rSent = FALSE
    /\ wJob = "scan"
    /\ silent = [d \in Devs |-> 0] /\ pauses = [d \in Devs |-> 0]

-----------------------------------------------------------------------------
(* The run resource.  OSMutexPend returns at once if the mutex is free or    *)
(* the caller has it.  OSMutexPost refuses an option other than NONE and     *)
(* NO_SCHED (OS_CFG_ARG_CHK_EN is 1) and a caller that is not the owner;     *)
(* vMBMasterRunResRelease passes OS_OPT_POST_ALL, from the poll task, and    *)
(* ignores the error.                                                        *)
RunResTake(task) ==
    /\ owner \in {"none", task}
    /\ owner' = task

OSMutexPost(task, opt) ==
    owner' = IF opt \in {"NONE", "NO_SCHED"} /\ owner = task
             THEN "none" ELSE owner

RunResRelease == OSMutexPost("poll", "ALL")

-----------------------------------------------------------------------------
(* The read task goes on to the next device of the walk.                     *)
Advance ==
    /\ rDev' = IF rDev = N THEN 1 ELSE rDev + 1
    /\ rPass' = IF rDev = N THEN 3 - rPass ELSE rPass
    /\ rJob' = "visit" /\ rTry' = 1

Start(job) ==
    /\ rJob' = job /\ rTry' = 1
    /\ UNCHANGED <<rDev, rPass>>

(* vMBMasterScanReadSlaveDev, once the flags of the device are settled: it   *)
(* is read if its data is ready, the first time to synchronise.              *)
ScanRead ==
    IF xOnLine'[rDev] /\ ucOfflineTimes'[rDev] = 0 /\ xDataReady'[rDev]
    THEN Start(IF xSynchronized'[rDev] THEN "read" ELSE "sync")
    ELSE Advance

(* First walk: vMBDevTest up to its first request.                           *)
VisitTest ==
    /\ rPass = 1 /\ rJob = "visit"
    /\ IF ~xOnLine[rDev] /\ ~xDevOnTimeout[rDev]
       THEN /\ xDataReady' = [xDataReady EXCEPT ![rDev] = FALSE]
            /\ xStateTestRequest' = [xStateTestRequest EXCEPT ![rDev] = FALSE]
            /\ Start("test")
       ELSE /\ UNCHANGED <<xDataReady, xStateTestRequest>>
            /\ Advance
    /\ UNCHANGED <<xOnLine, xSynchronized, xDevOnTimeout, ucOfflineTimes, clean,
                   owner, rSent, wJob, silent, pauses>>

(* Second walk: a suspect is tested unless its delay runs, any other device  *)
(* is read.                                                                  *)
VisitScan ==
    /\ rPass = 2 /\ rJob = "visit"
    /\ UNCHANGED <<flags, clean, owner, rSent, wJob, silent, pauses>>
    /\ IF xOnLine[rDev] /\ xStateTestRequest[rDev] /\ ~xDevOnTimeout[rDev]
       THEN Start("state")
       ELSE ScanRead

(* A request is sent: eMBMasterReq... up to eMBMasterWaitRequestFinish.      *)
Request ==
    /\ rJob # "visit" /\ ~rSent
    /\ RunResTake("read")
    /\ rSent' = TRUE
    /\ UNCHANGED <<flags, clean, rPass, rDev, rJob, rTry, wJob, silent, pauses>>

-----------------------------------------------------------------------------
(* The outcomes a request to d can have: an answer with the value the test   *)
(* expects, one with another value, an exception or a frame that is damaged  *)
(* or from another address, and no answer.                                   *)
Answers(d) ==
    IF clean[d] THEN {"ok"}
    ELSE IF d \in Checked THEN Outcomes ELSE Outcomes \ {"wrong"}

Accepted(o) == o \in {"ok", "error"}

(* The history of the tests of the device after an outcome.                  *)
Count(o) ==
    /\ silent' = IF Accepted(o) THEN [silent EXCEPT ![rDev] = 0]
                 ELSE IF o = "timeout" /\ silent[rDev] < Misses
                      THEN [silent EXCEPT ![rDev] = @ + 1] ELSE silent
    /\ pauses' = IF Accepted(o) THEN [pauses EXCEPT ![rDev] = 0] ELSE pauses

(* The part every answer shares: the resource is released, the task goes on. *)
Answered(o) ==
    /\ rSent /\ o \in Answers(rDev)
    /\ RunResRelease
    /\ rSent' = FALSE
    /\ UNCHANGED <<clean, wJob>>

LastTry(o) == o # "timeout" \/ rTry = MB_TEST_RETRY_TIMES

(* eMBDevCmdTest timed out and is called again.                              *)
Retry(o) ==
    /\ rJob \in {"test", "state"} /\ ~LastTry(o)
    /\ Answered(o) /\ Count(o)
    /\ rTry' = rTry + 1
    /\ UNCHANGED <<flags, rPass, rDev, rJob>>

(* The rest of vMBDevTest: an accepted device is on line, one with a wrong   *)
(* value stays off line, one that is silent is left alone for a while.       *)
DevTest(o) ==
    /\ rJob = "test" /\ LastTry(o)
    /\ Answered(o) /\ Count(o)
    /\ xOnLine' = [xOnLine EXCEPT ![rDev] = Accepted(o)]
    /\ xDataReady' = [xDataReady EXCEPT ![rDev] = Accepted(o)]
    /\ ucOfflineTimes' = [ucOfflineTimes EXCEPT
                             ![rDev] = IF Accepted(o) THEN 0 ELSE @]
    /\ xDevOnTimeout' = [xDevOnTimeout EXCEPT ![rDev] = @ \/ o = "timeout"]
    /\ UNCHANGED <<xSynchronized, xStateTestRequest>>
    /\ Advance

(* A silent device is forgiven MB_TEST_OFFLINE_TIMES times.                  *)
Gone_Early(o) ==
    o = "timeout" /\ ucOfflineTimes[rDev] + 1 = MB_TEST_OFFLINE_TIMES
Gone(o) == o = "timeout" /\ ucOfflineTimes[rDev] = MB_TEST_OFFLINE_TIMES

Missed(o) == o = "timeout" /\ ~Gone(o)

(* The request for a test is withdrawn only by a value that was compared.    *)
Withdrawn_Always(o) == TRUE
Withdrawn(o) == o = "ok" /\ rDev \in Checked

(* The rest of vMBDevCurStateTest: a miss starts the delay, a device that is *)
(* gone is tested anew at once.                                              *)
CurStateTest(o) ==
    /\ rJob = "state" /\ LastTry(o)
    /\ Answered(o) /\ Count(o)
    /\ xOnLine' = [xOnLine EXCEPT ![rDev] = (@ \/ Accepted(o)) /\ ~Gone(o)]
    /\ xDataReady' = [xDataReady EXCEPT ![rDev] = Accepted(o)]
    /\ xStateTestRequest' = [xStateTestRequest EXCEPT
                                ![rDev] = @ /\ ~Withdrawn(o)]
    /\ xSynchronized' = [xSynchronized EXCEPT ![rDev] = @ /\ ~Gone(o)]
    /\ ucOfflineTimes' = [ucOfflineTimes EXCEPT
                             ![rDev] = IF Missed(o) THEN @ + 1
                                       ELSE IF Gone(o) \/ Accepted(o) THEN 0
                                       ELSE @]
    /\ xDevOnTimeout' = [xDevOnTimeout EXCEPT ![rDev] = @ \/ Missed(o)]
    /\ ScanRead

(* vMBMasterScanReadSlaveDevData and the end of vMBMasterScanReadSlaveDev: a *)
(* read that times out asks for a test; a synchronising read counts as done  *)
(* whatever became of it.                                                    *)
ScanReadData(o) ==
    /\ rJob \in {"read", "sync"}
    /\ Answered(o)
    /\ xStateTestRequest' = [xStateTestRequest EXCEPT ![rDev] = @ \/ o = "timeout"]
    /\ xSynchronized' = [xSynchronized EXCEPT
                            ![rDev] = rJob = "sync" \/ (@ /\ o # "timeout")]
    /\ Advance
    /\ UNCHANGED <<xOnLine, xDataReady, xDevOnTimeout, ucOfflineTimes, silent,
                   pauses>>

-----------------------------------------------------------------------------
(* vMBMasterDevOfflineTimeout: the one-shot timer of a silent device.        *)
DevOfflineTimeout_Kept(d) ==
    /\ xDevOnTimeout[d]
    /\ pauses' = [pauses EXCEPT ![d] = IF @ < Pauses THEN @ + 1 ELSE @]
    /\ UNCHANGED <<flags, clean, owner, reader, wJob, silent>>

DevOfflineTimeout(d) ==
    /\ xDevOnTimeout[d]
    /\ xDevOnTimeout' = [xDevOnTimeout EXCEPT ![d] = FALSE]
    /\ pauses' = [pauses EXCEPT ![d] = IF @ < Pauses THEN @ + 1 ELSE @]
    /\ UNCHANGED <<xOnLine, xDataReady, xSynchronized, xStateTestRequest,
                   ucOfflineTimes, clean, owner, reader, wJob, silent>>

(* vMBMasterScanWriteSlaveDev finds a register of d to write and asks for    *)
(* the resource.  The task first sleeps for 3 s: the read task has had it by *)
(* then.  A walk that finds nothing to write changes nothing.                *)
ScanWrite(d) ==
    /\ wJob = "scan" /\ owner # "none"
    /\ xOnLine[d] /\ ucOfflineTimes[d] = 0
    /\ xDataReady[d] = xSynchronized[d]
    /\ wJob' = "pend"
    /\ UNCHANGED <<flags, clean, owner, reader, silent, pauses>>

(* The line to a device becomes good or bad.                                 *)
LineChange(d) ==
    /\ clean' = [clean EXCEPT ![d] = ~@]
    /\ UNCHANGED <<flags, owner, reader, wJob, silent, pauses>>

Read ==
    \/ VisitTest
    \/ VisitScan
    \/ Request
    \/ \E o \in Outcomes : \/ Retry(o)
                           \/ DevTest(o)
                           \/ CurStateTest(o)
                           \/ ScanReadData(o)

Next ==
    \/ Read
    \/ \E d \in Devs : DevOfflineTimeout(d) \/ ScanWrite(d) \/ LineChange(d)

(* The read task is never stopped, each request ends after 2 s at the latest *)
(* and a started timer expires.                                              *)
Fairness == WF_vars(Read) /\ \A d \in Devs : WF_vars(DevOfflineTimeout(d))

Spec == Init /\ [][Next]_vars /\ Fairness

-----------------------------------------------------------------------------
(* A suspect stays under test: a device that missed tests keeps its request, *)
(* or it would be neither read nor dropped (mbscan_m.c 882, 886).            *)
SuspectTested ==
    \A d \in Devs :
        ucOfflineTimes[d] > 0 => xOnLine[d] /\ xStateTestRequest[d]

(* The miss counter stands for unanswered tries and for delays that ended or *)
(* still run (mbtest_m.c 320-335).                                           *)
CountEarned ==
    \A d \in Devs :
        /\ silent[d] >= MB_TEST_RETRY_TIMES * ucOfflineTimes[d]
        /\ xOnLine[d] => pauses[d] + (IF xDevOnTimeout[d] THEN 1 ELSE 0)
                            >= ucOfflineTimes[d]

(* Where the read task is, and what it then knows of its device.             *)
ReaderPlaced ==
    /\ rJob = "visit" => ~rSent
    /\ rJob \in {"visit", "read", "sync"} => rTry = 1
    /\ rJob = "test" => rPass = 1 /\ ~xOnLine[rDev] /\ ~xDevOnTimeout[rDev]
    /\ rJob \in {"state", "read", "sync"} => rPass = 2 /\ xOnLine[rDev]
    /\ rJob \in {"read", "sync"} => ucOfflineTimes[rDev] = 0 /\ xDataReady[rDev]
    /\ rJob = "state" =>
         /\ ~xDevOnTimeout[rDev] /\ xStateTestRequest[rDev]
         /\ silent[rDev] >= MB_TEST_RETRY_TIMES * ucOfflineTimes[rDev] + rTry - 1
    /\ rSent => owner = "read"

(* The bookkeeping of the supervision: a suspect stays under test, and a     *)
(* drop is always paid for by unanswered tries and by delays.                *)
LinkInv == TypeOK /\ SuspectTested /\ CountEarned /\ ReaderPlaced

(* The flag that the unit, the alarm and the mode handlers read behaves as   *)
(* LinkSpec promises: dropped only after three failed tests with a delay     *)
(* after each of the first two.                                              *)
Link == INSTANCE LinkSpec WITH up <- xOnLine

DropsEarned == Link!Spec

(* A device whose line stays good is read again and again, whatever happened *)
(* to it before: no combination of the flags leaves it unread.               *)
Refreshed ==
    \A d \in Devs :
        <>[]clean[d] => []<>(rDev = d /\ rJob \in {"read", "sync"})
=============================================================================
