-------------------------- MODULE ModbusLinkProofs --------------------------
(* The bookkeeping invariant of ModbusLink and the refinement of LinkSpec,   *)
(* for every number of devices and every choice of checked ones.             *)
EXTENDS ModbusLink, TLAPS

USE DEF MB_TEST_RETRY_TIMES, MB_TEST_OFFLINE_TIMES, Misses, Pauses

(* Devices fresh from calloc satisfy the invariant.                          *)
LEMMA InvInit == Init => LinkInv
<1> SUFFICES ASSUME Init PROVE LinkInv
  OBVIOUS
<1>1. TypeOK
  <2>1. /\ xOnLine \in [Devs -> BOOLEAN] /\ xDataReady \in [Devs -> BOOLEAN]
        /\ xSynchronized \in [Devs -> BOOLEAN]
        /\ xStateTestRequest \in [Devs -> BOOLEAN]
        /\ xDevOnTimeout \in [Devs -> BOOLEAN] /\ clean \in [Devs -> BOOLEAN]
        /\ rSent \in BOOLEAN
    BY Zenon DEF Init
  <2>2. /\ ucOfflineTimes \in [Devs -> 0..2] /\ silent \in [Devs -> 0..6]
        /\ pauses \in [Devs -> 0..2]
    BY DEF Init
  <2>3. /\ owner \in {"none", "read", "write"} /\ rPass \in 1..2 /\ rDev \in Devs
        /\ rJob \in Jobs /\ rTry \in 1..2 /\ wJob \in {"scan", "pend"}
    BY LinkAssumption DEF Init, Devs, Jobs
  <2> QED BY <2>1, <2>2, <2>3 DEF TypeOK
<1>2. SuspectTested /\ CountEarned
  BY <1>1 DEF Init, TypeOK, SuspectTested, CountEarned
<1>3. ReaderPlaced
  BY <1>1 DEF Init, ReaderPlaced
<1> QED BY <1>1, <1>2, <1>3 DEF LinkInv

(* The read task stays inside the list, in a walk, and looks at the next     *)
(* device with its first try ahead.                                          *)
LEMMA AdvanceType ==
  ASSUME TypeOK, Advance
  PROVE  rDev' \in Devs /\ rPass' \in 1..2 /\ rJob' = "visit" /\ rTry' = 1
  BY LinkAssumption DEF TypeOK, Advance, Devs

(* After the decision to read, the task is at a new device or about to read  *)
(* one that is on line, not suspect and ready.                               *)
LEMMA ScanReadPlace ==
  ASSUME TypeOK, ScanRead
  PROVE  /\ rDev' \in Devs /\ rPass' \in 1..2 /\ rTry' = 1
         /\ \/ rJob' = "visit"
            \/ /\ rJob' \in {"read", "sync"}
               /\ rDev' = rDev /\ rPass' = rPass
               /\ xOnLine'[rDev] /\ ucOfflineTimes'[rDev] = 0
               /\ xDataReady'[rDev]
<1>1. CASE xOnLine'[rDev] /\ ucOfflineTimes'[rDev] = 0 /\ xDataReady'[rDev]
  BY <1>1 DEF ScanRead, Start, TypeOK
<1>2. CASE ~(xOnLine'[rDev] /\ ucOfflineTimes'[rDev] = 0 /\ xDataReady'[rDev])
  <2>1. Advance BY <1>2 DEF ScanRead
  <2> QED BY <2>1, AdvanceType
<1> QED BY <1>1, <1>2

(* A flag of one device is set or cleared.                                   *)
LEMMA FlagSet ==
  ASSUME NEW f \in [Devs -> BOOLEAN], NEW d, NEW b \in BOOLEAN
  PROVE  [f EXCEPT ![d] = b] \in [Devs -> BOOLEAN]
  BY Zenon

(* What an answer leaves of the history: both counts start again or, after a *)
(* timeout, the tries grow.                                                  *)
LEMMA CountFacts ==
  ASSUME LinkInv, NEW o \in Outcomes, Count(o)
  PROVE  /\ silent' \in [Devs -> 0..Misses] /\ pauses' \in [Devs -> 0..Pauses]
         /\ \A d \in Devs : d # rDev => silent'[d] = silent[d]
                                        /\ pauses'[d] = pauses[d]
         /\ Accepted(o) => silent'[rDev] = 0 /\ pauses'[rDev] = 0
         /\ ~Accepted(o) => pauses'[rDev] = pauses[rDev]
                            /\ silent'[rDev] >= silent[rDev]
         /\ o = "timeout" => silent'[rDev] = (IF silent[rDev] < Misses
                               THEN silent[rDev] + 1 ELSE silent[rDev])
  BY DEF LinkInv, TypeOK, Count, Accepted, Outcomes

(* The mutex keeps its owner when the poll task posts it.                    *)
LEMMA ReleaseKeeps == ASSUME LinkInv, RunResRelease PROVE owner' = owner
  BY DEF LinkInv, TypeOK, RunResRelease, OSMutexPost

(* The request and the two visits leave the history alone.                   *)
LEMMA VisitStep ==
  ASSUME LinkInv, VisitTest \/ VisitScan \/ Request
  PROVE  LinkInv'
<1> USE DEF LinkInv, Jobs
<1>1. CASE VisitTest
  <2>1. TypeOK'
    <3>1. rDev' \in Devs /\ rPass' \in 1..2 /\ rJob' \in Jobs /\ rTry' = 1
      BY <1>1, AdvanceType DEF VisitTest, Start, TypeOK
    <3> QED BY <1>1, <3>1 DEF VisitTest, TypeOK
  <2>2. SuspectTested' /\ CountEarned'
    BY <1>1 DEF VisitTest, TypeOK, SuspectTested, CountEarned
  <2>3. ReaderPlaced'
    <3>1. CASE ~xOnLine[rDev] /\ ~xDevOnTimeout[rDev]
      BY <1>1, <3>1 DEF VisitTest, TypeOK, ReaderPlaced, Start
    <3>2. CASE ~(~xOnLine[rDev] /\ ~xDevOnTimeout[rDev])
      BY <1>1, <3>2, AdvanceType DEF VisitTest, TypeOK, ReaderPlaced
    <3> QED BY <3>1, <3>2
  <2> QED BY <2>1, <2>2, <2>3
<1>2. CASE VisitScan
  <2>1. CASE xOnLine[rDev] /\ xStateTestRequest[rDev] /\ ~xDevOnTimeout[rDev]
    <3>1. Start("state") BY <1>2, <2>1 DEF VisitScan
    <3>2. TypeOK' /\ SuspectTested' /\ CountEarned'
      BY <1>2, <3>1 DEF VisitScan, Start, TypeOK, SuspectTested, CountEarned, flags
    <3>3. ReaderPlaced'
      BY <1>2, <2>1, <3>1
      DEF VisitScan, Start, TypeOK, CountEarned, ReaderPlaced, flags
    <3> QED BY <3>2, <3>3
  <2>2. CASE ~(xOnLine[rDev] /\ xStateTestRequest[rDev] /\ ~xDevOnTimeout[rDev])
    <3>1. ScanRead BY <1>2, <2>2 DEF VisitScan
    <3>2. TypeOK' /\ SuspectTested' /\ CountEarned'
      BY <1>2, <3>1, ScanReadPlace
      DEF VisitScan, TypeOK, SuspectTested, CountEarned, flags
    <3>3. ReaderPlaced'
      BY <1>2, <3>1, ScanReadPlace DEF VisitScan, TypeOK, ReaderPlaced, flags
    <3> QED BY <3>2, <3>3
  <2> QED BY <2>1, <2>2
<1>3. CASE Request
  BY <1>3 DEF Request, RunResTake, TypeOK, SuspectTested, CountEarned,
     ReaderPlaced, flags
<1> QED BY <1>1, <1>2, <1>3

(* An unanswered try that is not the last one only adds to the tries.        *)
LEMMA RetryStep ==
  ASSUME LinkInv, NEW o \in Outcomes, Retry(o)
  PROVE  LinkInv'
<1>1. o = "timeout" /\ rTry = 1 /\ rTry' = 2 /\ rSent' = FALSE /\ owner' = owner
  BY ReleaseKeeps DEF Retry, LastTry, Answered, LinkInv, TypeOK
<1>h. Count(o) /\ ~Accepted(o)
  BY <1>1 DEF Retry, Accepted
<1>2. TypeOK'
  <2>1. silent' \in [Devs -> 0..Misses] /\ pauses' \in [Devs -> 0..Pauses]
    BY <1>h, CountFacts
  <2>2. UNCHANGED <<flags, clean, wJob, rPass, rDev, rJob>>
    BY DEF Retry, Answered
  <2>3. TypeOK BY DEF LinkInv
  <2>4. /\ rTry' \in 1..2
        /\ owner' \in {"none", "read", "write"}
    BY <1>1, <2>3 DEF TypeOK
  <2>5. rSent' \in BOOLEAN BY <1>1, Zenon
  <2> QED BY <2>1, <2>2, <2>3, <2>4, <2>5 DEF TypeOK, flags
<1>3. SuspectTested' /\ CountEarned'
  <2>1. \A d \in Devs : silent'[d] >= silent[d] /\ pauses'[d] = pauses[d]
    BY <1>h, CountFacts DEF LinkInv, TypeOK
  <2>2. \A d \in Devs : silent'[d] \in Nat
    BY <1>2 DEF TypeOK
  <2> QED BY <2>1, <2>2 DEF Retry, LinkInv, TypeOK, SuspectTested, CountEarned,
             flags
<1>4. ReaderPlaced'
  <2>1. silent'[rDev] = (IF silent[rDev] < Misses
                         THEN silent[rDev] + 1 ELSE silent[rDev])
    BY <1>1, <1>h, CountFacts
  <2> QED BY <1>1, <2>1 DEF Retry, LinkInv, TypeOK, ReaderPlaced, flags
<1> QED BY <1>2, <1>3, <1>4 DEF LinkInv

(* The end of a test of a device that is off line.                           *)
LEMMA DevTestStep ==
  ASSUME LinkInv, NEW o \in Outcomes, DevTest(o)
  PROVE  LinkInv'
<1>1. /\ owner' = owner /\ rSent' = FALSE /\ rJob' = "visit" /\ rTry' = 1
      /\ rDev' \in Devs /\ rPass' \in 1..2
  BY ReleaseKeeps, AdvanceType DEF DevTest, Answered, LinkInv
<1>2. ~xOnLine[rDev] /\ ucOfflineTimes[rDev] = 0
  BY DEF DevTest, LinkInv, TypeOK, ReaderPlaced, SuspectTested
<1>3. TypeOK'
  <2>1. silent' \in [Devs -> 0..Misses] /\ pauses' \in [Devs -> 0..Pauses]
    BY CountFacts DEF DevTest
  <2>2. Accepted(o) \in BOOLEAN /\ (xDevOnTimeout[rDev] \/ o = "timeout") \in BOOLEAN
    BY DEF Accepted
  <2>3. /\ xOnLine' \in [Devs -> BOOLEAN] /\ xDataReady' \in [Devs -> BOOLEAN]
        /\ xDevOnTimeout' \in [Devs -> BOOLEAN]
    BY <2>2, FlagSet, Zenon DEF DevTest, LinkInv, TypeOK
  <2>4. ucOfflineTimes' \in [Devs -> 0..2]
    BY DEF DevTest, LinkInv, TypeOK
  <2>5. UNCHANGED <<xSynchronized, xStateTestRequest, clean, wJob>>
    BY DEF DevTest, Answered
  <2>6. TypeOK BY DEF LinkInv
  <2>7. /\ rTry' \in 1..2 /\ rJob' \in Jobs
        /\ owner' \in {"none", "read", "write"}
    BY <1>1, <2>6 DEF TypeOK, Jobs
  <2>8. rSent' \in BOOLEAN BY <1>1, Zenon
  <2> QED BY <1>1, <2>1, <2>3, <2>4, <2>5, <2>6, <2>7, <2>8 DEF TypeOK
<1>4. SuspectTested' /\ CountEarned'
  BY <1>2, CountFacts
  DEF DevTest, LinkInv, TypeOK, SuspectTested, CountEarned, Accepted
<1>5. ReaderPlaced'
  BY <1>1 DEF ReaderPlaced
<1> QED BY <1>3, <1>4, <1>5 DEF LinkInv

(* The end of a test of a device that is on line.                            *)
LEMMA CurStateStep ==
  ASSUME LinkInv, NEW o \in Outcomes, CurStateTest(o)
  PROVE  LinkInv'
<1>1. /\ owner' = owner /\ rSent' = FALSE /\ rTry' = 1
      /\ rDev' \in Devs /\ rPass' \in 1..2 /\ rJob' \in Jobs
  BY ReleaseKeeps, ScanReadPlace DEF CurStateTest, Answered, LinkInv, Jobs
<1>2. xOnLine[rDev] /\ ~xDevOnTimeout[rDev] /\ xStateTestRequest[rDev]
  BY DEF CurStateTest, LinkInv, ReaderPlaced
<1>3. TypeOK'
  <2>1. silent' \in [Devs -> 0..Misses] /\ pauses' \in [Devs -> 0..Pauses]
    BY CountFacts DEF CurStateTest
  <2>2. /\ Accepted(o) \in BOOLEAN
        /\ ((xOnLine[rDev] \/ Accepted(o)) /\ ~Gone(o)) \in BOOLEAN
        /\ (xStateTestRequest[rDev] /\ ~Withdrawn(o)) \in BOOLEAN
        /\ (xSynchronized[rDev] /\ ~Gone(o)) \in BOOLEAN
        /\ (xDevOnTimeout[rDev] \/ Missed(o)) \in BOOLEAN
    BY DEF Accepted
  <2>3. /\ xOnLine' \in [Devs -> BOOLEAN] /\ xDataReady' \in [Devs -> BOOLEAN]
        /\ xStateTestRequest' \in [Devs -> BOOLEAN]
        /\ xSynchronized' \in [Devs -> BOOLEAN]
        /\ xDevOnTimeout' \in [Devs -> BOOLEAN]
    BY <2>2, FlagSet, Zenon DEF CurStateTest, LinkInv, TypeOK
  <2>4. ucOfflineTimes' \in [Devs -> 0..2]
    BY DEF CurStateTest, LinkInv, TypeOK, Missed, Gone
  <2>5. UNCHANGED <<clean, wJob>>
    BY DEF CurStateTest, Answered
  <2>6. TypeOK BY DEF LinkInv
  <2>7. /\ rTry' \in 1..2
        /\ owner' \in {"none", "read", "write"}
    BY <1>1, <2>6 DEF TypeOK
  <2>8. rSent' \in BOOLEAN BY <1>1, Zenon
  <2> QED BY <1>1, <2>1, <2>3, <2>4, <2>5, <2>6, <2>7, <2>8 DEF TypeOK
<1>4. SuspectTested'
  BY <1>2 DEF CurStateTest, LinkInv, TypeOK, SuspectTested, Accepted, Missed,
     Gone, Withdrawn
<1>5. CountEarned'
  <2>1. ASSUME NEW d \in Devs, d # rDev
        PROVE  /\ silent'[d] >= 2 * ucOfflineTimes'[d]
               /\ xOnLine'[d] => pauses'[d] + (IF xDevOnTimeout'[d] THEN 1 ELSE 0)
                                   >= ucOfflineTimes'[d]
    BY <2>1, CountFacts DEF CurStateTest, LinkInv, TypeOK, CountEarned
  <2>2. CASE o = "timeout"
    <3>1. LastTry(o) => rTry = 2
      BY <2>2 DEF LastTry
    <3>2. silent[rDev] >= 2 * ucOfflineTimes[rDev] + 1
      BY <3>1 DEF CurStateTest, LinkInv, TypeOK, ReaderPlaced
    <3>3. pauses[rDev] >= ucOfflineTimes[rDev]
      BY <1>2 DEF LinkInv, TypeOK, CountEarned
    <3> QED
      BY <1>2, <2>1, <2>2, <3>2, <3>3, CountFacts
      DEF CurStateTest, LinkInv, TypeOK, CountEarned, Accepted, Missed, Gone
  <2>3. CASE o # "timeout"
    BY <1>2, <2>1, <2>3, CountFacts
    DEF CurStateTest, LinkInv, TypeOK, CountEarned, Accepted, Missed, Gone
  <2> QED BY <2>2, <2>3
<1>6. ReaderPlaced'
  BY <1>1, ScanReadPlace DEF CurStateTest, LinkInv, TypeOK, ReaderPlaced
<1> QED BY <1>3, <1>4, <1>5, <1>6 DEF LinkInv

(* The end of a read.                                                        *)
LEMMA ReadStep ==
  ASSUME LinkInv, NEW o \in Outcomes, ScanReadData(o)
  PROVE  LinkInv'
<1>1. /\ owner' = owner /\ rSent' = FALSE /\ rJob' = "visit" /\ rTry' = 1
      /\ rDev' \in Devs /\ rPass' \in 1..2
  BY ReleaseKeeps, AdvanceType DEF ScanReadData, Answered, LinkInv
<1>2. TypeOK'
  <2>1. /\ (xStateTestRequest[rDev] \/ o = "timeout") \in BOOLEAN
        /\ (rJob = "sync" \/ (xSynchronized[rDev] /\ o # "timeout")) \in BOOLEAN
    BY Zenon
  <2>2. /\ xStateTestRequest' \in [Devs -> BOOLEAN]
        /\ xSynchronized' \in [Devs -> BOOLEAN]
    BY <2>1, FlagSet, Zenon DEF ScanReadData, LinkInv, TypeOK
  <2>3. UNCHANGED <<xOnLine, xDataReady, xDevOnTimeout, ucOfflineTimes, silent,
                    pauses, clean, wJob>>
    BY DEF ScanReadData, Answered
  <2>4. TypeOK BY DEF LinkInv
  <2>5. /\ rTry' \in 1..2 /\ rJob' \in Jobs
        /\ owner' \in {"none", "read", "write"}
    BY <1>1, <2>4 DEF TypeOK, Jobs
  <2>6. rSent' \in BOOLEAN BY <1>1, Zenon
  <2> QED BY <1>1, <2>2, <2>3, <2>4, <2>5, <2>6 DEF TypeOK
<1>3. SuspectTested' /\ CountEarned'
  BY DEF ScanReadData, LinkInv, TypeOK, SuspectTested, CountEarned
<1>4. ReaderPlaced'
  BY <1>1 DEF ReaderPlaced
<1> QED BY <1>2, <1>3, <1>4 DEF LinkInv

(* Timers, the write task and the line.                                      *)
LEMMA OtherStep ==
  ASSUME LinkInv, NEW d \in Devs,
         DevOfflineTimeout(d) \/ ScanWrite(d) \/ LineChange(d)
  PROVE  LinkInv'
<1>1. CASE DevOfflineTimeout(d)
  <2>1. TypeOK' /\ SuspectTested' /\ CountEarned'
    BY <1>1 DEF DevOfflineTimeout, LinkInv, TypeOK, SuspectTested, CountEarned,
       reader
  <2>2. ReaderPlaced'
    BY <1>1 DEF DevOfflineTimeout, LinkInv, TypeOK, ReaderPlaced, reader
  <2> QED BY <2>1, <2>2 DEF LinkInv
<1>2. CASE ScanWrite(d) \/ LineChange(d)
  <2>1. TypeOK' /\ SuspectTested' /\ CountEarned'
    BY <1>2 DEF ScanWrite, LineChange, LinkInv, TypeOK, SuspectTested,
       CountEarned, reader, flags
  <2>2. ReaderPlaced'
    BY <1>2 DEF ScanWrite, LineChange, LinkInv, ReaderPlaced, reader, flags
  <2> QED BY <2>1, <2>2 DEF LinkInv
<1> QED BY <1>1, <1>2

(* Every step keeps the bookkeeping.                                         *)
LEMMA InvStep == LinkInv /\ [Next]_vars => LinkInv'
<1> SUFFICES ASSUME LinkInv, [Next]_vars PROVE LinkInv'
  OBVIOUS
<1>1. CASE Read
  BY <1>1, VisitStep, RetryStep, DevTestStep, CurStateStep, ReadStep DEF Read
<1>2. CASE \E d \in Devs : DevOfflineTimeout(d) \/ ScanWrite(d) \/ LineChange(d)
  BY <1>2, OtherStep
<1>3. CASE UNCHANGED vars
  BY <1>3 DEF vars, flags, reader, LinkInv, TypeOK, SuspectTested, CountEarned,
     ReaderPlaced
<1> QED BY <1>1, <1>2, <1>3 DEF Next

(* The bookkeeping of vMBDevTest and vMBDevCurStateTest holds in every       *)
(* reachable state: misses are paid for and suspects stay under test.        *)
THEOREM BookkeepingHolds == Spec => []LinkInv
  BY InvInit, InvStep, PTL DEF Spec

-----------------------------------------------------------------------------
(* The refinement of LinkSpec: only the end of a request, and of a delay,    *)
(* shows in xOnLine and in the history.                                      *)

(* A device fresh from calloc is off line with nothing counted.              *)
LEMMA LinkInit == Init => Link!Init
  BY DEF Init, Link!Init

(* The history after an unanswered try is the abstract one.                  *)
LEMMA MissCounted ==
  ASSUME LinkInv, Count("timeout")
  PROVE  /\ silent' = [silent EXCEPT ![rDev] = Link!AtMost(@ + 1, Misses)]
         /\ pauses' = pauses
<1>1. silent[rDev] \in 0..6 /\ silent \in [Devs -> 0..6] /\ rDev \in Devs
  BY DEF LinkInv, TypeOK
<1>2. pauses' = pauses /\ silent' = IF silent[rDev] < Misses
                          THEN [silent EXCEPT ![rDev] = @ + 1] ELSE silent
  BY DEF Count, Accepted
<1>3. CASE silent[rDev] < Misses
  <2>1. Link!AtMost(silent[rDev] + 1, Misses) = silent[rDev] + 1
    BY <1>1, <1>3 DEF Link!AtMost
  <2> QED BY <1>2, <1>3, <2>1
<1>4. CASE ~(silent[rDev] < Misses)
  <2>1. Link!AtMost(silent[rDev] + 1, Misses) = silent[rDev]
    BY <1>1, <1>4 DEF Link!AtMost
  <2> QED BY <1>1, <1>2, <1>4, <2>1
<1> QED BY <1>3, <1>4

(* A test that is accepted puts the device on line and starts the history    *)
(* anew.                                                                     *)
LEMMA AcceptStep ==
  ASSUME LinkInv, NEW o \in Outcomes, DevTest(o) \/ CurStateTest(o), Accepted(o)
  PROVE  Link!Accept(rDev)
<1>1. Count(o) BY DEF DevTest, CurStateTest
<1>2. silent' = [silent EXCEPT ![rDev] = 0] /\ pauses' = [pauses EXCEPT ![rDev] = 0]
  BY <1>1 DEF Count
<1>3. xOnLine' = [xOnLine EXCEPT ![rDev] = TRUE]
  BY DEF DevTest, CurStateTest, Accepted, Gone
<1> QED BY <1>2, <1>3 DEF Link!Accept

(* The device is dropped only with its misses and its delays behind it.      *)
LEMMA DropStep ==
  ASSUME LinkInv, CurStateTest("timeout"), Gone("timeout")
  PROVE  Link!Drop(rDev)
<1>1. xOnLine[rDev] /\ ~xDevOnTimeout[rDev] /\ ucOfflineTimes[rDev] = 2 /\ rTry = 2
  BY DEF CurStateTest, LinkInv, ReaderPlaced, Gone, LastTry
<1>2. silent[rDev] >= 5 /\ pauses[rDev] >= 2 /\ silent[rDev] + 1 >= Misses
  BY <1>1 DEF CurStateTest, LinkInv, TypeOK, ReaderPlaced, CountEarned
<1>3. xOnLine' = [xOnLine EXCEPT ![rDev] = FALSE]
  BY DEF CurStateTest, Gone
<1>4. Count("timeout") BY DEF CurStateTest
<1> QED BY <1>1, <1>2, <1>3, <1>4, MissCounted DEF Link!Drop

(* Any other unanswered try leaves the device as it is.                      *)
LEMMA MissStep ==
  ASSUME LinkInv, \/ Retry("timeout")
                  \/ DevTest("timeout")
                  \/ CurStateTest("timeout") /\ ~Gone("timeout")
  PROVE  Link!Miss(rDev)
<1>1. Count("timeout") BY DEF Retry, DevTest, CurStateTest
<1>2. xOnLine' = xOnLine
  <2>t. xOnLine \in [Devs -> BOOLEAN] BY DEF LinkInv, TypeOK
  <2>1. CASE Retry("timeout") BY <2>1 DEF Retry, flags
  <2>2. CASE DevTest("timeout")
    <3>1. xOnLine[rDev] = FALSE
      BY <2>2, <2>t DEF DevTest, LinkInv, TypeOK, ReaderPlaced
    <3> QED BY <2>2, <2>t, <3>1 DEF DevTest, Accepted
  <2>3. CASE CurStateTest("timeout") /\ ~Gone("timeout")
    <3>1. xOnLine[rDev] = TRUE
      BY <2>3, <2>t DEF CurStateTest, LinkInv, TypeOK, ReaderPlaced
    <3> QED BY <2>3, <2>t, <3>1 DEF CurStateTest, Accepted
  <2> QED BY <2>1, <2>2, <2>3
<1> QED BY <1>1, <1>2, MissCounted DEF Link!Miss

(* An answer with the wrong value shows nowhere.                             *)
LEMMA WrongStep ==
  ASSUME LinkInv, DevTest("wrong") \/ CurStateTest("wrong")
  PROVE  UNCHANGED Link!vars
<1>1. Count("wrong") BY DEF DevTest, CurStateTest
<1>2. silent' = silent /\ pauses' = pauses BY <1>1 DEF Count, Accepted
<1>t. xOnLine \in [Devs -> BOOLEAN] BY DEF LinkInv, TypeOK
<1>3. CASE DevTest("wrong")
  <2>1. xOnLine[rDev] = FALSE
    BY <1>3, <1>t DEF DevTest, LinkInv, TypeOK, ReaderPlaced
  <2> QED BY <1>2, <1>3, <1>t, <2>1 DEF DevTest, Accepted, Link!vars
<1>4. CASE CurStateTest("wrong")
  <2>1. xOnLine[rDev] = TRUE
    BY <1>4, <1>t DEF CurStateTest, LinkInv, TypeOK, ReaderPlaced
  <2> QED BY <1>2, <1>4, <1>t, <2>1 DEF CurStateTest, Accepted, Gone, Link!vars
<1> QED BY <1>3, <1>4

(* The end of a delay.                                                       *)
LEMMA PauseStep ==
  ASSUME LinkInv, NEW d \in Devs, DevOfflineTimeout(d)
  PROVE  Link!Pause(d)
<1>1. pauses \in [Devs -> 0..2] /\ pauses[d] \in 0..2
  BY DEF LinkInv, TypeOK
<1>2. Link!AtMost(pauses[d] + 1, Pauses) = IF pauses[d] < 2 THEN pauses[d] + 1
                                            ELSE pauses[d]
  BY <1>1 DEF Link!AtMost
<1> QED BY <1>1, <1>2 DEF DevOfflineTimeout, Link!Pause

(* Every step of the supervision is a step of LinkSpec or shows nowhere.     *)
LEMMA LinkStep == LinkInv /\ [Next]_vars => [Link!Next]_(Link!vars)
<1> SUFFICES ASSUME LinkInv, [Next]_vars PROVE [Link!Next]_(Link!vars)
  OBVIOUS
<1>0. rDev \in Devs BY DEF LinkInv, TypeOK
<1>1. CASE VisitTest \/ VisitScan \/ Request
  BY <1>1 DEF VisitTest, VisitScan, Request, flags, Link!vars
<1>2. ASSUME NEW o \in Outcomes, Retry(o) PROVE [Link!Next]_(Link!vars)
  <2>1. o = "timeout" BY <1>2 DEF Retry, LastTry
  <2> QED BY <1>0, <1>2, <2>1, MissStep DEF Link!Next
<1>3. ASSUME NEW o \in Outcomes, DevTest(o) \/ CurStateTest(o)
      PROVE  [Link!Next]_(Link!vars)
  <2>1. CASE Accepted(o)
    BY <1>0, <1>3, <2>1, AcceptStep DEF Link!Next
  <2>2. CASE o = "wrong"
    BY <1>3, <2>2, WrongStep
  <2>3. CASE o = "timeout"
    BY <1>0, <1>3, <2>3, MissStep, DropStep DEF Link!Next
  <2> QED BY <2>1, <2>2, <2>3 DEF Accepted, Outcomes
<1>4. ASSUME NEW o \in Outcomes, ScanReadData(o) PROVE [Link!Next]_(Link!vars)
  BY <1>4 DEF ScanReadData, Link!vars
<1>5. ASSUME NEW d \in Devs, DevOfflineTimeout(d) PROVE [Link!Next]_(Link!vars)
  BY <1>5, PauseStep DEF Link!Next
<1>6. ASSUME NEW d \in Devs, ScanWrite(d) \/ LineChange(d)
      PROVE  [Link!Next]_(Link!vars)
  BY <1>6 DEF ScanWrite, LineChange, flags, Link!vars
<1>7. CASE UNCHANGED vars
  BY <1>7 DEF vars, flags, Link!vars
<1> QED BY <1>1, <1>2, <1>3, <1>4, <1>5, <1>6, <1>7 DEF Next, Read

(* The code's supervision implements the promise to the users of xOnLine:    *)
(* whatever the devices, the timers and the other task do, no device is      *)
(* dropped before its third failed test and the two delays.                  *)
THEOREM LinkImplemented == Spec => DropsEarned
<1>1. Init /\ [][Next]_vars /\ []LinkInv => Link!Init /\ [][Link!Next]_(Link!vars)
  BY LinkInit, LinkStep, PTL
<1>2. Spec => Init /\ [][Next]_vars BY PTL DEF Spec
<1> QED BY <1>1, <1>2, BookkeepingHolds, PTL DEF DropsEarned, Link!Spec
=============================================================================
