---------------------------- MODULE MCWriteScan ----------------------------
(* The write task of ModbusLink with the step that would follow its wait for *)
(* the run resource.                                                         *)
EXTENDS ModbusLink

(* OSMutexPend returns to the write task, which sends its request.           *)
WriteRequest ==
    /\ wJob = "pend"
    /\ RunResTake("write")
    /\ wJob' = "scan"
    /\ UNCHANGED <<flags, clean, reader, silent, pauses>>

WriteNext == Next \/ WriteRequest

(* A task that waits for a mutex is served when the mutex becomes free.      *)
WriteSpec == Init /\ [][WriteNext]_vars /\ Fairness /\ SF_vars(WriteRequest)

(* The resource is released at the end of each request, so the write task    *)
(* gets its turn (mbportevent_m.c 188-198, mb_m.c 392 and 420).              *)
WriteServed == wJob = "pend" ~> wJob = "scan"
=============================================================================
