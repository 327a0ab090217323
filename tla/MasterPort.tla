----------------------------- MODULE MasterPort -----------------------------
(***************************************************************************)
(* One request of the Modbus master, from xMBMasterRunResTake to the error *)
(* code of eMBMasterWaitRequestFinish (FreeModbus/master: mb_m.c,          *)
(* mbrtu_m.c, mbportevent_m.c, mbporttimer_m.c, mbfuncholding_m.c), in the *)
(* build the repository ships: RTU over uC/OS-III.                         *)
(*                                                                         *)
(* Four parties share the port.  The scan task sends requests and polls    *)
(* for their end.  The poll task has a higher priority: no task goes on    *)
(* while an event waits for it.  The timer task runs the expiry of the one *)
(* port timer with the scheduler locked.  Where the poll task or the timer *)
(* task reads or writes the state of the RTU machines more than once, an   *)
(* interrupt of the UART may come in between.  Devices answer late,        *)
(* damaged or never.                                                       *)
(*                                                                         *)
(* A frame is two chunks of bytes, its head and its tail; a single chunk   *)
(* is shorter than MB_SER_PDU_SIZE_MIN.  Time passes as it likes.          *)
(***************************************************************************)
EXTENDS Naturals, Sequences

CONSTANTS
    Requests,   \* the requests of the scan: a device and a range of registers
    Dev,        \* the device of a request
    Size,       \* its number of registers
    WaitTimes,  \* MB_MASTER_PORT_WAIT_TIMES, polls for the end of a request
    BufSize,    \* MB_SER_PDU_SIZE_MAX, in chunks
    None        \* no answer

(* What a device sends back: the registers of r, or an exception.            *)
Answers == [r : Requests, ok : BOOLEAN]

ASSUME PortAssumption ==
    /\ Requests # {} /\ DOMAIN Dev = Requests /\ Size \in [Requests -> Nat]
    /\ WaitTimes \in Nat \ {0} /\ BufSize \in Nat /\ BufSize >= 2
    /\ None \notin Answers

VARIABLES
    req,        \* the request in the send buffer
    waiting,    \* the scan task is in eMBMasterWaitRequestFinish
    ucDlyCount, \* ... and has slept so often
    eQueuedEvent, xEventInQueue, xMBIsFinished,     \* fields of sMBMasterPort
    errorType,  \* what EV_MASTER_ERROR_PROCESS is about
    frame,      \* the answer pucMBRcvFrame points at
    eSndState, eRcvState,       \* the state machines of mbrtu_m.c
    ucRTURcvBuf,    \* the chunks received
    uart,       \* what the UART does; "mute" is neither
    sending,    \* where the poll task is in eMBMasterRTUSend
    timer,      \* the port timer that runs, if any
    expiring,   \* where the timer task is in xMBMasterRTUTimerExpired
    late,       \* the answer a device has yet to send
    coming,     \* the answer whose head has arrived and whose tail is due
    served,     \* history: the answer executed for the request
    code        \* history: the code it ended with, while none is under way

task   == <<req, waiting, ucDlyCount>>
port   == <<eQueuedEvent, xEventInQueue, xMBIsFinished, errorType, frame>>
rtu    == <<eSndState, eRcvState, ucRTURcvBuf, uart, sending, timer,
            expiring>>
line   == <<late, coming>>
vars   == <<task, port, rtu, line, served, code>>

Results == {"SUCCESS", "RESPOND_TIMEOUT", "RECEIVE_DATA", "EXECUTE_FUNCTION"}
Events  == {"READY", "FRAME_SENT", "FRAME_RECEIVED", "EXECUTE", "ERROR_PROCESS"}
Codes   == {"NO_ERR", "TIMEDOUT", "REV_DATA", "EXE_FUN"}
Chunks  == [part : {"head", "tail"}, of : Answers] \cup [part : {"noise"}, of : {None}]
Maybe   == Answers \cup {None}
SendSteps  == {"no", "checked", "xmit"}
TimerSteps == {"no", "posted", "received", "ended", "short", "dropped", "again"}

TypeOK ==
    /\ req \in Requests /\ waiting \in BOOLEAN /\ ucDlyCount \in 0..WaitTimes
    /\ eQueuedEvent \in Events \cup Results /\ xEventInQueue \in BOOLEAN
    /\ xMBIsFinished \in BOOLEAN /\ errorType \in Results /\ frame \in Maybe
    /\ eSndState \in {"IDLE", "XMIT", "XFWR"} /\ eRcvState \in {"IDLE", "RCV", "ERROR"}
    /\ ucRTURcvBuf \in Seq(Chunks) /\ Len(ucRTURcvBuf) <= BufSize
    /\ uart \in {"receive", "send", "mute"} /\ sending \in SendSteps
    /\ timer \in {"off", "t35", "respond"} /\ expiring \in TimerSteps
    /\ late \in Maybe /\ coming \in Maybe /\ served \in Maybe
    /\ code \in Codes \cup {"none"}

(* vMBMasterRTUStart.                                                        *)
Init ==
    /\ req \in Requests /\ waiting = FALSE /\ ucDlyCount = 0
    /\ eQueuedEvent = "READY" /\ xEventInQueue = FALSE /\ xMBIsFinished = FALSE
    /\ errorType = "RESPOND_TIMEOUT" /\ frame = None
    /\ eSndState = "IDLE" /\ eRcvState = "IDLE" /\ ucRTURcvBuf = <<>>
    /\ uart = "receive" /\ sending = "no" /\ timer = "off" /\ expiring = "no"
    /\ late = None /\ coming = None /\ served = None /\ code = "none"

-----------------------------------------------------------------------------
(* xMBMasterPortEventPost.                                                   *)
EventPost(e) == eQueuedEvent' = e /\ xEventInQueue' = TRUE

(* vMBMasterErrorCB... and vMBMasterCBRequestSuccess.                        *)
Finish(result) ==
    /\ eQueuedEvent' = result /\ xMBIsFinished' = TRUE
    /\ xEventInQueue' = FALSE

(* The scan task runs when the poll task has nothing to do and the scheduler *)
(* is not locked.                                                            *)
ScanRuns == ~xEventInQueue /\ sending = "no" /\ expiring = "no"

(* eMBMasterReqReadHoldingRegister: take the resource (the task has it since *)
(* its first request), fill the send buffer, post, wait.                     *)
ReqRead(r) ==
    /\ ScanRuns /\ ~waiting
    /\ req' = r /\ waiting' = TRUE
    /\ xMBIsFinished' = FALSE /\ served' = None
    /\ EventPost("FRAME_SENT")
    /\ code' = "none"
    /\ UNCHANGED <<ucDlyCount, errorType, frame, rtu, line>>

(* The error code of an outcome; any other event leaves MB_MRE_NO_ERR.       *)
ErrStatus(e) ==
    CASE e = "RESPOND_TIMEOUT"  -> "TIMEDOUT"
      [] e = "RECEIVE_DATA"     -> "REV_DATA"
      [] e = "EXECUTE_FUNCTION" -> "EXE_FUN"
      [] OTHER                  -> "NO_ERR"

(* The loop of eMBMasterWaitRequestFinish: 200 ms pass.  A request, 8 bytes  *)
(* at 9600 baud, is out by then.                                             *)
KeepsWaiting == ~xMBIsFinished /\ ucDlyCount < WaitTimes

TimeDly_Uncounted ==
    /\ ScanRuns /\ waiting /\ KeepsWaiting /\ uart # "send"
    /\ UNCHANGED vars

TimeDly ==
    /\ ScanRuns /\ waiting /\ KeepsWaiting /\ uart # "send"
    /\ ucDlyCount' = ucDlyCount + 1
    /\ UNCHANGED <<req, waiting, port, rtu, line, served, code>>

(* Its end: after the last sleep the request has timed out, whatever the     *)
(* port says by now.                                                         *)
WaitRequestFinish ==
    /\ ScanRuns /\ waiting /\ ~KeepsWaiting
    /\ waiting' = FALSE
    /\ IF ucDlyCount = WaitTimes
       THEN /\ xMBIsFinished' = TRUE /\ eQueuedEvent' = "RESPOND_TIMEOUT"
            /\ code' = "TIMEDOUT"
       ELSE /\ UNCHANGED <<xMBIsFinished, eQueuedEvent>>
            /\ code' = ErrStatus(eQueuedEvent)
    /\ ucDlyCount' = 0
    /\ UNCHANGED <<req, xEventInQueue, errorType, frame, rtu, line, served>>

-----------------------------------------------------------------------------
(* eMBMasterPoll: it takes the event the port holds.                         *)
Poll(e) == xEventInQueue /\ eQueuedEvent = e /\ sending = "no" /\ expiring = "no"

(* eMBMasterRTUSend: nothing is sent unless the receiver is idle.            *)
FrameSent ==
    /\ Poll("FRAME_SENT")
    /\ xEventInQueue' = FALSE
    /\ sending' = IF eRcvState = "IDLE" THEN "checked" ELSE "no"
    /\ UNCHANGED <<task, eQueuedEvent, xMBIsFinished, errorType, frame, eSndState,
                   eRcvState, ucRTURcvBuf, uart, timer, expiring, line, served, code>>

(* The CRC is computed before the sender is marked as busy: a byte received  *)
(* since the check goes unnoticed ...                                        *)
SendXmit ==
    /\ sending = "checked"
    /\ sending' = "xmit" /\ eSndState' = "XMIT"
    /\ UNCHANGED <<task, port, eRcvState, ucRTURcvBuf, uart, timer, expiring, line,
                   served, code>>

(* ... and so does one before the receiver is off.  The first byte goes out. *)
SendStart ==
    /\ sending = "xmit"
    /\ sending' = "no" /\ uart' = "send"
    /\ UNCHANGED <<task, port, eSndState, eRcvState, ucRTURcvBuf, timer, expiring,
                   line, served, code>>

(* The answer whose chunks the buffer holds, if its CRC is right.            *)
Received ==
    {a \in Answers : ucRTURcvBuf = <<[part |-> "head", of |-> a],
                                     [part |-> "tail", of |-> a]>>}

(* An intact frame of the device asked is executed.                          *)
ForUs_Any == Received
ForUs == {a \in Received : Dev[a.r] = Dev[req]}

FrameReceived ==
    /\ Poll("FRAME_RECEIVED")
    /\ \/ \E a \in ForUs : frame' = a /\ EventPost("EXECUTE") /\ UNCHANGED errorType
       \/ /\ ForUs = {}
          /\ errorType' = "RECEIVE_DATA" /\ EventPost("ERROR_PROCESS")
          /\ UNCHANGED frame
    /\ UNCHANGED <<task, xMBIsFinished, rtu, line, served, code>>

(* The function handler looks up the range in the send buffer, not in the    *)
(* frame, and compares the number of bytes.  eMBMasterPoll tells exceptions  *)
(* by their function code before.                                            *)
FuncReadHolding == frame.ok /\ Size[frame.r] = Size[req]

Execute ==
    /\ Poll("EXECUTE")
    /\ IF FuncReadHolding
       THEN Finish("SUCCESS") /\ served' = frame /\ UNCHANGED errorType
       ELSE /\ errorType' = "EXECUTE_FUNCTION" /\ EventPost("ERROR_PROCESS")
            /\ UNCHANGED <<xMBIsFinished, served>>
    /\ frame' = None
    /\ UNCHANGED <<task, rtu, line, code>>

ErrorProcess ==
    /\ Poll("ERROR_PROCESS")
    /\ Finish(errorType)
    /\ UNCHANGED <<task, errorType, frame, rtu, line, served, code>>

-----------------------------------------------------------------------------
(* xMBMasterRTUTransmitFSM when the transmitter is empty.  If the frame went *)
(* out whole, the response timer starts and the device may answer.  A sender *)
(* that a received byte made idle gives up.  One that the timer task made    *)
(* wait for an answer does nothing: no byte follows, no interrupt comes, and *)
(* the receiver stays off until the next request.                            *)
TransmitDone ==
    /\ uart = "send"
    /\ CASE eSndState = "XMIT" ->
              /\ uart' = "receive" /\ eSndState' = "XFWR" /\ timer' = "respond"
              /\ late' \in {late} \cup [r : {req}, ok : BOOLEAN]
         [] eSndState = "IDLE" ->
              uart' = "receive" /\ UNCHANGED <<eSndState, timer, late>>
         [] OTHER -> uart' = "mute" /\ UNCHANGED <<eSndState, timer, late>>
    /\ UNCHANGED <<task, port, eRcvState, ucRTURcvBuf, sending, expiring, coming,
                   served, code>>

(* xMBMasterRTUReceiveFSM: the first chunk ends the wait for an answer; each *)
(* one starts the timer of 3.5 characters.  Otherwise the UART is deaf.      *)
ReceiveFSM(chunk) ==
    IF uart # "receive"
    THEN UNCHANGED rtu
    ELSE /\ timer' = "t35"
         /\ CASE eRcvState = "IDLE" ->
                   /\ eSndState' = "IDLE" /\ eRcvState' = "RCV"
                   /\ ucRTURcvBuf' = <<chunk>>
              [] eRcvState = "RCV" /\ Len(ucRTURcvBuf) < BufSize ->
                   /\ ucRTURcvBuf' = Append(ucRTURcvBuf, chunk)
                   /\ UNCHANGED <<eSndState, eRcvState>>
              [] OTHER -> eRcvState' = "ERROR" /\ UNCHANGED <<eSndState, ucRTURcvBuf>>
         /\ UNCHANGED <<uart, sending, expiring>>

HeadArrives ==
    /\ late # None /\ coming = None
    /\ late' = None /\ coming' = late
    /\ ReceiveFSM([part |-> "head", of |-> late])
    /\ UNCHANGED <<task, port, served, code>>

TailArrives ==
    /\ coming # None
    /\ coming' = None
    /\ ReceiveFSM([part |-> "tail", of |-> coming])
    /\ UNCHANGED <<task, port, late, served, code>>

Noise ==
    /\ ReceiveFSM([part |-> "noise", of |-> None])
    /\ UNCHANGED <<task, port, line, served, code>>

-----------------------------------------------------------------------------
(* The timer task begins when the poll task has nothing to do.               *)
Expires ==
    /\ timer # "off" /\ expiring = "no" /\ sending = "no" /\ ~xEventInQueue

(* xMBMasterRTUTimerExpired, first switch: a frame is complete, or it was    *)
(* too long ...                                                              *)
TimerExpired ==
    /\ Expires
    /\ eRcvState = "RCV" => Len(ucRTURcvBuf) >= 2
    /\ CASE eRcvState = "RCV" ->
              EventPost("FRAME_RECEIVED") /\ UNCHANGED errorType
         [] eRcvState = "ERROR" ->
              EventPost("ERROR_PROCESS") /\ errorType' = "RECEIVE_DATA"
         [] OTHER -> UNCHANGED <<eQueuedEvent, xEventInQueue, errorType>>
    /\ timer' = "off" /\ expiring' = "posted"
    /\ UNCHANGED <<task, xMBIsFinished, frame, eSndState, eRcvState, ucRTURcvBuf,
                   uart, sending, line, served, code>>

(* ... the receiver is idle, whatever came since ...                         *)
TimerExpiredRcv ==
    /\ expiring = "posted"
    /\ expiring' = "received" /\ eRcvState' = "IDLE"
    /\ UNCHANGED <<task, port, eSndState, ucRTURcvBuf, uart, sending, timer, line,
                   served, code>>

(* ... second switch: the wait for an answer is over ...                     *)
TimerExpiredSnd ==
    /\ expiring = "received"
    /\ expiring' = "ended"
    /\ IF eSndState = "XFWR"
       THEN EventPost("ERROR_PROCESS") /\ errorType' = "RESPOND_TIMEOUT"
       ELSE UNCHANGED <<eQueuedEvent, xEventInQueue, errorType>>
    /\ UNCHANGED <<task, xMBIsFinished, frame, eSndState, eRcvState, ucRTURcvBuf,
                   uart, sending, timer, line, served, code>>

(* ... the sender is idle and all timers stop.                               *)
TimerExpiredEnd ==
    /\ expiring = "ended"
    /\ expiring' = "no" /\ eSndState' = "IDLE" /\ timer' = "off"
    /\ UNCHANGED <<task, port, eRcvState, ucRTURcvBuf, uart, sending, line, served,
                   code>>

(* The early return for a fragment: the receiver drops it ...                *)
ShortFrame ==
    /\ Expires
    /\ eRcvState = "RCV" /\ Len(ucRTURcvBuf) < 2
    /\ timer' = "off" /\ expiring' = "short"
    /\ UNCHANGED <<task, port, eSndState, eRcvState, ucRTURcvBuf, uart, sending, line,
                   served, code>>

ShortFrameRcv ==
    /\ expiring = "short"
    /\ expiring' = "dropped" /\ eRcvState' = "IDLE"
    /\ UNCHANGED <<task, port, eSndState, ucRTURcvBuf, uart, sending, timer, line,
                   served, code>>

(* ... the sender waits for an answer again ...                              *)
ShortFrameSnd ==
    /\ expiring = "dropped"
    /\ expiring' = "again" /\ eSndState' = "XFWR"
    /\ UNCHANGED <<task, port, eRcvState, ucRTURcvBuf, uart, sending, timer, line,
                   served, code>>

(* ... with the response timer, also when a byte has come since.             *)
ShortFrameEnd_Untimed ==
    /\ expiring = "again"
    /\ expiring' = "no"
    /\ UNCHANGED <<task, port, eSndState, eRcvState, ucRTURcvBuf, uart, sending,
                   timer, line, served, code>>

ShortFrameEnd ==
    /\ expiring = "again"
    /\ expiring' = "no" /\ timer' = "respond"
    /\ UNCHANGED <<task, port, eSndState, eRcvState, ucRTURcvBuf, uart, sending, line,
                   served, code>>

Scan == (\E r \in Requests : ReqRead(r)) \/ TimeDly \/ WaitRequestFinish
PollTask == FrameSent \/ SendXmit \/ SendStart \/ FrameReceived \/ Execute \/ ErrorProcess
Uart == TransmitDone \/ HeadArrives \/ TailArrives \/ Noise
TimerGoesOn ==
    \/ TimerExpiredRcv \/ TimerExpiredSnd \/ TimerExpiredEnd
    \/ ShortFrameRcv \/ ShortFrameSnd \/ ShortFrameEnd
TimerTask == TimerExpired \/ ShortFrame \/ TimerGoesOn

Next == Scan \/ PollTask \/ Uart \/ TimerTask

(* Queued events are handled, a timer callback and a transmission end,       *)
(* and a task of lower priority runs whenever the others leave it the        *)
(* processor again and again.                                                *)
Fairness ==
    /\ WF_vars(PollTask) /\ WF_vars(TimerGoesOn) /\ WF_vars(TransmitDone)
    /\ SF_vars(TimeDly \/ WaitRequestFinish)

Spec == Init /\ [][Next]_vars /\ Fairness

-----------------------------------------------------------------------------
(* The master never waits for an answer without a timer that will end the    *)
(* wait: each way into STATE_M_TX_XFWR starts one, each way that stops it    *)
(* leaves the state, and a byte that comes in the middle of either restarts  *)
(* it (mbrtu_m.c 275-318, 385, 432, 468).                                    *)
WaitsTimed == eSndState = "XFWR" => timer # "off" \/ expiring # "no"

(* A sender that is in STATE_M_TX_XMIT has the transmitter, or is about to   *)
(* get it: no interrupt or timer leaves it there, where no interrupt of the  *)
(* transmitter would come to end it (mbrtu_m.c 223, 360, 432, 468).          *)
XmitHasUart == eSndState = "XMIT" => uart = "send" \/ sending = "xmit"

(* The one event field carries the orders to the poll task and the outcome   *)
(* for the scan task.  eMBMasterWaitRequestFinish reports any event that is  *)
(* no outcome as success (mbportevent_m.c 373-401): none is left when the    *)
(* request is finished.                                                      *)
OutcomeLeft ==
    /\ xEventInQueue => eQueuedEvent \in Events
    /\ ~xEventInQueue => eQueuedEvent \in Results \cup {"READY", "FRAME_SENT"}
    /\ eQueuedEvent \in {"READY", "FRAME_SENT"} => ~xMBIsFinished
    /\ eQueuedEvent = "SUCCESS" => served # None
    /\ errorType # "SUCCESS"

(* What RequestSpec promises of a request.                                   *)
Req == INSTANCE RequestSpec WITH pending <- waiting, asked <- req, stored <- served

(* What was executed for the request came from its device, in its size.      *)
ServedFits ==
    /\ served # None => Req!Fits(served, req)
    /\ eQueuedEvent = "EXECUTE" => frame # None /\ Dev[frame.r] = Dev[req]
    /\ code = "NO_ERR" => served # None

(* Where the parts of the port may be.                                       *)
PortInv == TypeOK /\ WaitsTimed /\ XmitHasUart /\ OutcomeLeft /\ ServedFits

(* A request is reported as done only if an answer of its device and size    *)
(* was executed since it was sent, whatever noise, late answers and timers   *)
(* did to the event that carries both orders and outcomes.                   *)
SuccessIsAnswered == code = "NO_ERR" => Req!Fits(served, req)

(* The port implements RequestSpec: requests follow one another, each has    *)
(* one end, which no late event, answer or timer moves or changes, nothing   *)
(* but a fitting answer is stored, and a request ends without error only     *)
(* after one was (mb_m.c 327-405, mbportevent_m.c 331-406).                  *)
RequestsServed == Req!Spec

(* Every request comes to its end, also when the frame was never sent or the *)
(* receiver waits for ever.                                                  *)
RequestEnds == waiting ~> ~waiting
=============================================================================
