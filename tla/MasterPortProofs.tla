-------------------------- MODULE MasterPortProofs --------------------------
(* The invariant of MasterPort, for any set of requests, any size of the     *)
(* buffer and any number of polls, what a reported success means, and the    *)
(* refinement of RequestSpec.                                                *)
EXTENDS MasterPort, SequenceTheorems, TLAPS

(* An answer is not None and has the fields of a frame.                      *)
LEMMA AnswerFacts ==
  ASSUME NEW a \in Maybe
  PROVE  a # None => a \in Answers /\ a.r \in Requests /\ a.ok \in BOOLEAN
  BY DEF Maybe, Answers

(* The port starts idle.                                                     *)
LEMMA InvInit == Init => PortInv
<1> SUFFICES ASSUME Init PROVE PortInv
  OBVIOUS
<1>1. TypeOK
  <2>1. /\ waiting \in BOOLEAN /\ xEventInQueue \in BOOLEAN
        /\ xMBIsFinished \in BOOLEAN
    BY Zenon DEF Init
  <2>2. /\ req \in Requests /\ ucDlyCount \in 0..WaitTimes
        /\ eQueuedEvent \in Events \cup Results /\ errorType \in Results
        /\ frame \in Maybe /\ late \in Maybe /\ coming \in Maybe /\ served \in Maybe
        /\ eSndState \in {"IDLE", "XMIT", "XFWR"}
        /\ eRcvState \in {"IDLE", "RCV", "ERROR"}
        /\ timer \in {"off", "t35", "respond"} /\ code \in Codes \cup {"none"}
        /\ uart \in {"receive", "send", "mute"}
        /\ sending \in SendSteps /\ expiring \in TimerSteps
    BY PortAssumption DEF Init, Events, Results, Maybe, SendSteps, TimerSteps
  <2>3. ucRTURcvBuf \in Seq(Chunks) /\ Len(ucRTURcvBuf) <= BufSize
    BY PortAssumption DEF Init
  <2> QED BY <2>1, <2>2, <2>3 DEF TypeOK
<1>2. WaitsTimed /\ XmitHasUart /\ OutcomeLeft /\ ServedFits
  BY DEF Init, WaitsTimed, XmitHasUart, OutcomeLeft, ServedFits, Results
<1> QED BY <1>1, <1>2 DEF PortInv

(* The wait of a request ends without error only if the event field holds    *)
(* the outcome of an answer: it holds some outcome by then.                  *)
LEMMA ReportedAnswered ==
  ASSUME PortInv, WaitRequestFinish
  PROVE  code' = "NO_ERR" => served # None
<1> USE DEF PortInv
<1>1. CASE ucDlyCount = WaitTimes
  BY <1>1 DEF WaitRequestFinish
<1>2. CASE ucDlyCount # WaitTimes
  <2>1. code' = ErrStatus(eQueuedEvent) /\ ~xEventInQueue /\ ~KeepsWaiting
    BY <1>2 DEF WaitRequestFinish, ScanRuns
  <2>2. xMBIsFinished
    BY <1>2, <2>1, PortAssumption DEF KeepsWaiting, TypeOK
  <2>3. eQueuedEvent \in Results
    BY <2>1, <2>2 DEF OutcomeLeft
  <2> QED BY <2>1, <2>3 DEF OutcomeLeft, ErrStatus, Results
<1> QED BY <1>1, <1>2

(* A frame that is executed came from the device asked.                      *)
LEMMA FrameOfDevice ==
  ASSUME PortInv, Execute
  PROVE  frame \in Answers /\ frame # None /\ Dev[frame.r] = Dev[req]
  BY AnswerFacts DEF PortInv, Execute, Poll, TypeOK, ServedFits

(* The scan task.                                                            *)
LEMMA ScanStep ==
  ASSUME PortInv, Scan
  PROVE  PortInv'
<1> USE DEF PortInv
<1>1. ASSUME NEW r \in Requests, ReqRead(r) PROVE PortInv'
  <2>1. TypeOK'
    BY <1>1 DEF ReqRead, EventPost, TypeOK, Events, Maybe, Codes, rtu, line
  <2>2. WaitsTimed' /\ XmitHasUart' /\ OutcomeLeft' /\ ServedFits'
    BY <1>1 DEF ReqRead, EventPost, WaitsTimed, XmitHasUart, OutcomeLeft, ServedFits,
       Events, rtu
  <2> QED BY <2>1, <2>2
<1>2. CASE TimeDly
  <2>1. TypeOK'
    BY <1>2, PortAssumption DEF TimeDly, KeepsWaiting, TypeOK, port, rtu, line
  <2>2. WaitsTimed' /\ XmitHasUart' /\ OutcomeLeft' /\ ServedFits'
    BY <1>2 DEF TimeDly, WaitsTimed, XmitHasUart, OutcomeLeft, ServedFits, Req!Fits,
       port, rtu
  <2> QED BY <2>1, <2>2
<1>3. CASE WaitRequestFinish
  <2>1. ErrStatus(eQueuedEvent) \in Codes
    BY DEF ErrStatus, Codes
  <2>2. TypeOK'
    <3>1. /\ waiting' \in BOOLEAN /\ xMBIsFinished' \in BOOLEAN
      BY <1>3, Zenon DEF WaitRequestFinish, TypeOK
    <3>2. /\ ucDlyCount' \in 0..WaitTimes /\ eQueuedEvent' \in Events \cup Results
          /\ code' \in Codes \cup {"none"}
      BY <1>3, <2>1, PortAssumption DEF WaitRequestFinish, TypeOK, Results, Codes
    <3>3. UNCHANGED <<req, xEventInQueue, errorType, frame, rtu, line, served>>
      BY <1>3 DEF WaitRequestFinish
    <3> QED BY <3>1, <3>2, <3>3 DEF TypeOK, rtu, line
  <2>3. WaitsTimed' /\ XmitHasUart'
    BY <1>3 DEF WaitRequestFinish, WaitsTimed, XmitHasUart, rtu
  <2>4. OutcomeLeft'
    <3>0. ~xEventInQueue /\ UNCHANGED <<xEventInQueue, errorType, served>>
      BY <1>3 DEF WaitRequestFinish, ScanRuns
    <3>1. CASE ucDlyCount = WaitTimes
      <4>1. eQueuedEvent' = "RESPOND_TIMEOUT"
        BY <1>3, <3>1 DEF WaitRequestFinish
      <4> QED BY <3>0, <4>1 DEF OutcomeLeft, Results
    <3>2. CASE ucDlyCount # WaitTimes
      <4>1. UNCHANGED <<eQueuedEvent, xMBIsFinished>>
        BY <1>3, <3>2 DEF WaitRequestFinish
      <4> QED BY <3>0, <4>1 DEF OutcomeLeft
    <3> QED BY <3>1, <3>2
  <2>5. code' = "NO_ERR" => served # None
    BY <1>3, ReportedAnswered
  <2>6. ServedFits'
    BY <1>3, <2>5 DEF WaitRequestFinish, ServedFits, Req!Fits
  <2> QED BY <2>2, <2>3, <2>4, <2>6
<1> QED BY <1>1, <1>2, <1>3 DEF Scan

(* The poll task.                                                            *)
LEMMA PollStep ==
  ASSUME PortInv, PollTask
  PROVE  PortInv'
<1> USE DEF PortInv
<1>1. CASE FrameSent
  <2>1. TypeOK'
    BY <1>1 DEF FrameSent, TypeOK, SendSteps, task, line
  <2>2. WaitsTimed' /\ XmitHasUart' /\ OutcomeLeft' /\ ServedFits'
    BY <1>1 DEF FrameSent, Poll, TypeOK, WaitsTimed, XmitHasUart, OutcomeLeft,
       ServedFits, Req!Fits, Results, task
  <2> QED BY <2>1, <2>2
<1>2. CASE FrameReceived
  <2>1. ASSUME NEW a \in ForUs, frame' = a, EventPost("EXECUTE"),
               UNCHANGED errorType
        PROVE  PortInv'
    <3>1. a \in Answers /\ a # None /\ Dev[a.r] = Dev[req]
      BY <2>1, PortAssumption DEF ForUs, Received
    <3>2. TypeOK'
      BY <1>2, <2>1, <3>1 DEF FrameReceived, EventPost, TypeOK, Events, Maybe, task,
         rtu, line
    <3>3. WaitsTimed' /\ XmitHasUart' /\ OutcomeLeft' /\ ServedFits'
      BY <1>2, <2>1, <3>1 DEF FrameReceived, EventPost, WaitsTimed, XmitHasUart,
         OutcomeLeft, ServedFits, Req!Fits, Events, task, rtu
    <3> QED BY <3>2, <3>3
  <2>2. CASE /\ errorType' = "RECEIVE_DATA" /\ EventPost("ERROR_PROCESS")
             /\ UNCHANGED frame
    <3>1. TypeOK'
      BY <1>2, <2>2 DEF FrameReceived, EventPost, TypeOK, Events, Results, task, rtu,
         line
    <3>2. WaitsTimed' /\ XmitHasUart' /\ OutcomeLeft' /\ ServedFits'
      BY <1>2, <2>2 DEF FrameReceived, EventPost, WaitsTimed, XmitHasUart,
         OutcomeLeft, ServedFits, Req!Fits, Events, task, rtu
    <3> QED BY <3>1, <3>2
  <2> QED BY <1>2, <2>1, <2>2 DEF FrameReceived
<1>3. CASE Execute
  <2>0. frame \in Answers /\ frame # None /\ Dev[frame.r] = Dev[req]
    BY <1>3, FrameOfDevice
  <2>1. CASE FuncReadHolding
    <3>1. Finish("SUCCESS") /\ served' = frame /\ UNCHANGED errorType
      BY <1>3, <2>1 DEF Execute
    <3>2. Req!Fits(served', req')
      BY <1>3, <2>0, <2>1, <3>1 DEF Execute, FuncReadHolding, Req!Fits, task
    <3>3. TypeOK'
      <4>1. UNCHANGED <<task, rtu, line, code, errorType>> /\ TypeOK
        BY <1>3, <3>1 DEF Execute
      <4>2. xMBIsFinished' \in BOOLEAN /\ xEventInQueue' \in BOOLEAN
        BY <3>1, Zenon DEF Finish
      <4>3. eQueuedEvent' \in Events \cup Results /\ served' \in Maybe /\ frame' \in Maybe
        BY <1>3, <2>0, <3>1 DEF Execute, Finish, Results, Maybe
      <4> QED BY <4>1, <4>2, <4>3 DEF TypeOK, task, rtu, line
    <3>4. WaitsTimed' /\ XmitHasUart' /\ OutcomeLeft' /\ ServedFits'
      BY <1>3, <2>0, <3>1, <3>2 DEF Execute, Finish, WaitsTimed, XmitHasUart,
         OutcomeLeft, ServedFits, Results, rtu
    <3> QED BY <3>3, <3>4
  <2>2. CASE ~FuncReadHolding
    <3>1. /\ errorType' = "EXECUTE_FUNCTION" /\ EventPost("ERROR_PROCESS")
          /\ UNCHANGED <<xMBIsFinished, served>>
      BY <1>3, <2>2 DEF Execute
    <3>2. TypeOK'
      BY <1>3, <3>1 DEF Execute, EventPost, TypeOK, Events, Results, Maybe, task, rtu,
         line
    <3>3. WaitsTimed' /\ XmitHasUart' /\ OutcomeLeft' /\ ServedFits'
      BY <1>3, <3>1 DEF Execute, EventPost, WaitsTimed, XmitHasUart, OutcomeLeft,
         ServedFits, Req!Fits, Events, task, rtu
    <3> QED BY <3>2, <3>3
  <2> QED BY <2>1, <2>2
<1>4. CASE ErrorProcess
  <2>1. TypeOK'
    BY <1>4 DEF ErrorProcess, Finish, TypeOK, task, rtu, line
  <2>2. WaitsTimed' /\ XmitHasUart' /\ OutcomeLeft' /\ ServedFits'
    BY <1>4 DEF ErrorProcess, Finish, TypeOK, WaitsTimed, XmitHasUart, OutcomeLeft,
       ServedFits, Req!Fits, Results, Events, task, rtu
  <2> QED BY <2>1, <2>2
<1>5. CASE SendXmit
  <2>1. TypeOK'
    BY <1>5 DEF SendXmit, TypeOK, SendSteps, task, port, line
  <2>2. WaitsTimed' /\ XmitHasUart' /\ OutcomeLeft' /\ ServedFits'
    BY <1>5 DEF SendXmit, WaitsTimed, XmitHasUart, OutcomeLeft, ServedFits, Req!Fits,
       task, port
  <2> QED BY <2>1, <2>2
<1>6. CASE SendStart
  <2>1. TypeOK'
    BY <1>6 DEF SendStart, TypeOK, SendSteps, task, port, line
  <2>2. WaitsTimed' /\ XmitHasUart' /\ OutcomeLeft' /\ ServedFits'
    BY <1>6 DEF SendStart, WaitsTimed, XmitHasUart, OutcomeLeft, ServedFits, Req!Fits,
       task, port
  <2> QED BY <2>1, <2>2
<1> QED BY <1>1, <1>2, <1>3, <1>4, <1>5, <1>6 DEF PollTask

(* A chunk of bytes keeps the state machines in step.                        *)
LEMMA ReceiveStep ==
  ASSUME PortInv, NEW c \in Chunks, ReceiveFSM(c)
  PROVE  /\ eSndState' \in {"IDLE", "XMIT", "XFWR"}
         /\ eRcvState' \in {"IDLE", "RCV", "ERROR"}
         /\ ucRTURcvBuf' \in Seq(Chunks) /\ Len(ucRTURcvBuf') <= BufSize
         /\ timer' \in {"off", "t35", "respond"}
         /\ UNCHANGED <<uart, sending, expiring>>
         /\ WaitsTimed' /\ XmitHasUart'
<1> USE DEF PortInv
<1>0. /\ ucRTURcvBuf \in Seq(Chunks) /\ Len(ucRTURcvBuf) \in Nat
      /\ Len(ucRTURcvBuf) <= BufSize
  BY LenProperties DEF TypeOK
<1>1. CASE uart # "receive"
  <2>1. UNCHANGED rtu BY <1>1 DEF ReceiveFSM
  <2> QED BY <1>0, <2>1 DEF rtu, TypeOK, WaitsTimed, XmitHasUart
<1>2. CASE uart = "receive"
  <2>0. timer' = "t35" /\ UNCHANGED <<uart, sending, expiring>>
    BY <1>2 DEF ReceiveFSM
  <2>1. CASE eRcvState = "IDLE"
    <3>1. eSndState' = "IDLE" /\ eRcvState' = "RCV" /\ ucRTURcvBuf' = <<c>>
      BY <1>2, <2>1 DEF ReceiveFSM
    <3>2. <<c>> \in Seq(Chunks) /\ Len(<<c>>) <= BufSize
      BY PortAssumption
    <3> QED BY <2>0, <3>1, <3>2 DEF WaitsTimed, XmitHasUart
  <2>2. CASE eRcvState = "RCV" /\ Len(ucRTURcvBuf) < BufSize
    <3>1. /\ ucRTURcvBuf' = Append(ucRTURcvBuf, c)
          /\ UNCHANGED <<eSndState, eRcvState>>
      BY <1>2, <2>2 DEF ReceiveFSM
    <3>2. ucRTURcvBuf' \in Seq(Chunks) /\ Len(ucRTURcvBuf') = Len(ucRTURcvBuf) + 1
      BY <1>0, <3>1, AppendProperties
    <3>3. Len(ucRTURcvBuf') <= BufSize
      BY <1>0, <2>2, <3>2, PortAssumption
    <3> QED BY <2>0, <2>2, <3>1, <3>2, <3>3 DEF TypeOK, WaitsTimed, XmitHasUart
  <2>3. CASE eRcvState # "IDLE" /\ ~(eRcvState = "RCV" /\ Len(ucRTURcvBuf) < BufSize)
    <3>1. eRcvState' = "ERROR" /\ UNCHANGED <<eSndState, ucRTURcvBuf>>
      BY <1>2, <2>3 DEF ReceiveFSM
    <3> QED BY <1>0, <2>0, <2>3, <3>1 DEF TypeOK, WaitsTimed, XmitHasUart
  <2> QED BY <2>1, <2>2, <2>3
<1> QED BY <1>1, <1>2 DEF TypeOK

(* The interrupts of the UART.                                               *)
LEMMA UartStep ==
  ASSUME PortInv, Uart
  PROVE  PortInv'
<1> USE DEF PortInv
<1>1. CASE TransmitDone
  <2>1. late' \in Maybe
    BY <1>1 DEF TransmitDone, TypeOK, Maybe, Answers
  <2>2. TypeOK'
    BY <1>1, <2>1 DEF TransmitDone, TypeOK, task, port
  <2>3. WaitsTimed' /\ XmitHasUart' /\ OutcomeLeft' /\ ServedFits'
    BY <1>1 DEF TransmitDone, TypeOK, WaitsTimed, XmitHasUart, OutcomeLeft,
       ServedFits, Req!Fits, task, port
  <2> QED BY <2>2, <2>3
<1>2. ASSUME NEW c \in Chunks, ReceiveFSM(c), late' \in Maybe, coming' \in Maybe,
             UNCHANGED <<task, port, served, code>>
      PROVE  PortInv'
  <2>1. TypeOK'
    BY <1>2, ReceiveStep DEF TypeOK, task, port
  <2>2. OutcomeLeft' /\ ServedFits'
    BY <1>2 DEF OutcomeLeft, ServedFits, Req!Fits, task, port
  <2> QED BY <1>2, <2>1, <2>2, ReceiveStep
<1>3. CASE HeadArrives
  <2>1. [part |-> "head", of |-> late] \in Chunks
    BY <1>3, AnswerFacts DEF HeadArrives, TypeOK, Chunks
  <2> QED BY <1>2, <1>3, <2>1 DEF HeadArrives, TypeOK, Maybe
<1>4. CASE TailArrives
  <2>1. [part |-> "tail", of |-> coming] \in Chunks
    BY <1>4, AnswerFacts DEF TailArrives, TypeOK, Chunks
  <2> QED BY <1>2, <1>4, <2>1 DEF TailArrives, TypeOK, Maybe
<1>5. CASE Noise
  <2>1. [part |-> "noise", of |-> None] \in Chunks
    BY DEF Chunks
  <2> QED BY <1>2, <1>5, <2>1 DEF Noise, TypeOK, line
<1> QED BY <1>1, <1>3, <1>4, <1>5 DEF Uart

(* The timer task.                                                           *)
LEMMA TimerStep ==
  ASSUME PortInv, TimerTask
  PROVE  PortInv'
<1> USE DEF PortInv
<1>1. CASE TimerExpired
  <2>1. TypeOK'
    BY <1>1 DEF TimerExpired, EventPost, TypeOK, Events, Results, TimerSteps, task, line
  <2>2. WaitsTimed' /\ XmitHasUart' /\ OutcomeLeft' /\ ServedFits'
    BY <1>1 DEF TimerExpired, Expires, EventPost, TypeOK, WaitsTimed, XmitHasUart,
       OutcomeLeft, ServedFits, Req!Fits, Events, Results, task
  <2> QED BY <2>1, <2>2
<1>2. CASE TimerExpiredRcv
  <2>1. TypeOK'
    BY <1>2 DEF TimerExpiredRcv, TypeOK, TimerSteps, task, port, line
  <2>2. WaitsTimed' /\ XmitHasUart' /\ OutcomeLeft' /\ ServedFits'
    BY <1>2 DEF TimerExpiredRcv, WaitsTimed, XmitHasUart, OutcomeLeft, ServedFits,
       Req!Fits, task, port
  <2> QED BY <2>1, <2>2
<1>3. CASE TimerExpiredSnd
  <2>1. TypeOK'
    BY <1>3 DEF TimerExpiredSnd, EventPost, TypeOK, Events, Results, TimerSteps, task, line
  <2>2. WaitsTimed' /\ XmitHasUart' /\ OutcomeLeft' /\ ServedFits'
    BY <1>3 DEF TimerExpiredSnd, EventPost, TypeOK, WaitsTimed, XmitHasUart,
       OutcomeLeft, ServedFits, Req!Fits, Events, Results, task
  <2> QED BY <2>1, <2>2
<1>4. CASE TimerExpiredEnd
  <2>1. TypeOK'
    BY <1>4 DEF TimerExpiredEnd, TypeOK, TimerSteps, task, port, line
  <2>2. WaitsTimed' /\ XmitHasUart' /\ OutcomeLeft' /\ ServedFits'
    BY <1>4 DEF TimerExpiredEnd, WaitsTimed, XmitHasUart, OutcomeLeft, ServedFits,
       Req!Fits, task, port
  <2> QED BY <2>1, <2>2
<1>5. CASE ShortFrame
  <2>1. TypeOK'
    BY <1>5 DEF ShortFrame, TypeOK, TimerSteps, task, port, line
  <2>2. WaitsTimed' /\ XmitHasUart' /\ OutcomeLeft' /\ ServedFits'
    BY <1>5 DEF ShortFrame, WaitsTimed, XmitHasUart, OutcomeLeft, ServedFits,
       Req!Fits, task, port
  <2> QED BY <2>1, <2>2
<1>6. CASE ShortFrameRcv
  <2>1. TypeOK'
    BY <1>6 DEF ShortFrameRcv, TypeOK, TimerSteps, task, port, line
  <2>2. WaitsTimed' /\ XmitHasUart' /\ OutcomeLeft' /\ ServedFits'
    BY <1>6 DEF ShortFrameRcv, WaitsTimed, XmitHasUart, OutcomeLeft, ServedFits,
       Req!Fits, task, port
  <2> QED BY <2>1, <2>2
<1>7. CASE ShortFrameSnd
  <2>1. TypeOK'
    BY <1>7 DEF ShortFrameSnd, TypeOK, TimerSteps, task, port, line
  <2>2. WaitsTimed' /\ XmitHasUart' /\ OutcomeLeft' /\ ServedFits'
    BY <1>7 DEF ShortFrameSnd, WaitsTimed, XmitHasUart, OutcomeLeft, ServedFits,
       Req!Fits, task, port
  <2> QED BY <2>1, <2>2
<1>8. CASE ShortFrameEnd
  <2>1. TypeOK'
    BY <1>8 DEF ShortFrameEnd, TypeOK, TimerSteps, task, port, line
  <2>2. WaitsTimed' /\ XmitHasUart' /\ OutcomeLeft' /\ ServedFits'
    BY <1>8 DEF ShortFrameEnd, WaitsTimed, XmitHasUart, OutcomeLeft, ServedFits,
       Req!Fits, task, port
  <2> QED BY <2>1, <2>2
<1> QED BY <1>1, <1>2, <1>3, <1>4, <1>5, <1>6, <1>7, <1>8 DEF TimerTask, TimerGoesOn

(* Every step keeps the invariant.                                           *)
LEMMA InvStep == PortInv /\ [Next]_vars => PortInv'
<1> SUFFICES ASSUME PortInv, [Next]_vars PROVE PortInv'
  OBVIOUS
<1>1. CASE UNCHANGED vars
  BY <1>1 DEF vars, task, port, rtu, line, PortInv, TypeOK, WaitsTimed, XmitHasUart,
     OutcomeLeft, ServedFits, Req!Fits
<1> QED BY <1>1, ScanStep, PollStep, UartStep, TimerStep DEF Next

(* The event field never holds an order when the scan task reads it as an    *)
(* outcome, the sender never waits for an answer without a timer and never   *)
(* transmits without the transmitter, wherever in the send routine and the   *)
(* timer callback the interrupts of the UART come.                           *)
THEOREM PortHolds == Spec => []PortInv
  BY InvInit, InvStep, PTL DEF Spec

(* MB_MRE_NO_ERR is returned only after an answer of the device asked, of    *)
(* the size asked, was executed for this request.                            *)
THEOREM SuccessMeansAnswer == Spec => []SuccessIsAnswered
<1>1. PortInv => SuccessIsAnswered
  BY DEF PortInv, ServedFits, SuccessIsAnswered
<1> QED BY <1>1, PortHolds, PTL

-----------------------------------------------------------------------------
(* The refinement of RequestSpec: a request and its end show, and what is    *)
(* executed in between or later; all the rest of the port does not.          *)
LEMMA RequestInit == Init => Req!Init
  BY DEF Init, Req!Init

(* The end of the wait is the end of the request, with the code it returns.  *)
LEMMA EndStep ==
  ASSUME PortInv, WaitRequestFinish
  PROVE  \E c \in Codes : Req!End(c)
<1>1. code' \in Codes
  BY DEF WaitRequestFinish, ErrStatus, Codes
<1>2. waiting /\ waiting' = FALSE /\ UNCHANGED <<req, served>>
  BY DEF WaitRequestFinish
<1>3. Req!End(code')
  BY <1>2, ReportedAnswered DEF Req!End
<1> QED BY <1>1, <1>3

(* An execution stores the frame, or nothing if it fails.                    *)
LEMMA StoreStep ==
  ASSUME PortInv, Execute
  PROVE  (\E a \in Answers : Req!Store(a)) \/ UNCHANGED Req!vars
<1>1. UNCHANGED <<req, waiting, code>>
  BY DEF Execute, task
<1>2. CASE FuncReadHolding
  <2>1. served' = frame
    BY <1>2 DEF Execute
  <2>2. Req!Fits(frame, req)
    BY <1>2, FrameOfDevice DEF FuncReadHolding, Req!Fits
  <2>3. Req!Store(frame)
    BY <1>1, <2>1, <2>2 DEF Req!Store
  <2> QED BY <2>3, FrameOfDevice
<1>3. CASE ~FuncReadHolding
  BY <1>1, <1>3 DEF Execute, Req!vars
<1> QED BY <1>2, <1>3

(* Every step of the port is a step of RequestSpec or shows nowhere.         *)
LEMMA RequestStep == PortInv /\ [Next]_vars => [Req!Next]_(Req!vars)
<1> SUFFICES ASSUME PortInv, [Next]_vars PROVE [Req!Next]_(Req!vars)
  OBVIOUS
<1>1. ASSUME NEW r \in Requests, ReqRead(r) PROVE Req!Next
  BY <1>1 DEF ReqRead, Req!Next, Req!Ask
<1>2. CASE WaitRequestFinish
  BY <1>2, EndStep DEF Req!Next
<1>3. CASE Execute
  BY <1>3, StoreStep DEF Req!Next, Req!Answers, Answers
<1>4. CASE TimeDly \/ FrameSent \/ SendXmit \/ SendStart \/ FrameReceived \/ ErrorProcess
  BY <1>4 DEF TimeDly, FrameSent, SendXmit, SendStart, FrameReceived, ErrorProcess,
     task, Req!vars
<1>5. CASE Uart \/ TimerTask
  BY <1>5 DEF Uart, TransmitDone, HeadArrives, TailArrives, Noise, TimerTask,
     TimerExpired, TimerGoesOn, TimerExpiredRcv, TimerExpiredSnd, TimerExpiredEnd,
     ShortFrame, ShortFrameRcv, ShortFrameSnd, ShortFrameEnd, task, Req!vars
<1>6. CASE UNCHANGED vars
  BY <1>6 DEF vars, task, Req!vars
<1> QED BY <1>1, <1>2, <1>3, <1>4, <1>5, <1>6 DEF Next, Scan, PollTask

(* The stack implements the promise to the scan: whatever late answers,      *)
(* noise, interrupts and timers do, a request has one end, and it ends       *)
(* without error only after an answer that fits it was stored for it.        *)
THEOREM RequestsImplemented == Spec => RequestsServed
<1>1. Init /\ [][Next]_vars /\ []PortInv => Req!Init /\ [][Req!Next]_(Req!vars)
  BY RequestInit, RequestStep, PTL
<1>2. Spec => Init /\ [][Next]_vars
  BY PTL DEF Spec
<1> QED BY <1>1, <1>2, PortHolds, PTL DEF RequestsServed, Req!Spec
=============================================================================
