--------------------------- MODULE GatewayProofs ----------------------------
(***************************************************************************)
(* Proofs about Gateway: its type invariant, the inductive invariant IInv  *)
(* and the promises of the radio loop that follow from it, for every set   *)
(* of frames, FIFO size, wait count and number of frames heard; and about  *)
(* PromptGateway, what a prompt interrupt thread adds to them.             *)
(***************************************************************************)
EXTENDS PromptGateway, LoRaProofs

-----------------------------------------------------------------------------
(* Type correctness.                                                       *)

USE DEF rxPointers, chipVars, driverVars, loopVars, radioVars, callerVars, localVars

LEMMA InitType == Init => TypeOK
<1> SUFFICES ASSUME Init PROVE TypeOK
  OBVIOUS
<1>1. LoRaTypeOK
  BY BeginType DEF Init
<1>2. LoopTypeOK
  <2>1. lora_tx_done \in BOOLEAN /\ lora_rx_done \in BOOLEAN
    BY DEF Init
  <2>2. i \in 0 .. WaitCount + 1 /\ heard \in 0 .. MaxHeard
    BY CountAssumption DEF Init
  <2>3. report \in [head : Frames, tail : Frames]
    BY DEF Init, Frames, ClearedBuf
  <2>4. pc = "top" /\ event = "none"
    BY DEF Init
  <2> QED
    BY <2>1, <2>2, <2>3, <2>4 DEF LoopTypeOK, Places
<1> QED
  BY <1>1, <1>2 DEF TypeOK, LoRaTypeOK

\* A step of the loop.
LEMMA LoopType == TypeOK /\ Loop => TypeOK'
<1> SUFFICES ASSUME TypeOK, Loop PROVE TypeOK'
  OBVIOUS
<1> USE CountAssumption, ChipStepType
    DEF TypeOK, LoopTypeOK, Unused, ClearedBuf, At, Places
<1>1. ASSUME UNCHANGED radioVars PROVE ChipTypeOK' /\ DriverTypeOK'
  BY <1>1 DEF DriverTypeOK
<1>2. CASE SendBroadcast \/ SendAck
  <2>1. PICK f \in Frames, from, to \in Places : Send(f, from, to)
    BY <1>2 DEF SendBroadcast, SendAck, Frames
  <2>2. DriverTypeOK'
    BY <2>1 DEF Send, LoRa_send, Goto, DriverTypeOK, SendSteps
  <2>3. lora_tx_done' \in BOOLEAN
    BY <2>1 DEF Send
  <2>4. LoopTypeOK'
    BY <2>1, <2>3 DEF Send, Frames
  <2> QED
    BY <2>1, <2>2, <2>4 DEF Send, LoRa_send
<1>3. CASE PollTx \/ BroadcastDone \/ AckDone
  BY <1>3, <1>1 DEF PollTx, BroadcastDone, AckDone, TxDone
<1>4. CASE StartReceive
  <2>1. DriverTypeOK'
    BY <1>4 DEF StartReceive, LoRa_receive, Goto, DriverTypeOK, RecvSteps, Frames
  <2>2. lora_rx_done' \in BOOLEAN
    BY <1>4 DEF StartReceive
  <2>3. LoopTypeOK'
    BY <1>4, <2>2 DEF StartReceive
  <2> QED
    BY <1>4, <2>1, <2>3 DEF StartReceive, LoRa_receive
<1>5. CASE PollRx
  BY <1>5, <1>1 DEF PollRx
<1>6. CASE EndWait
  BY <1>6, <1>1 DEF EndWait, Frames
<1>7. CASE CheckReceived \/ CheckCrc \/ InsertReport
  BY <1>7, <1>1 DEF CheckReceived, CheckCrc, InsertReport, LoopStep
<1>8. CASE CopyHead \/ CopyTail
  BY <1>8, <1>1 DEF CopyHead, CopyTail, LoopStep, DriverTypeOK
<1>9. CASE CheckStartMark
  BY <1>9, <1>1 DEF CheckStartMark, LoopStep, Frames
<1>10. CASE CheckSum
  BY <1>10, <1>1 DEF CheckSum, LoopStep
<1> QED
  BY <1>2, <1>3, <1>4, <1>5, <1>6, <1>7, <1>8, <1>9, <1>10 DEF Loop

LEMMA NextType == TypeOK /\ [Next]_vars => TypeOK'
<1> SUFFICES ASSUME TypeOK, [Next]_vars PROVE TypeOK'
  OBVIOUS
<1> USE DEF TypeOK, LoRaTypeOK
<1>1. ASSUME UNCHANGED loopVars PROVE LoopTypeOK'
  BY <1>1 DEF LoopTypeOK
<1>2. CASE Main
  BY <1>2, <1>1, LoopType, CallType DEF Main
<1>3. CASE rx_f \/ tx_f
  BY <1>3, IsrType DEF rx_f, tx_f, LoopTypeOK
<1>4. CASE Interrupt
  BY <1>4, <1>3, <1>1, IsrType DEF Interrupt
<1>5. CASE Transmitted
  BY <1>5, <1>1, RadioType DEF Transmitted
<1>6. CASE HearFrame
  <2>1. LoopTypeOK'
    BY <1>6, CountAssumption DEF HearFrame, LoopTypeOK
  <2> QED
    BY <1>6, <2>1, RadioType DEF HearFrame
<1>7. CASE UNCHANGED vars
  BY <1>7, <1>1, QuietType DEF vars
<1> QED
  BY <1>2, <1>4, <1>5, <1>6, <1>7 DEF Next

\* The registers, the buffers and both threads' places stay in range.
THEOREM TypeCorrect == Spec => []TypeOK
  BY InitType, NextType, PTL DEF Spec

-----------------------------------------------------------------------------
(* The discipline of the two threads, which needs nothing of TypeOK.       *)

LEMMA InitDiscipline == Init => Discipline
  BY DEF Init, LoRa_begin, ChipInit, Discipline, RadioIsWired,
         WindowStartsEmpty, NeverDeaf, CallInPlace, TransmitWaits,
         ListensInPlace, SentMeansQuiet, TxEnding, Sending, SendSteps, RecvSteps

USE DEF Discipline, RadioIsWired, WindowStartsEmpty, NeverDeaf, CallInPlace,
        TransmitWaits, ListensInPlace, SentMeansQuiet, TxEnding, Sending,
        SendSteps, RecvSteps

\* The loop begins a call with the flag it will wait for cleared, and leaves a
\* wait only when nothing of the frame is left in the interrupt thread.
LEMMA LoopDiscipline == Discipline /\ Loop => Discipline'
<1> SUFFICES ASSUME Discipline, Loop PROVE Discipline'
  OBVIOUS
<1> USE DEF At, LoopStep
<1>1. CASE SendBroadcast \/ SendAck
  BY <1>1 DEF SendBroadcast, SendAck, Send, LoRa_send, Goto
<1>2. CASE PollTx \/ BroadcastDone \/ AckDone
  BY <1>2 DEF PollTx, BroadcastDone, AckDone, TxDone
<1>3. CASE StartReceive
  BY <1>3 DEF StartReceive, LoRa_receive, Goto
<1>4. CASE PollRx \/ EndWait
  BY <1>4 DEF PollRx, EndWait
<1>5. CASE CheckReceived \/ CheckCrc \/ InsertReport
  BY <1>5 DEF CheckReceived, CheckCrc, InsertReport
<1>6. CASE CopyHead \/ CopyTail
  BY <1>6 DEF CopyHead, CopyTail
<1>7. CASE CheckStartMark \/ CheckSum
  BY <1>7 DEF CheckStartMark, CheckSum
<1> QED
  BY <1>1, <1>2, <1>3, <1>4, <1>5, <1>6, <1>7 DEF Loop

\* A call changes the wiring of the radio only while it is in standby.
LEMMA CallDiscipline ==
  Discipline /\ CallStep /\ UNCHANGED loopVars => Discipline'
<1> SUFFICES ASSUME Discipline, CallStep, UNCHANGED loopVars PROVE Discipline'
  OBVIOUS
<1> USE DEF Transfer, Goto
<1>1. CASE SendStandby
  BY <1>1 DEF SendStandby, Standby, WriteOpMode
<1>2. CASE SendPtr \/ SendFifo
  BY <1>2 DEF SendPtr, WriteFifoPtr, SendFifo, WriteFifo
<1>3. CASE SendMapping
  BY <1>3 DEF SendMapping, WriteMapping
<1>4. CASE SendHandler \/ ReceiveHandler
  BY <1>4 DEF SendHandler, ReceiveHandler, SetHandler
<1>5. CASE SendTx
  BY <1>5 DEF SendTx, WriteOpMode
<1>6. CASE ReceiveStandby
  BY <1>6 DEF ReceiveStandby, Standby, WriteOpMode
<1>7. CASE ReceiveMapping
  BY <1>7 DEF ReceiveMapping, WriteMapping
<1>8. CASE ReceiveRx
  BY <1>8 DEF ReceiveRx, WriteOpMode
<1> QED
  BY <1>1, <1>2, <1>3, <1>4, <1>5, <1>6, <1>7, <1>8
  DEF CallStep, SendStep, ReceiveStep

\* A handler acts on a flag it has seen, and takes it down before it calls
\* back.
LEMMA InterruptDiscipline == Discipline /\ Interrupt => Discipline'
<1> SUFFICES ASSUME Discipline, Interrupt PROVE Discipline'
  OBVIOUS
<1> USE DEF Isr, RxSteps, TxSteps, RxBusy
<1>1. CASE IsrWake /\ UNCHANGED loopVars
  BY <1>1 DEF IsrWake
<1>2. CASE (RxFlags \/ TxFlags) /\ UNCHANGED loopVars
  BY <1>2 DEF RxFlags, TxFlags, IsrTest
<1>3. CASE (RxAddr \/ RxFifo) /\ UNCHANGED loopVars
  BY <1>3 DEF RxAddr, WriteFifoPtr, RxFifo, ReadFifo
<1>4. CASE (RxCopyHead \/ RxCopyTail \/ RxCrc) /\ UNCHANGED loopVars
  BY <1>4 DEF RxCopyHead, RxCopyTail, RxCrc
<1>5. CASE (RxReset \/ TxReset) /\ UNCHANGED loopVars
  BY <1>5 DEF RxReset, TxReset, IsrResetFlags, ClearIrqFlags, ResetMask, IrqFlags
<1>6. CASE TxSleep /\ UNCHANGED loopVars
  BY <1>6 DEF TxSleep, WriteOpMode
<1>7. CASE rx_f
  BY <1>7 DEF rx_f, RxReturn
<1>8. CASE tx_f
  BY <1>8 DEF tx_f, TxCallback
<1> QED
  BY <1>1, <1>2, <1>3, <1>4, <1>5, <1>6, <1>7, <1>8 DEF Interrupt, IsrStep

\* The radio raises RxDone only where the loop listens, and its edge is seen.
LEMMA RadioDiscipline == Discipline /\ (Transmitted \/ HearFrame) => Discipline'
<1> SUFFICES ASSUME Discipline, Transmitted \/ HearFrame PROVE Discipline'
  OBVIOUS
<1> USE DEF RxSteps, RxBusy
<1>1. CASE Transmitted
  BY <1>1 DEF Transmitted, TxComplete, ChipTxComplete
<1>2. CASE HearFrame
  BY <1>2 DEF HearFrame, Hear, ChipHear, LatchEdge, Dio0Rises, Dio0
<1> QED
  BY <1>1, <1>2

LEMMA NextDiscipline == Discipline /\ [Next]_vars => Discipline'
<1> SUFFICES ASSUME Discipline, [Next]_vars PROVE Discipline'
  OBVIOUS
<1>1. CASE Main
  BY <1>1, LoopDiscipline, CallDiscipline DEF Main
<1>2. CASE UNCHANGED vars
  BY <1>2 DEF vars
<1> QED
  BY <1>1, <1>2, InterruptDiscipline, RadioDiscipline DEF Next

-----------------------------------------------------------------------------
(* Where a stored report comes from.                                       *)

LEMMA LoopFresh == TypeOK /\ Discipline /\ OfThisWindow /\ Loop => OfThisWindow'
<1> SUFFICES ASSUME TypeOK, Discipline, OfThisWindow, Loop PROVE OfThisWindow'
  OBVIOUS
<1> USE DEF At, LoopStep, OfThisWindow, Looking
<1>1. CASE SendBroadcast \/ SendAck
  BY <1>1 DEF SendBroadcast, SendAck, Send
<1>2. CASE PollTx \/ BroadcastDone \/ AckDone
  BY <1>2 DEF PollTx, BroadcastDone, AckDone, TxDone
<1>3. CASE StartReceive
  BY <1>3 DEF StartReceive, LoRa_receive
<1>4. CASE PollRx \/ EndWait
  BY <1>4 DEF PollRx, EndWait
<1>5. CASE CheckReceived \/ CheckCrc \/ InsertReport
  BY <1>5 DEF CheckReceived, CheckCrc, InsertReport
<1>6. CASE CopyHead \/ CopyTail
  BY <1>6 DEF CopyHead, CopyTail
<1>7. CASE CheckStartMark \/ CheckSum
  BY <1>7 DEF CheckStartMark, CheckSum
<1> QED
  BY <1>1, <1>2, <1>3, <1>4, <1>5, <1>6, <1>7 DEF Loop

LEMMA CallFresh == OfThisWindow /\ CallStep /\ UNCHANGED loopVars => OfThisWindow'
<1> SUFFICES ASSUME OfThisWindow, CallStep, UNCHANGED loopVars
             PROVE  OfThisWindow'
  OBVIOUS
<1>1. UNCHANGED isr /\ irqFlags' = irqFlags
  BY DEF CallStep, SendStep, ReceiveStep, SendStandby, SendPtr, SendFifo,
         SendMapping, SendHandler, SendTx, ReceiveStandby, ReceiveMapping,
         ReceiveHandler, ReceiveRx, Standby, Transfer, SetHandler, Goto,
         WriteOpMode, WriteFifoPtr, WriteFifo, WriteMapping
<1> QED
  BY <1>1 DEF OfThisWindow

\* The interrupt thread only passes on what the radio has flagged.
LEMMA InterruptFresh == OfThisWindow /\ Interrupt => OfThisWindow'
<1> SUFFICES ASSUME OfThisWindow, Interrupt PROVE OfThisWindow'
  OBVIOUS
<1> USE DEF Isr, RxSteps, RxBusy, OfThisWindow
<1>1. CASE IsrWake /\ UNCHANGED loopVars
  BY <1>1 DEF IsrWake
<1>2. CASE (RxFlags \/ TxFlags) /\ UNCHANGED loopVars
  BY <1>2 DEF RxFlags, TxFlags, IsrTest
<1>3. CASE (RxAddr \/ RxFifo) /\ UNCHANGED loopVars
  BY <1>3 DEF RxAddr, WriteFifoPtr, RxFifo, ReadFifo
<1>4. CASE (RxCopyHead \/ RxCopyTail \/ RxCrc) /\ UNCHANGED loopVars
  BY <1>4 DEF RxCopyHead, RxCopyTail, RxCrc
<1>5. CASE (RxReset \/ TxReset) /\ UNCHANGED loopVars
  BY <1>5 DEF RxReset, TxReset, TxSteps, IsrResetFlags, ClearIrqFlags, ResetMask,
              IrqFlags
<1>6. CASE TxSleep /\ UNCHANGED loopVars
  BY <1>6 DEF TxSleep, WriteOpMode
<1>7. CASE rx_f
  BY <1>7 DEF rx_f, RxReturn
<1>8. CASE tx_f
  BY <1>8 DEF tx_f, TxCallback
<1> QED
  BY <1>1, <1>2, <1>3, <1>4, <1>5, <1>6, <1>7, <1>8 DEF Interrupt, IsrStep

LEMMA NextFresh ==
  TypeOK /\ Discipline /\ OfThisWindow /\ [Next]_vars => OfThisWindow'
<1> SUFFICES ASSUME TypeOK, Discipline, OfThisWindow, [Next]_vars
             PROVE  OfThisWindow'
  OBVIOUS
<1>1. CASE Main
  BY <1>1, LoopFresh, CallFresh DEF Main
<1>2. CASE Transmitted
  BY <1>2 DEF Transmitted, TxComplete, ChipTxComplete, OfThisWindow
<1>3. CASE HearFrame
  BY <1>3 DEF TypeOK, LoopTypeOK, HearFrame, OfThisWindow
<1>4. CASE UNCHANGED vars
  BY <1>4 DEF vars, OfThisWindow
<1> QED
  BY <1>1, <1>2, <1>3, <1>4, InterruptFresh DEF Next

-----------------------------------------------------------------------------
(* The one frame of a window, from the FIFO to the stored report.          *)

USE DEF OneFrame, FrameInRadio, FrameInHandler, FrameInLoop, RxWhole, Looking

\* The window opens empty, and the loop copies what rx_f has told it of.
LEMMA LoopOneFrame ==
  TypeOK /\ Discipline /\ OneFrame /\ Loop => OneFrame'
<1> SUFFICES ASSUME TypeOK, Discipline, OneFrame, Loop PROVE OneFrame'
  OBVIOUS
<1> USE DEF At, LoopStep
<1>1. CASE SendBroadcast \/ SendAck
  BY <1>1 DEF SendBroadcast, SendAck, Send
<1>2. CASE PollTx \/ BroadcastDone \/ AckDone
  BY <1>2 DEF PollTx, BroadcastDone, AckDone, TxDone
<1>3. CASE StartReceive
  BY <1>3 DEF StartReceive, LoRa_receive, RxBusy, RxSteps
<1>4. CASE PollRx \/ EndWait
  BY <1>4 DEF PollRx, EndWait
<1>5. CASE CheckReceived \/ CheckCrc \/ InsertReport
  BY <1>5 DEF CheckReceived, CheckCrc, InsertReport
<1>6. CASE CopyHead \/ CopyTail
  BY <1>6 DEF CopyHead, CopyTail, TypeOK, LoopTypeOK
<1>7. CASE CheckStartMark
  BY <1>7 DEF CheckStartMark
<1>8. CASE CheckSum
  BY <1>8 DEF CheckSum, SumsToZero
<1> QED
  BY <1>1, <1>2, <1>3, <1>4, <1>5, <1>6, <1>7, <1>8 DEF Loop

\* A call leaves the frame alone: LoRa_receive begins before there is one, and
\* LoRa_send after the window.
LEMMA CallOneFrame ==
  Discipline /\ OneFrame /\ CallStep /\ UNCHANGED loopVars => OneFrame'
<1> SUFFICES ASSUME Discipline, OneFrame, CallStep, UNCHANGED loopVars
             PROVE  OneFrame'
  OBVIOUS
<1> USE DEF Transfer, Goto
<1>1. CASE SendStep
  BY <1>1 DEF SendStep, SendStandby, SendPtr, SendFifo, SendMapping, SendHandler,
              SendTx, Standby, SetHandler
<1>2. CASE ReceiveStandby
  BY <1>2 DEF ReceiveStandby, Standby, WriteOpMode
<1>3. CASE ReceiveMapping
  BY <1>3 DEF ReceiveMapping, WriteMapping
<1>4. CASE ReceiveHandler
  BY <1>4 DEF ReceiveHandler, SetHandler
<1>5. CASE ReceiveRx
  BY <1>5 DEF ReceiveRx, WriteOpMode
<1> QED
  BY <1>1, <1>2, <1>3, <1>4, <1>5 DEF CallStep, ReceiveStep

\* The handler reads the frame where the radio put it, or, if txDoneISRf has put
\* the radio to sleep meanwhile, the blank FIFO.
LEMMA InterruptOneFrame ==
  TypeOK /\ Discipline /\ OneFrame /\ Interrupt => OneFrame'
<1> SUFFICES ASSUME TypeOK, Discipline, OneFrame, Interrupt PROVE OneFrame'
  OBVIOUS
<1> USE DEF Isr, RxSteps, RxBusy
<1>1. CASE IsrWake /\ UNCHANGED loopVars
  BY <1>1 DEF IsrWake
<1>2. CASE (RxFlags \/ TxFlags) /\ UNCHANGED loopVars
  BY <1>2 DEF RxFlags, TxFlags, IsrTest
<1>3. CASE RxAddr /\ UNCHANGED loopVars
  BY <1>3 DEF RxAddr, WriteFifoPtr
<1>4. CASE RxFifo /\ UNCHANGED loopVars
  BY <1>4 DEF RxFifo, ReadFifo, FifoData
<1>5. CASE (RxCopyHead \/ RxCopyTail) /\ UNCHANGED loopVars
  BY <1>5 DEF RxCopyHead, RxCopyTail, TypeOK, DriverTypeOK
<1>6. CASE RxCrc /\ UNCHANGED loopVars
  BY <1>6 DEF RxCrc
<1>7. CASE (RxReset \/ TxReset) /\ UNCHANGED loopVars
  BY <1>7 DEF RxReset, TxReset, TxSteps, IsrResetFlags, ClearIrqFlags, ResetMask,
              IrqFlags
<1>8. CASE TxSleep /\ UNCHANGED loopVars
  BY <1>8, FramesAssumption, FifoCellsAssumption
  DEF TxSleep, WriteOpMode, Cells, RX_BASE_ADDR, Heard
<1>9. CASE rx_f
  BY <1>9 DEF rx_f, RxReturn
<1>10. CASE tx_f
  BY <1>10 DEF tx_f, TxCallback
<1> QED
  BY <1>1, <1>2, <1>3, <1>4, <1>5, <1>6, <1>7, <1>8, <1>9, <1>10
  DEF Interrupt, IsrStep

\* The first frame of a window goes to the start of the FIFO.
LEMMA HearOneFrame ==
  TypeOK /\ Discipline /\ OfThisWindow /\ OneFrame /\ HearFrame => OneFrame'
<1> SUFFICES ASSUME TypeOK, Discipline, OfThisWindow, OneFrame, HearFrame,
                    pc' \in {"rxwait", "rxcheck"} \cup Looking, heard' <= 1
             PROVE  OneFrame'
  OBVIOUS
<1>1. heard = 0 /\ heard' = 1
  BY DEF HearFrame, TypeOK, LoopTypeOK
<1>2. pc \in {"rxwait", "rxcheck"} /\ ~lora_rx_done /\ isr \notin RxBusy
  BY <1>1 DEF OfThisWindow, HearFrame
<1>3. PICK f \in Heard : Hear(f)
  BY DEF HearFrame
<1>4. rxCurrent' = RX_BASE_ADDR /\ fifo'[RX_BASE_ADDR] = f
  BY <1>1, <1>2, <1>3, FifoCellsAssumption
  DEF Hear, ChipHear, HearFrame, TypeOK, ChipTypeOK, Cells, RX_BASE_ADDR
<1>5. f \in Bad => "CRCERR" \in irqFlags'
  BY <1>3 DEF Hear, ChipHear
<1> QED
  BY <1>1, <1>2, <1>3, <1>4, <1>5 DEF Hear, HearFrame, RxBusy, RxSteps

LEMMA NextOneFrame ==
  TypeOK /\ Discipline /\ OfThisWindow /\ OneFrame /\ [Next]_vars => OneFrame'
<1> SUFFICES ASSUME TypeOK, Discipline, OfThisWindow, OneFrame, [Next]_vars
             PROVE  OneFrame'
  OBVIOUS
<1>1. CASE Main
  BY <1>1, LoopOneFrame, CallOneFrame DEF Main
<1>2. CASE Transmitted
  BY <1>2 DEF Transmitted, TxComplete, ChipTxComplete
<1>3. CASE UNCHANGED vars
  BY <1>3 DEF vars
<1> QED
  BY <1>1, <1>2, <1>3, InterruptOneFrame, HearOneFrame DEF Next

-----------------------------------------------------------------------------

LEMMA InitInv == Init => IInv
<1>1. Init => OfThisWindow /\ OneFrame
  BY DEF Init, OfThisWindow
<1> QED
  BY <1>1, InitType, InitDiscipline DEF IInv

LEMMA NextInv == IInv /\ [Next]_vars => IInv'
  BY NextType, NextDiscipline, NextFresh, NextOneFrame DEF IInv

\* The invariant of the two threads and of their frame holds in every reachable
\* state.
THEOREM Invariance == Spec => []IInv
  BY InitInv, NextInv, PTL DEF Spec

-----------------------------------------------------------------------------
(* What the radio loop relies on.                                          *)

\* No interleaving makes the loop believe that a frame has left which is still
\* being sent.
THEOREM TxDoneIsAlwaysGenuine == Spec => []TxDoneIsGenuine
<1>1. IInv => TxDoneIsGenuine
  BY DEF IInv, TypeOK, DriverTypeOK, TxDoneIsGenuine
<1> QED
  BY <1>1, Invariance, PTL

\* The transmitter, the antenna switch, the DIO mapping and the interrupt
\* handler always agree.
THEOREM RadioIsAlwaysWired == Spec => []RadioIsWired
<1>1. IInv => RadioIsWired
  BY DEF IInv
<1> QED
  BY <1>1, Invariance, PTL

\* A receive window never starts with the remains of an earlier frame.
THEOREM WindowAlwaysStartsEmpty == Spec => []WindowStartsEmpty
<1>1. IInv => WindowStartsEmpty
  BY DEF IInv
<1> QED
  BY <1>1, Invariance, PTL

\* A listening radio never gets stuck with RxDone up and nobody to see it.
THEOREM RadioIsNeverDeaf == Spec => []NeverDeaf
<1>1. IInv => NeverDeaf
  BY DEF IInv
<1> QED
  BY <1>1, Invariance, PTL

\* Nothing is stored from a window in which the radio heard nothing.
THEOREM ReportIsAlwaysFresh == Spec => []FreshReport
<1>1. IInv => FreshReport
  BY DEF IInv, OfThisWindow, FreshReport
<1> QED
  BY <1>1, Invariance, PTL

LEMMA GenuineParts == IInv => GenuineReport /\ HonestVerdict
<1> SUFFICES ASSUME IInv, pc = "insert", heard <= 1
             PROVE  /\ report.head = report.tail /\ report.head \in Good
                    /\ report.head \in Reserved => event = "event_1"
  BY DEF GenuineReport, HonestVerdict
<1>1. /\ report.head = report.tail
      /\ report.head \notin Bad /\ report.head \in Reports
      /\ report.head \in Good \cap Reserved => event = "event_1"
  BY DEF IInv
<1>2. report.head \in Frames
  BY DEF IInv, TypeOK, LoopTypeOK
<1> QED
  BY <1>1, <1>2, ReportsAssumption DEF Frames, Heard

\* What InsertReport stores was received whole and undamaged, if no second frame
\* came in its window.
THEOREM ReportIsAlwaysGenuine == Spec => []GenuineReport
  BY GenuineParts, Invariance, PTL

\* CheckSum calls no undamaged report a MOBILE_REPORT_CRC_ERROR, if no second
\* frame came in its window.
THEOREM VerdictIsAlwaysHonest == Spec => []HonestVerdict
  BY GenuineParts, Invariance, PTL

-----------------------------------------------------------------------------
(* The promises under a prompt interrupt thread.                           *)

USE DEF SleepsInTime, LoadsUndisturbed, PromptListens, PromptOnAir,
        ListensWhileWaiting, OnAirIsRequested

PromptPart ==
  SleepsInTime /\ LoadsUndisturbed /\ ListensWhileWaiting /\ OnAirIsRequested

\* The loop moves between two handlers only.
LEMMA PromptLoop ==
  Discipline /\ PromptPart /\ isr = "idle" /\ ~edge /\ Loop => PromptPart'
<1> SUFFICES ASSUME Discipline, PromptPart, isr = "idle", ~edge, Loop
             PROVE  PromptPart'
  OBVIOUS
<1> USE DEF PromptPart, At, LoopStep
<1>1. CASE SendBroadcast \/ SendAck
  BY <1>1 DEF SendBroadcast, SendAck, Send, LoRa_send, Goto
<1>2. CASE PollTx \/ BroadcastDone \/ AckDone
  BY <1>2 DEF PollTx, BroadcastDone, AckDone, TxDone
<1>3. CASE StartReceive
  BY <1>3 DEF StartReceive, LoRa_receive, Goto
<1>4. CASE PollRx \/ EndWait
  BY <1>4 DEF PollRx, EndWait
<1>5. CASE CheckReceived \/ CheckCrc \/ InsertReport
  BY <1>5 DEF CheckReceived, CheckCrc, InsertReport
<1>6. CASE CopyHead \/ CopyTail
  BY <1>6 DEF CopyHead, CopyTail
<1>7. CASE CheckStartMark \/ CheckSum
  BY <1>7 DEF CheckStartMark, CheckSum
<1> QED
  BY <1>1, <1>2, <1>3, <1>4, <1>5, <1>6, <1>7 DEF Loop

\* LoRa_send finds the pointer where it has put it.
LEMMA PromptCall ==
  ASSUME TypeOK, Discipline, PromptPart, isr = "idle", ~edge, CallStep,
         UNCHANGED loopVars
  PROVE  PromptPart'
<1> USE DEF PromptPart, Transfer, Goto, LatchEdge, Dio0Rises, Dio0
<1>1. CASE SendStandby
  BY <1>1 DEF SendStandby, Standby, WriteOpMode
<1>2. CASE SendPtr
  BY <1>2 DEF SendPtr, WriteFifoPtr
<1>3. CASE SendFifo
  BY <1>3 DEF SendFifo, WriteFifo, TypeOK, ChipTypeOK
<1>4. CASE SendMapping
  BY <1>4 DEF SendMapping, WriteMapping
<1>5. CASE SendHandler \/ ReceiveHandler
  BY <1>5 DEF SendHandler, ReceiveHandler, SetHandler
<1>6. CASE SendTx
  BY <1>6 DEF SendTx, WriteOpMode
<1>7. CASE ReceiveStandby
  BY <1>7 DEF ReceiveStandby, Standby, WriteOpMode
<1>8. CASE ReceiveMapping
  BY <1>8 DEF ReceiveMapping, WriteMapping
<1>9. CASE ReceiveRx
  BY <1>9 DEF ReceiveRx, WriteOpMode
<1> QED
  BY <1>1, <1>2, <1>3, <1>4, <1>5, <1>6, <1>7, <1>8, <1>9
  DEF CallStep, SendStep, ReceiveStep

\* No handler starts while a frame is loaded or on the air, and txDoneISRf begins
\* only where the loop waits for it.
LEMMA PromptInterrupt == Discipline /\ PromptPart /\ Interrupt => PromptPart'
<1> SUFFICES ASSUME Discipline, PromptPart, Interrupt PROVE PromptPart'
  OBVIOUS
<1> USE DEF PromptPart, Isr, RxSteps, TxSteps
<1>1. CASE IsrWake /\ UNCHANGED loopVars
  BY <1>1 DEF IsrWake
<1>2. CASE (RxFlags \/ TxFlags) /\ UNCHANGED loopVars
  BY <1>2 DEF RxFlags, TxFlags, IsrTest
<1>3. CASE (RxAddr \/ RxFifo) /\ UNCHANGED loopVars
  BY <1>3 DEF RxAddr, WriteFifoPtr, RxFifo, ReadFifo
<1>4. CASE (RxCopyHead \/ RxCopyTail \/ RxCrc) /\ UNCHANGED loopVars
  BY <1>4 DEF RxCopyHead, RxCopyTail, RxCrc
<1>5. CASE (RxReset \/ TxReset) /\ UNCHANGED loopVars
  BY <1>5 DEF RxReset, TxReset, IsrResetFlags, ClearIrqFlags
<1>6. CASE TxSleep /\ UNCHANGED loopVars
  BY <1>6 DEF TxSleep, WriteOpMode
<1>7. CASE rx_f
  BY <1>7 DEF rx_f, RxReturn
<1>8. CASE tx_f
  BY <1>8 DEF tx_f, TxCallback
<1> QED
  BY <1>1, <1>2, <1>3, <1>4, <1>5, <1>6, <1>7, <1>8 DEF Interrupt, IsrStep

LEMMA PromptRadio ==
  Discipline /\ PromptPart /\ (Transmitted \/ HearFrame) => PromptPart'
<1> SUFFICES ASSUME Discipline, PromptPart, Transmitted \/ HearFrame
             PROVE  PromptPart'
  OBVIOUS
<1> USE DEF PromptPart
<1>1. CASE Transmitted
  BY <1>1 DEF Transmitted, TxComplete, ChipTxComplete
<1>2. CASE HearFrame
  BY <1>2 DEF HearFrame, Hear, ChipHear
<1> QED
  BY <1>1, <1>2

LEMMA TimedStep == [TimedNext]_timedVars => [Next]_vars /\ UNCHANGED prompt
  BY DEF TimedNext, TimedMain, timedVars, Next

LEMMA NextTimed == TimedInv /\ [TimedNext]_timedVars => TimedInv'
<1> SUFFICES ASSUME TimedInv, [TimedNext]_timedVars PROVE TimedInv'
  OBVIOUS
<1>1. IInv' /\ prompt' = prompt
  BY TimedStep, NextInv DEF TimedInv
<1>2. prompt => PromptPart'
  <2> SUFFICES ASSUME prompt PROVE PromptPart'
    OBVIOUS
  <2>1. TypeOK /\ Discipline /\ PromptPart
    BY DEF TimedInv, IInv, PromptPart
  <2>2. CASE TimedMain
    BY <2>1, <2>2, PromptLoop, PromptCall DEF TimedMain, Main
  <2>3. CASE Interrupt \/ Transmitted \/ HearFrame
    BY <2>1, <2>3, PromptInterrupt, PromptRadio
  <2>4. CASE UNCHANGED timedVars
    BY <2>1, <2>4 DEF timedVars, vars, PromptPart
  <2> QED
    BY <2>2, <2>3, <2>4 DEF TimedNext
<1> QED
  BY <1>1, <1>2 DEF TimedInv, PromptPart

\* The invariant holds with and without the timing.
THEOREM TimedInvariance == TimedSpec => []TimedInv
<1>1. TimedInit => TimedInv
  <2> SUFFICES ASSUME TimedInit PROVE TimedInv
    OBVIOUS
  <2>1. IInv
    BY InitInv DEF TimedInit
  <2>2. op = "idle" /\ opMode = "SLEEP" /\ isr = "idle" /\ pc = "top"
    BY DEF TimedInit, Init, LoRa_begin, ChipInit
  <2> QED
    BY <2>1, <2>2 DEF TimedInit, TimedInv
<1> QED
  BY <1>1, NextTimed, PTL DEF TimedSpec

\* With a prompt interrupt thread the radio listens while the loop waits.
THEOREM ListensWhenPrompt == TimedSpec => []PromptListens
<1>1. TimedInv => PromptListens
  BY DEF TimedInv
<1> QED
  BY <1>1, TimedInvariance, PTL

\* With a prompt interrupt thread the frame on the air is LoRa_send's.
THEOREM OnAirWhenPrompt == TimedSpec => []PromptOnAir
<1>1. TimedInv => PromptOnAir
  BY DEF TimedInv
<1> QED
  BY <1>1, TimedInvariance, PTL
=============================================================================
