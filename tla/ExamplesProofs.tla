--------------------------- MODULE ExamplesProofs ---------------------------
(***************************************************************************)
(* Proofs about Examples: the invariant of the four programs, and what it  *)
(* says of their end and of the frames they print.  The places come first, *)
(* one lemma for each thread and for the radio; the way of the frames to   *)
(* the print follows, one lemma for each conjunct.                         *)
(***************************************************************************)
EXTENDS Examples, LoRaProofs

USE DEF rxPointers, chipVars, driverVars, callerVars, history, programVarsButPc,
        programVars, Sender, Ending

\* The invariant without what follows from it.
InPlace ==
  /\ SenderInPlace /\ SendInOrder /\ ReceiverInPlace
  /\ FlagIsServed /\ FrameInHandler /\ EndInPlace

ProgramTypeOK ==
  /\ program \in Programs
  /\ pc \in {"start", "send", "receive", "txwait", "rxwait", "check", "print",
             "printrest", "sleep", "end", "removed", "ended"}
  /\ lora_tx_done \in BOOLEAN /\ lora_rx_done \in BOOLEAN
  /\ heard \in 0 .. MaxHeard /\ printed \in Nat
  /\ air \in [Frames -> 0 .. MaxHeard]
  /\ shown \in Seq(Heard)
  /\ alone \in BOOLEAN

\* The way of the frames, from the air to the print.
WayInv ==
  /\ AirInOrder /\ TakenInOrder /\ ShownTwiceAtMost /\ PrintedInOrder
  /\ DamageIsFlagged /\ AloneIsQuiet

Core == LoRaTypeOK /\ ProgramTypeOK /\ InPlace /\ FramesAccounted /\ WayInv

\* The frames printed are among the frames heard; the wiring is right because
\* mode, mapping and handler are set in this order; and a flag that is served
\* is not forgotten.
LEMMA CoreSuffices == (Core <=> ExamplesInv) /\ (Core' <=> ExamplesInv')
<1>1. Core => ExamplesInv
  <2> SUFFICES ASSUME Core PROVE ExamplesInv
    OBVIOUS
  <2>1. printed \in 0 .. MaxHeard
    BY MaxHeardAssumption DEF Core, ProgramTypeOK, FramesAccounted, One
  <2>2. TypeOK
    BY <2>1 DEF Core, LoRaTypeOK, ProgramTypeOK, TypeOK
  <2>3. WiredUntilEnd
    BY DEF Core, InPlace, WiredUntilEnd, RadioIsWired, SenderInPlace, SendInOrder,
           ReceiverInPlace
  <2>4. NeverDeafUntilEnd
    BY DEF Core, InPlace, NeverDeafUntilEnd, NeverDeaf, FlagIsServed
  <2> QED
    BY <2>2, <2>3, <2>4 DEF Core, InPlace, WayInv, ExamplesInv, DisciplineUntilEnd
<1>2. ExamplesInv => Core
  BY DEF ExamplesInv, DisciplineUntilEnd, TypeOK, Core, InPlace, WayInv, LoRaTypeOK,
         ProgramTypeOK
<1> QED
  BY <1>1, <1>2, PTL

LEMMA InitCore == Init => Core
<1> SUFFICES ASSUME Init PROVE Core
  OBVIOUS
<1>1. LoRaTypeOK
  BY BeginType DEF Init
<1>2. ProgramTypeOK
  <2>1. heard \in 0 .. MaxHeard /\ printed \in Nat
    BY MaxHeardAssumption DEF Init
  <2>2. /\ lora_tx_done \in BOOLEAN /\ lora_rx_done \in BOOLEAN /\ alone \in BOOLEAN
        /\ program \in Programs
    BY Zenon DEF Init
  <2>3. pc = "start" /\ shown \in Seq(Heard)
    BY DEF Init
  <2>4. air \in [Frames -> 0 .. MaxHeard]
    BY MaxHeardAssumption DEF Init
  <2> QED
    BY <2>1, <2>2, <2>3, <2>4 DEF ProgramTypeOK
<1>3. InPlace /\ FramesAccounted
  BY DEF Init, LoRa_begin, ChipInit, InPlace, SenderInPlace, SendInOrder,
         ReceiverInPlace, FlagIsServed, FrameInHandler, EndInPlace,
         FramesAccounted, One, SendSteps, RecvSteps, RxSteps, TxSteps
<1>4. WayInv
  <2>1. Blank \notin Heard
    BY FramesAssumption
  <2>2. /\ heard = 0 /\ shown = <<>> /\ ~alone /\ air = [f \in Frames |-> 0]
        /\ isr = "idle" /\ isrData = Blank /\ rxbuf.head = Blank /\ txbuf = Blank
        /\ irqFlags = {} /\ \A c \in Cells : fifo[c] = Blank
    BY DEF Init, LoRa_begin, ChipInit, ClearedBuf
  <2>3. AirInOrder
    BY <2>1, <2>2 DEF AirInOrder, Held, Frames
  <2>4. TakenInOrder /\ ShownTwiceAtMost /\ PrintedInOrder
    BY <2>2 DEF TakenInOrder, ShownTwiceAtMost, PrintedInOrder
  <2>5. DamageIsFlagged /\ AloneIsQuiet
    BY <2>1, <2>2 DEF DamageIsFlagged, AloneIsQuiet, Heard
  <2> QED
    BY <2>3, <2>4, <2>5 DEF WayInv
<1> QED
  BY <1>1, <1>2, <1>3, <1>4 DEF Core

-----------------------------------------------------------------------------
(* Types.                                                                  *)

LEMMA NextTypes == LoRaTypeOK /\ ProgramTypeOK /\ [Next]_vars =>
                   LoRaTypeOK' /\ ProgramTypeOK'
<1> SUFFICES ASSUME LoRaTypeOK, ProgramTypeOK, [Next]_vars
             PROVE  LoRaTypeOK' /\ ProgramTypeOK'
  OBVIOUS
<1> USE DEF ProgramTypeOK, At
<1>1. CASE Send
  <2>1. ChipTypeOK'
    BY <1>1 DEF Send, LoRa_send, LoRaTypeOK, ChipTypeOK
  <2>2. Broadcast \in Frames
    BY DEF Frames
  <2>3. DriverTypeOK'
    BY <1>1, <2>2 DEF Send, LoRa_send, Goto, LoRaTypeOK, DriverTypeOK, SendSteps
  <2> QED
    BY <1>1, <2>1, <2>3 DEF Send, LoRaTypeOK
<1>2. CASE Receive
  <2>1. ChipTypeOK'
    BY <1>2 DEF Receive, LoRa_receive, LoRaTypeOK, ChipTypeOK
  <2>2. DriverTypeOK'
    BY <1>2 DEF Receive, LoRa_receive, Goto, LoRaTypeOK, DriverTypeOK, RecvSteps
  <2> QED
    BY <1>2, <2>1, <2>2 DEF Receive, LoRaTypeOK
<1>3. CASE EndTxWait \/ EndRxWait \/ CheckCrc \/ PrintHead \/ PrintRest \/ Wake
  <2>1. LoRaTypeOK'
    BY <1>3, QuietType
    DEF EndTxWait, EndRxWait, CheckCrc, PrintHead, PrintRest, Wake, Quiet
  <2>2. shown' \in Seq(Heard) /\ printed' \in Nat
    BY <1>3
    DEF EndTxWait, EndRxWait, CheckCrc, PrintHead, PrintRest, Wake, Show, Quiet
  <2>3. alone' \in BOOLEAN
    BY <1>3 DEF EndTxWait, EndRxWait, CheckCrc, PrintHead, PrintRest, Wake, Quiet
  <2> QED
    BY <1>3, <2>1, <2>2, <2>3
    DEF EndTxWait, EndRxWait, CheckCrc, PrintHead, PrintRest, Wake, Quiet
<1>4. CASE lora_remove_dioISR
  BY <1>4 DEF lora_remove_dioISR, LoRaTypeOK, ChipTypeOK, DriverTypeOK
<1>5. CASE LoRa_stop_receive
  <2>1. ChipTypeOK'
    BY <1>5, ChipStepType DEF LoRa_stop_receive, LoRaTypeOK, OpModes
  <2>2. DriverTypeOK'
    BY <1>5 DEF LoRa_stop_receive, LoRaTypeOK, DriverTypeOK
  <2> QED
    BY <1>5, <2>1, <2>2 DEF LoRa_stop_receive, LoRaTypeOK
<1>6. CASE CallStep /\ UNCHANGED programVars
  BY <1>6, CallType
<1>7. CASE Interrupt
  BY <1>7, IsrType DEF Interrupt, rx_f, tx_f
<1>8. CASE Transmitted
  BY <1>8, RadioType DEF Transmitted
<1>10. CASE HearFrame
  <2>1. LoRaTypeOK'
    BY <1>10, RadioType DEF HearFrame
  <2>2. heard' \in 0 .. MaxHeard /\ heard + 1 \in 0 .. MaxHeard
    BY <1>10, MaxHeardAssumption DEF HearFrame
  <2>3. air' \in [Frames -> 0 .. MaxHeard]
    BY <1>10, <2>2 DEF HearFrame
  <2>4. alone' \in BOOLEAN
    BY <1>10, Zenon DEF HearFrame
  <2> QED
    BY <1>10, <2>1, <2>2, <2>3, <2>4 DEF HearFrame
<1>9. CASE UNCHANGED vars
  BY <1>9, QuietType DEF vars
<1> QED
  BY <1>1, <1>2, <1>3, <1>4, <1>5, <1>6, <1>7, <1>8, <1>9, <1>10
  DEF Next, Main

-----------------------------------------------------------------------------
(* The places of the threads, of the radio and of the frame.               *)

USE DEF InPlace, SenderInPlace, SendInOrder, ReceiverInPlace, FlagIsServed,
        FrameInHandler, EndInPlace, RxWhole, SendSteps, RecvSteps, RxSteps, TxSteps

\* The programs: a sender's flag is down while its frame is set up, and
\* LoRa_end comes only after the frame is out.
LEMMA ProgramInPlace ==
  ASSUME InPlace,
         \/ Send \/ Receive \/ EndTxWait \/ EndRxWait \/ CheckCrc \/ PrintHead
         \/ PrintRest \/ Wake \/ lora_remove_dioISR \/ LoRa_stop_receive
  PROVE  InPlace'
<1> USE DEF At, Goto, Quiet
<1>1. CASE Send
  BY <1>1 DEF Send, LoRa_send
<1>2. CASE Receive
  BY <1>2 DEF Receive, LoRa_receive
<1>3. CASE EndTxWait
  BY <1>3 DEF EndTxWait
<1>4. CASE EndRxWait
  BY <1>4 DEF EndRxWait
<1>5. CASE CheckCrc \/ PrintHead \/ PrintRest
  BY <1>5 DEF CheckCrc, PrintHead, PrintRest
<1>6. CASE Wake
  BY <1>6 DEF Wake
<1>7. CASE lora_remove_dioISR
  BY <1>7 DEF lora_remove_dioISR
<1>8. CASE LoRa_stop_receive
  BY <1>8 DEF LoRa_stop_receive, WriteOpMode
<1> QED
  BY <1>1, <1>2, <1>3, <1>4, <1>5, <1>6, <1>7, <1>8

\* The calls: the transmitter is started last, and the receiver with its handler
\* in place; no edge comes of a transfer, for the flags are down or seen.
LEMMA CallInPlace ==
  ASSUME LoRaTypeOK, InPlace, CallStep, UNCHANGED programVars
  PROVE  InPlace'
<1> USE DEF Transfer, Goto, LatchEdge, Dio0Rises, Dio0
<1>1. CASE SendStandby
  BY <1>1 DEF SendStandby, Standby, WriteOpMode
<1>2. CASE SendPtr
  BY <1>2 DEF SendPtr, WriteFifoPtr
<1>3. CASE SendFifo
  BY <1>3 DEF SendFifo, WriteFifo, LoRaTypeOK, ChipTypeOK
<1>4. CASE SendMapping
  BY <1>4 DEF SendMapping, WriteMapping
<1>5. CASE SendHandler \/ ReceiveHandler
  BY <1>5 DEF SendHandler, ReceiveHandler, SetHandler
<1>6. CASE SendTx
  BY <1>6 DEF SendTx, WriteOpMode
<1>7. CASE ReceiveStandby
  BY <1>7 DEF ReceiveStandby, Standby, WriteOpMode
<1>8. CASE ReceiveMapping
  BY <1>8 DEF ReceiveMapping, WriteMapping
<1>9. CASE ReceiveRx
  BY <1>9 DEF ReceiveRx, WriteOpMode
<1> QED
  BY <1>1, <1>2, <1>3, <1>4, <1>5, <1>6, <1>7, <1>8, <1>9
  DEF CallStep, SendStep, ReceiveStep

\* The handler: each step finds the frame where the one before has left it.
LEMMA InterruptInPlace ==
  ASSUME LoRaTypeOK, InPlace, Interrupt PROVE InPlace'
<1> USE DEF Isr, LatchEdge, Dio0Rises, Dio0
<1>1. CASE IsrWake /\ UNCHANGED programVars
  BY <1>1 DEF IsrWake
<1>2. CASE (RxFlags \/ TxFlags) /\ UNCHANGED programVars
  BY <1>2 DEF RxFlags, TxFlags, IsrTest
<1>3. CASE RxAddr /\ UNCHANGED programVars
  BY <1>3 DEF RxAddr, WriteFifoPtr
<1>4. CASE RxFifo /\ UNCHANGED programVars
  BY <1>4 DEF RxFifo, ReadFifo, FifoData
<1>5. CASE (RxCopyHead \/ RxCopyTail) /\ UNCHANGED programVars
  BY <1>5 DEF RxCopyHead, RxCopyTail, LoRaTypeOK, DriverTypeOK
<1>6. CASE RxCrc /\ UNCHANGED programVars
  BY <1>6 DEF RxCrc
<1>7. CASE RxReset /\ UNCHANGED programVars
  <2>1. irqFlags' = {}
    BY <1>7 DEF RxReset, IsrResetFlags, ClearIrqFlags, ResetMask, LoRaTypeOK, ChipTypeOK
  <2> QED
    BY <1>7, <2>1 DEF RxReset, IsrResetFlags, ClearIrqFlags
<1>8. CASE TxReset /\ UNCHANGED programVars
  <2>1. irqFlags' = {}
    BY <1>8 DEF TxReset, IsrResetFlags, ClearIrqFlags, ResetMask, LoRaTypeOK, ChipTypeOK
  <2> QED
    BY <1>8, <2>1 DEF TxReset, IsrResetFlags, ClearIrqFlags
<1>9. CASE TxSleep /\ UNCHANGED programVars
  BY <1>9 DEF TxSleep, WriteOpMode
<1>10. CASE rx_f
  BY <1>10 DEF rx_f, RxReturn
<1>11. CASE tx_f
  BY <1>11 DEF tx_f, TxCallback
<1> QED
  BY <1>1, <1>2, <1>3, <1>4, <1>5, <1>6, <1>7, <1>8, <1>9, <1>10, <1>11
  DEF Interrupt, IsrStep

\* The radio: a transmission ends outside LoRa_send, and a frame comes with an
\* edge or finds the flag of another one up.
LEMMA RadioInPlace ==
  ASSUME LoRaTypeOK, InPlace, Transmitted \/ HearFrame PROVE InPlace'
<1> USE DEF LatchEdge, Dio0Rises, Dio0
<1>1. CASE Transmitted
  <2>1. opMode = "TX" /\ opMode' = "STDBY" /\ irqFlags' = irqFlags \cup {"TXDONE"}
    BY <1>1 DEF Transmitted, TxComplete, ChipTxComplete
  <2>2. Sender /\ op = "idle" /\ pc # "start"
    BY <2>1 DEF LoRaTypeOK, DriverTypeOK
  <2>3. UNCHANGED <<callerVars, isr, isrData, rxbuf, dioMapping, fifo, fifoPtr,
                    rxPointers, programVars>>
    BY <1>1 DEF Transmitted, TxComplete, ChipTxComplete
  <2> QED
    BY <2>1, <2>2, <2>3
<1>2. CASE HearFrame
  <2>1. PICK f \in Heard : Hear(f)
    BY <1>2 DEF HearFrame
  <2>2. /\ opMode = "RXCONT" /\ "RXDONE" \in irqFlags'
        /\ \A flag : flag \in irqFlags' \ irqFlags => flag \in {"RXDONE", "CRCERR"}
        /\ UNCHANGED <<opMode, dioMapping, fifoPtr>>
    BY <2>1 DEF Hear, ChipHear
  <2>3. /\ \A c \in Cells : fifo[c] \in Heard => fifo'[c] \in Heard
        /\ fifo'[rxCurrent'] \in Heard
    BY <2>1 DEF Hear, ChipHear, LoRaTypeOK, ChipTypeOK
  <2>4. "RXDONE" \in irqFlags \/ handler = "none" \/ edge'
    BY <2>1, <2>2 DEF Hear, LoRaTypeOK, DriverTypeOK
  <2>5. edge => edge'
    BY <2>1 DEF Hear
  <2> QED
    BY <1>2, <2>1, <2>2, <2>3, <2>4, <2>5
    DEF HearFrame, Hear, LoRaTypeOK, ChipTypeOK
<1> QED
  BY <1>1, <1>2

LEMMA NextInPlace == LoRaTypeOK /\ InPlace /\ [Next]_vars => InPlace'
<1> SUFFICES ASSUME LoRaTypeOK, InPlace, [Next]_vars PROVE InPlace'
  OBVIOUS
<1>1. CASE UNCHANGED vars
  BY <1>1 DEF vars
<1> QED
  BY <1>1, ProgramInPlace, CallInPlace, InterruptInPlace, RadioInPlace
  DEF Next, Main

-----------------------------------------------------------------------------
(* The count of the frames.                                                *)

USE DEF FramesAccounted, One, ProgramTypeOK

\* A frame moves on from the flag to the callback, from there to the wait, and
\* through the check and the print into the count of the printed.
LEMMA NextAccounted ==
  LoRaTypeOK /\ ProgramTypeOK /\ InPlace /\ FramesAccounted /\ [Next]_vars =>
    FramesAccounted'
<1> SUFFICES ASSUME LoRaTypeOK, ProgramTypeOK, InPlace, FramesAccounted, [Next]_vars
             PROVE  FramesAccounted'
  OBVIOUS
<1> USE DEF At
<1>1. CASE Send \/ Receive
  BY <1>1 DEF Send, Receive, LoRa_send, LoRa_receive
<1>2. CASE EndTxWait
  BY <1>2 DEF EndTxWait, Quiet
<1>3. CASE EndRxWait
  BY <1>3 DEF EndRxWait, Quiet
<1>4. CASE CheckCrc
  BY <1>4 DEF CheckCrc, Show, Quiet
<1>5. CASE PrintHead \/ PrintRest \/ Wake
  BY <1>5 DEF PrintHead, PrintRest, Wake, Show, Quiet
<1>6. CASE lora_remove_dioISR \/ LoRa_stop_receive
  BY <1>6 DEF lora_remove_dioISR, LoRa_stop_receive, WriteOpMode
<1>7. CASE CallStep /\ UNCHANGED programVars
  <2>1. isr' = isr /\ irqFlags' = irqFlags
    BY <1>7
    DEF CallStep, SendStep, ReceiveStep, SendStandby, SendPtr, SendFifo,
        SendMapping, SendHandler, SendTx, ReceiveStandby, ReceiveMapping,
        ReceiveHandler, ReceiveRx, Standby, Transfer, SetHandler,
        WriteOpMode, WriteFifoPtr, WriteFifo, WriteMapping
  <2> QED
    BY <1>7, <2>1
<1>8. CASE rx_f
  BY <1>8 DEF rx_f, RxReturn, Isr
<1>9. CASE tx_f
  BY <1>9 DEF tx_f, TxCallback, Isr
<1>10. CASE (RxReset \/ TxReset) /\ UNCHANGED programVars
  <2>1. "RXDONE" \notin irqFlags'
    BY <1>10 DEF RxReset, TxReset, IsrResetFlags, ClearIrqFlags, ResetMask, IrqFlags
  <2>2. /\ isr \in {"rx_reset", "tx_reset"} /\ isr' # isr
        /\ isr' = "rx_cb" => "RXDONE" \in irqFlags
    BY <1>10 DEF RxReset, TxReset, IsrResetFlags, Isr
  <2> QED
    BY <1>10, <2>1, <2>2
<1>11. CASE IsrStep /\ ~RxReset /\ ~TxReset /\ UNCHANGED programVars
  <2>1. isr' # "rx_cb" /\ irqFlags' = irqFlags
    BY <1>11
    DEF IsrStep, IsrWake, RxFlags, TxFlags, IsrTest, RxAddr, RxFifo, RxCopyHead,
        RxCopyTail, RxCrc, TxSleep, Isr, WriteFifoPtr, ReadFifo, WriteOpMode
  <2> QED
    BY <1>11, <2>1
<1>12. CASE Transmitted
  BY <1>12 DEF Transmitted, TxComplete, ChipTxComplete
<1>13. CASE HearFrame
  BY <1>13 DEF HearFrame, Hear
<1>14. CASE UNCHANGED vars
  BY <1>14 DEF vars
<1> QED
  BY <1>1, <1>2, <1>3, <1>4, <1>5, <1>6, <1>7, <1>8, <1>9, <1>10, <1>11, <1>12,
     <1>13, <1>14
  DEF Next, Main, Interrupt

-----------------------------------------------------------------------------
(* The way of the frames.                                                  *)

Types == LoRaTypeOK /\ ProgramTypeOK

\* A transfer of a call touches nothing that is the handler's, and the FIFO only
\* for a sender.
LEMMA CallKeeps ==
  ASSUME Types, InPlace, CallStep
  PROVE  /\ UNCHANGED <<isr, isrData, rxbuf, rxCRC, irqFlags, rxCurrent, txbuf>>
         /\ \/ UNCHANGED <<fifo, fifoPtr>>
            \/ Sender /\ \A c \in Cells : fifo'[c] \in {fifo[c], txbuf}
<1> USE DEF Transfer, Goto, Types
<1>1. CASE SendStandby \/ SendTx \/ ReceiveStandby \/ ReceiveRx
  BY <1>1
  DEF SendStandby, SendTx, ReceiveStandby, ReceiveRx, Standby, WriteOpMode
<1>2. CASE SendPtr
  BY <1>2 DEF SendPtr, WriteFifoPtr
<1>3. CASE SendFifo
  BY <1>3 DEF SendFifo, WriteFifo, LoRaTypeOK, ChipTypeOK
<1>4. CASE SendMapping \/ ReceiveMapping
  BY <1>4 DEF SendMapping, ReceiveMapping, WriteMapping
<1>5. CASE SendHandler \/ ReceiveHandler
  BY <1>5 DEF SendHandler, ReceiveHandler, SetHandler
<1> QED
  BY <1>1, <1>2, <1>3, <1>4, <1>5 DEF CallStep, SendStep, ReceiveStep

\* What a step may do to the frames on their way.
FramesStay ==
  /\ UNCHANGED <<isrData, rxbuf, air, heard, shown>>
  /\ txbuf' \in {txbuf, Broadcast}
  /\ \A c \in Cells : fifo'[c] \in {fifo[c], txbuf, Blank}

Copies == RxFifo \/ RxCopyHead \/ RxCopyTail

Shows == pc \in {"check", "print"} /\ pc' \in {"start", "printrest"} /\ Show /\ Quiet

LEMMA FramesMove ==
  ASSUME Types, InPlace, [Next]_vars
  PROVE  FramesStay \/ (Copies /\ UNCHANGED programVars) \/ Shows \/ HearFrame
<1> USE DEF FramesStay
<1>1. CASE UNCHANGED vars
  BY <1>1 DEF vars
<1>2. CASE Send \/ Receive
  BY <1>2 DEF Send, Receive, LoRa_send, LoRa_receive
<1>3. CASE EndTxWait \/ EndRxWait \/ Wake \/ PrintRest
  BY <1>3 DEF EndTxWait, EndRxWait, Wake, PrintRest, Quiet
<1>4. CASE CheckCrc \/ PrintHead
  BY <1>4 DEF CheckCrc, PrintHead, Shows, At, Quiet
<1>5. CASE lora_remove_dioISR
  BY <1>5 DEF lora_remove_dioISR
<1>6. CASE LoRa_stop_receive
  BY <1>6 DEF LoRa_stop_receive, WriteOpMode
<1>7. CASE CallStep /\ UNCHANGED programVars
  BY <1>7, CallKeeps
<1>8. CASE rx_f \/ tx_f
  BY <1>8 DEF rx_f, tx_f, RxReturn, TxCallback
<1>9. CASE IsrStep /\ ~Copies /\ UNCHANGED programVars
  <2>1. CASE IsrWake \/ RxFlags \/ TxFlags \/ RxCrc
    BY <1>9, <2>1 DEF IsrWake, RxFlags, TxFlags, RxCrc, IsrTest
  <2>2. CASE RxAddr \/ RxReset \/ TxReset \/ TxSleep
    BY <1>9, <2>2
    DEF RxAddr, RxReset, TxReset, TxSleep, IsrResetFlags, ClearIrqFlags,
        WriteFifoPtr, WriteOpMode
  <2> QED
    BY <1>9, <2>1, <2>2 DEF IsrStep, Copies
<1>10. CASE Transmitted
  BY <1>10 DEF Transmitted, TxComplete, ChipTxComplete
<1> QED
  BY <1>1, <1>2, <1>3, <1>4, <1>5, <1>6, <1>7, <1>8, <1>9, <1>10
  DEF Next, Main, Interrupt, Copies

\* A frame that comes is none of those that are held.
LEMMA HearsNew ==
  ASSUME Types, AirInOrder, HearFrame
  PROVE  \E f \in Heard :
           /\ ~Held(f) /\ air[f] = 0 /\ heard' = heard + 1
           /\ air' = [air EXCEPT ![f] = heard + 1]
           /\ fifo' = [fifo EXCEPT ![rxNext] = f] /\ rxCurrent' = rxNext
           /\ "RXDONE" \in irqFlags' /\ irqFlags \subseteq irqFlags'
           /\ f \in Bad => "CRCERR" \in irqFlags'
           /\ UNCHANGED <<isr, isrData, rxbuf, rxCRC, fifoPtr, txbuf, pc, shown,
                          lora_rx_done, program>>
           /\ ~alone'
<1>1. PICK f \in Heard :
        air[f] = 0 /\ air' = [air EXCEPT ![f] = heard + 1] /\ Hear(f)
  BY DEF HearFrame
<1>2. ~Held(f)
  BY <1>1 DEF AirInOrder
<1> QED
  BY <1>1, <1>2 DEF HearFrame, Hear, ChipHear

LEMMA NextAir ==
  ASSUME Types, InPlace, AirInOrder, [Next]_vars PROVE AirInOrder'
<1>1. CASE FramesStay \/ (Copies /\ UNCHANGED programVars) \/ Shows
  <2>1. air' = air /\ heard' = heard
    BY <1>1 DEF FramesStay, Shows, Quiet
  <2>2. ASSUME NEW f \in Heard, Held(f)' PROVE Held(f)
    <3> USE <2>2, FramesAssumption DEF Held
    <3>1. CASE FramesStay
      BY <3>1 DEF FramesStay
    <3>2. CASE Copies /\ UNCHANGED programVars
      BY <3>2
      DEF Copies, RxFifo, RxCopyHead, RxCopyTail, ReadFifo, FifoData, ClearedBuf,
          Types, LoRaTypeOK, ChipTypeOK, DriverTypeOK
    <3>3. CASE Shows
      BY <3>3 DEF Shows, Show, Quiet, Types
    <3> QED
      BY <1>1, <3>1, <3>2, <3>3
  <2> QED
    BY <2>1, <2>2 DEF AirInOrder
<1>2. CASE HearFrame
  <2>1. PICK f \in Heard :
          /\ ~Held(f) /\ air[f] = 0 /\ heard' = heard + 1
          /\ air' = [air EXCEPT ![f] = heard + 1]
          /\ fifo' = [fifo EXCEPT ![rxNext] = f]
          /\ UNCHANGED <<isrData, rxbuf, txbuf, shown>>
    BY <1>2, HearsNew
  <2>2. \A g \in Frames : air'[g] = IF g = f THEN heard + 1 ELSE air[g]
    BY <2>1 DEF Types, Frames
  <2>3. \A g \in Heard : Held(g)' => Held(g) \/ g = f
    BY <2>1 DEF Held, Types, LoRaTypeOK, ChipTypeOK
  <2> QED
    BY <2>1, <2>2, <2>3 DEF AirInOrder, Types, Frames
<1> QED
  BY <1>1, <1>2, FramesMove

\* The handler takes the newest frame, and nothing has been shown that is newer
\* than what it took last.
LEMMA NextTaken ==
  ASSUME Types, InPlace, AirInOrder, TakenInOrder, [Next]_vars
  PROVE  TakenInOrder'
<1> USE DEF TakenInOrder, Taken, Types
<1>1. CASE Send \/ Receive
  BY <1>1 DEF Send, Receive, At, LoRa_send, LoRa_receive
<1>2. CASE EndTxWait \/ EndRxWait \/ Wake \/ PrintRest
  BY <1>2 DEF EndTxWait, EndRxWait, Wake, PrintRest, At, Quiet
<1>3. CASE Shows
  <2>1. UNCHANGED <<isr, isrData, rxbuf, air, heard, fifo, fifoPtr, rxCurrent, irqFlags>>
        /\ Ending' = Ending
    BY <1>3 DEF Shows, Quiet
  <2>2. \A k \in DOMAIN shown' : \/ k \in DOMAIN shown /\ shown'[k] = shown[k]
                                 \/ shown'[k] = Taken
    <3>1. CASE rxbuf.head \in Heard
      <4>1. isr # "rx_head"
        BY <3>1, FramesAssumption DEF ClearedBuf
      <4> QED
        BY <1>3, <3>1, <4>1 DEF Shows, Show
    <3>2. CASE rxbuf.head \notin Heard
      BY <1>3, <3>2 DEF Shows, Show
    <3> QED
      BY <3>1, <3>2
  <2>3. Taken \in Frames /\ air[Taken] <= air[Taken]
    BY DEF LoRaTypeOK, DriverTypeOK
  <2> QED
    BY <2>1, <2>2, <2>3
<1>4. CASE lora_remove_dioISR
  BY <1>4 DEF lora_remove_dioISR, At
<1>5. CASE LoRa_stop_receive
  BY <1>5 DEF LoRa_stop_receive, At, WriteOpMode
<1>6. CASE CallStep /\ UNCHANGED programVars
  BY <1>6, CallKeeps
<1>7. CASE rx_f \/ tx_f
  BY <1>7 DEF rx_f, tx_f, RxReturn, TxCallback, Isr
<1>8. CASE (IsrWake \/ RxFlags \/ TxFlags \/ RxCrc) /\ UNCHANGED programVars
  BY <1>8 DEF IsrWake, RxFlags, TxFlags, RxCrc, IsrTest, Isr
<1>9. CASE RxAddr /\ UNCHANGED programVars
  <2>1. /\ "RXDONE" \in irqFlags /\ ~Ending /\ fifoPtr' = rxCurrent
        /\ isr = "rx_addr" /\ isr' = "rx_fifo"
        /\ UNCHANGED <<irqFlags, rxbuf, isrData, fifo, rxCurrent, air, heard, shown, pc>>
    BY <1>9 DEF RxAddr, Isr, WriteFifoPtr
  <2>2. air[Taken] < heard /\ Taken \in Frames
    BY <2>1 DEF LoRaTypeOK, DriverTypeOK
  <2>3. heard > 0
    BY <2>2
  <2> QED
    BY <2>1, <2>2, <2>3
<1>10. CASE RxFifo /\ UNCHANGED programVars
  <2>1. /\ isr = "rx_fifo" /\ isr' = "rx_head" /\ isrData' = fifo[fifoPtr]
        /\ UNCHANGED <<irqFlags, fifo, rxCurrent, air, heard, shown, pc>>
    BY <1>10 DEF RxFifo, Isr, ReadFifo, FifoData
  <2>2. fifo[fifoPtr] \in Frames /\ Taken \in Frames
    BY DEF LoRaTypeOK, ChipTypeOK, DriverTypeOK
  <2>3. \A k \in DOMAIN shown : air[shown[k]] < air[fifo[fifoPtr]]
    <3> SUFFICES ASSUME NEW k \in DOMAIN shown
                 PROVE  air[shown[k]] < air[fifo[fifoPtr]]
      OBVIOUS
    <3>1. air[shown[k]] \in Nat /\ air[Taken] \in Nat /\ air[fifo[fifoPtr]] \in Nat
      BY <2>2 DEF Frames
    <3> QED
      BY <2>1, <3>1
  <2>4. \A k \in DOMAIN shown : air[shown[k]] <= air[fifo[fifoPtr]]
    BY <2>2, <2>3 DEF Frames
  <2> QED
    BY <2>1, <2>4
<1>11. CASE (RxCopyHead \/ RxCopyTail) /\ UNCHANGED programVars
  BY <1>11 DEF RxCopyHead, RxCopyTail, Isr, LoRaTypeOK, DriverTypeOK
<1>12. CASE (RxReset \/ TxReset) /\ UNCHANGED programVars
  BY <1>12 DEF RxReset, TxReset, IsrResetFlags, Isr, ClearIrqFlags, ResetMask, IrqFlags
<1>13. CASE TxSleep /\ UNCHANGED programVars
  BY <1>13 DEF TxSleep, Isr, WriteOpMode
<1>14. CASE Transmitted
  BY <1>14 DEF Transmitted, TxComplete, ChipTxComplete
<1>15. CASE HearFrame
  <2>1. PICK f \in Heard :
          /\ ~Held(f) /\ heard' = heard + 1
          /\ air' = [air EXCEPT ![f] = heard + 1]
          /\ fifo' = [fifo EXCEPT ![rxNext] = f] /\ rxCurrent' = rxNext
          /\ UNCHANGED <<isr, isrData, rxbuf, fifoPtr, shown, pc>>
    BY <1>15, HearsNew
  <2>2. /\ \A g \in Frames : air'[g] = IF g = f THEN heard + 1 ELSE air[g]
        /\ \A g \in Frames : air[g] \in Nat /\ air[g] <= heard
    BY <2>1 DEF Frames, AirInOrder
  <2>3. /\ Taken' = Taken /\ Taken # f /\ Taken \in Frames
        /\ \A k \in DOMAIN shown : shown[k] # f /\ shown[k] \in Frames
        /\ \A c \in Cells : fifo[c] # f /\ fifo[c] \in Frames
    BY <2>1 DEF Held, LoRaTypeOK, ChipTypeOK, DriverTypeOK, Frames
  <2>4. heard \in Nat /\ fifo'[rxCurrent'] = f
        /\ fifo'[fifoPtr'] \in {f, fifo[fifoPtr]} /\ fifoPtr \in Cells
    BY <2>1 DEF LoRaTypeOK, ChipTypeOK
  <2>5. air'[fifo'[rxCurrent']] = heard'
    BY <2>1, <2>2, <2>4 DEF Frames
  <2>6. air'[Taken'] = air[Taken] /\ air[Taken] < heard'
    BY <2>1, <2>2, <2>3, <2>4
  <2>7. isr = "rx_fifo" => air'[Taken'] < air'[fifo'[fifoPtr']]
    <3>1. CASE fifo'[fifoPtr'] = f
      BY <2>1, <2>2, <2>4, <2>6, <3>1 DEF Frames
    <3>2. CASE fifo'[fifoPtr'] = fifo[fifoPtr]
      BY <2>2, <2>3, <2>4, <2>6, <3>2
    <3> QED
      BY <2>4, <3>1, <3>2
  <2>8. \A k \in DOMAIN shown' : air'[shown'[k]] <= air'[Taken']
    BY <2>1, <2>2, <2>3, <2>6
  <2> QED
    BY <2>1, <2>5, <2>6, <2>7, <2>8
<1>16. CASE UNCHANGED vars
  BY <1>16 DEF vars
<1> QED
  BY <1>1, <1>2, <1>3, <1>4, <1>5, <1>6, <1>7, <1>8, <1>9, <1>10, <1>11, <1>12,
     <1>13, <1>14, <1>15, <1>16
  DEF Next, Main, Interrupt, IsrStep, CheckCrc, PrintHead, Shows, At, Quiet

\* What still shows the frame taken last does so once, and comes to an end.
LEMMA NextTwice ==
  ASSUME Types, InPlace, AirInOrder, TakenInOrder, ShownTwiceAtMost, [Next]_vars
  PROVE  ShownTwiceAtMost'
<1> USE DEF ShownTwiceAtMost, ShowsLeft, Types
<1>1. ASSUME shown' = shown, Taken' = Taken, ShowsLeft' <= ShowsLeft
      PROVE  ShownTwiceAtMost'
  <2> SUFFICES ASSUME NEW k \in DOMAIN shown, shown[k] = Taken
               PROVE  Len(shown) - k + 1 + ShowsLeft' <= 2
    BY <1>1
  <2>1. Len(shown) - k + 1 + ShowsLeft <= 2
    OBVIOUS
  <2>2. Len(shown) \in Nat /\ k \in Nat /\ ShowsLeft \in Nat /\ ShowsLeft' \in Nat
    OBVIOUS
  <2> HIDE DEF ShowsLeft
  <2> QED
    BY <1>1, <2>1, <2>2
<1>2. CASE Send \/ Receive
  BY <1>1, <1>2 DEF Send, Receive, At, LoRa_send, LoRa_receive, Taken
<1>3. CASE EndTxWait \/ EndRxWait \/ Wake \/ PrintRest
  <2>1. UNCHANGED <<isr, isrData, rxbuf, shown, lora_rx_done>>
    BY <1>3 DEF EndTxWait, EndRxWait, Wake, PrintRest, Quiet
  <2>2. Taken' = Taken
    BY <2>1 DEF Taken
  <2>3. ShowsLeft' <= ShowsLeft
    BY <1>3, <2>1 DEF EndTxWait, EndRxWait, Wake, PrintRest, At
  <2> QED
    BY <1>1, <2>1, <2>2, <2>3
<1>4. CASE CheckCrc /\ ~rxCRC
  BY <1>1, <1>4 DEF CheckCrc, At, Quiet, Taken
<1>5. CASE Shows
  <2>1. UNCHANGED <<isr, isrData, rxbuf>> /\ Taken' = Taken
    BY <1>5 DEF Shows, Quiet, Taken
  <2>2. ShowsLeft' = ShowsLeft - 1 /\ ShowsLeft' <= 1 /\ ShowsLeft \in Nat
    BY <1>5, <2>1 DEF Shows
  <2>3. \/ shown' = shown
        \/ Len(shown') = Len(shown) + 1
           /\ \A k \in DOMAIN shown' :
                k = Len(shown') \/ (k \in DOMAIN shown /\ shown'[k] = shown[k])
    BY <1>5 DEF Shows, Show
  <2>4. SUFFICES ASSUME NEW k \in DOMAIN shown', shown'[k] = Taken
                 PROVE  Len(shown') - k + 1 + ShowsLeft' <= 2
    BY <2>1
  <2>5. Len(shown) \in Nat /\ Len(shown') \in Nat /\ k \in Nat
    BY NextTypes
  <2>6. \A j \in DOMAIN shown : shown[j] = Taken => Len(shown) - j + 1 + ShowsLeft <= 2
    OBVIOUS
  <2>7. CASE shown' = shown
    <3>1. Len(shown) - k + 1 + ShowsLeft <= 2
      BY <2>4, <2>6, <2>7
    <3> HIDE DEF ShowsLeft
    <3> QED
      BY <2>2, <2>5, <2>7, <3>1
  <2>8. CASE k \in DOMAIN shown /\ shown'[k] = shown[k] /\ Len(shown') = Len(shown) + 1
    <3>1. Len(shown) - k + 1 + ShowsLeft <= 2
      BY <2>4, <2>6, <2>8
    <3> HIDE DEF ShowsLeft
    <3> QED
      BY <2>2, <2>5, <2>8, <3>1
  <2>9. CASE k = Len(shown')
    <3> HIDE DEF ShowsLeft
    <3> QED
      BY <2>2, <2>5, <2>9
  <2> QED
    BY <2>3, <2>4, <2>7, <2>8, <2>9
<1>6. CASE lora_remove_dioISR \/ LoRa_stop_receive
  BY <1>1, <1>6 DEF lora_remove_dioISR, LoRa_stop_receive, At, WriteOpMode, Taken
<1>7. CASE CallStep /\ UNCHANGED programVars
  BY <1>1, <1>7, CallKeeps DEF Taken
<1>8. CASE rx_f \/ tx_f
  BY <1>1, <1>8 DEF rx_f, tx_f, RxReturn, TxCallback, Isr, Taken
<1>9. CASE (IsrWake \/ RxFlags \/ TxFlags \/ RxAddr \/ RxCrc) /\ UNCHANGED programVars
  BY <1>1, <1>9
  DEF IsrWake, RxFlags, TxFlags, RxAddr, RxCrc, IsrTest, Isr, WriteFifoPtr, Taken
<1>10. CASE RxFifo /\ UNCHANGED programVars
  <2>1. Taken' = fifo[fifoPtr] /\ shown' = shown /\ isr = "rx_fifo"
    BY <1>10 DEF RxFifo, Isr, FifoData, Taken
  <2>2. /\ air[Taken] < air[fifo[fifoPtr]]
        /\ \A k \in DOMAIN shown : air[shown[k]] <= air[Taken]
    BY <2>1 DEF TakenInOrder
  <2>3. ASSUME NEW k \in DOMAIN shown PROVE shown[k] # fifo[fifoPtr]
    <3>1. air[shown[k]] \in Nat /\ air[Taken] \in Nat /\ air[fifo[fifoPtr]] \in Nat
      BY DEF Frames, Taken, LoRaTypeOK, ChipTypeOK, DriverTypeOK
    <3> QED
      BY <2>2, <3>1
  <2> QED
    BY <2>1, <2>3
<1>11. CASE (RxCopyHead \/ RxCopyTail) /\ UNCHANGED programVars
  BY <1>1, <1>11
  DEF RxCopyHead, RxCopyTail, Isr, Taken, LoRaTypeOK, DriverTypeOK
<1>12. CASE (RxReset \/ TxReset \/ TxSleep) /\ UNCHANGED programVars
  BY <1>1, <1>12
  DEF RxReset, TxReset, TxSleep, IsrResetFlags, Isr, ClearIrqFlags, WriteOpMode,
      Taken
<1>13. CASE Transmitted \/ HearFrame
  BY <1>1, <1>13
  DEF Transmitted, TxComplete, ChipTxComplete, HearFrame, Hear, Taken
<1>14. CASE UNCHANGED vars
  BY <1>1, <1>14 DEF vars, Taken
<1> QED
  BY <1>2, <1>3, <1>4, <1>5, <1>6, <1>7, <1>8, <1>9, <1>10, <1>11, <1>12, <1>13,
     <1>14
  DEF Next, Main, Interrupt, IsrStep, CheckCrc, PrintHead, Shows, At, Quiet

\* A print adds what has been taken last, which is as new as anything shown, and
\* newer than all but the last of it.
LEMMA NextInOrder ==
  ASSUME Types, InPlace, AirInOrder, TakenInOrder, ShownTwiceAtMost, PrintedInOrder,
         [Next]_vars
  PROVE  PrintedInOrder'
<1> USE DEF PrintedInOrder, Types
<1>1. CASE FramesStay \/ (Copies /\ UNCHANGED programVars)
  BY <1>1 DEF FramesStay
<1>2. CASE Shows /\ rxbuf.head \in Heard
  <2>1. /\ air' = air /\ shown' = Append(shown, rxbuf.head)
        /\ pc \in {"check", "print"}
    BY <1>2 DEF Shows, Show, Quiet
  <2>2. Taken = rxbuf.head /\ air[Taken] > 0
    BY <1>2, FramesAssumption DEF Taken, ClearedBuf, AirInOrder, Held
  <2>3. Len(shown) \in Nat /\ DOMAIN shown = 1 .. Len(shown)
    OBVIOUS
  <2>4. ASSUME NEW j \in DOMAIN shown
        PROVE  /\ air[shown[j]] \in Nat /\ air[Taken] \in Nat
               /\ air[shown[j]] <= air[Taken]
               /\ j + 1 <= Len(shown) => air[shown[j]] < air[Taken]
    <3>1. air[shown[j]] <= air[Taken] /\ air[shown[j]] \in Nat /\ air[Taken] \in Nat
      BY <1>2, <2>2 DEF TakenInOrder, Frames
    <3>2. ASSUME j + 1 <= Len(shown), air[shown[j]] = air[Taken] PROVE FALSE
      <4>1. shown[j] = Taken
        BY <1>2, <2>2, <3>2 DEF AirInOrder
      <4>2. Len(shown) - j + 1 + ShowsLeft <= 2
        BY <4>1 DEF ShownTwiceAtMost
      <4>3. ShowsLeft >= 1 /\ ShowsLeft \in Nat
        BY <2>1 DEF ShowsLeft
      <4> QED
        BY <2>3, <3>2, <4>2, <4>3
    <3> QED
      BY <3>1, <3>2
  <2>5. SUFFICES ASSUME NEW j \in DOMAIN shown', NEW k \in DOMAIN shown', j <= k
                 PROVE  /\ air[shown'[j]] <= air[shown'[k]]
                        /\ j + 2 <= k => air[shown'[j]] < air[shown'[k]]
    BY <2>1, <2>3
  <2>6. CASE k \in DOMAIN shown
    BY <2>1, <2>3, <2>5, <2>6
  <2>7. CASE k = Len(shown) + 1 /\ j \in DOMAIN shown
    BY <2>1, <2>2, <2>3, <2>4, <2>7
  <2>8. CASE k = Len(shown) + 1 /\ j = k
    <3>1. shown'[k] = Taken /\ air[Taken] \in Nat
      BY <1>2, <2>1, <2>2, <2>8 DEF Frames
    <3> QED
      BY <2>8, <3>1
  <2> QED
    BY <2>1, <2>3, <2>5, <2>6, <2>7, <2>8
<1>3. CASE Shows /\ rxbuf.head \notin Heard
  BY <1>3 DEF Shows, Show, Quiet
<1>4. CASE HearFrame
  <2>1. PICK f \in Heard :
          ~Held(f) /\ air' = [air EXCEPT ![f] = heard + 1] /\ shown' = shown
    BY <1>4, HearsNew
  <2>2. \A k \in DOMAIN shown : air'[shown[k]] = air[shown[k]]
    BY <2>1 DEF Held, Frames
  <2> QED
    BY <2>1, <2>2
<1> QED
  BY <1>1, <1>2, <1>3, <1>4, FramesMove

\* A CRC error is flagged until the handler has taken the damaged frame's with it.
LEMMA NextDamage ==
  ASSUME Types, InPlace, AirInOrder, DamageIsFlagged, [Next]_vars
  PROVE  DamageIsFlagged'
<1> USE DEF DamageIsFlagged, Types
<1>1. CASE Send \/ Receive
  BY <1>1 DEF Send, Receive, LoRa_send, LoRa_receive
<1>2. CASE EndTxWait \/ EndRxWait \/ Wake \/ PrintRest \/ CheckCrc \/ PrintHead
  BY <1>2 DEF EndTxWait, EndRxWait, Wake, PrintRest, CheckCrc, PrintHead, Quiet
<1>3. CASE lora_remove_dioISR
  BY <1>3 DEF lora_remove_dioISR
<1>4. CASE LoRa_stop_receive \/ (TxSleep /\ UNCHANGED programVars)
  <2>1. /\ \A c \in Cells : fifo'[c] = Blank
        /\ UNCHANGED <<irqFlags, isrData, rxbuf, rxCRC, fifoPtr, rxCurrent>>
        /\ isr' = isr \/ (isr = "tx_sleep" /\ isr' = "idle")
    BY <1>4 DEF LoRa_stop_receive, TxSleep, WriteOpMode, Isr
  <2>2. Blank \notin Bad /\ fifoPtr \in Cells /\ rxCurrent \in Cells
    BY FramesAssumption DEF Heard, LoRaTypeOK, ChipTypeOK
  <2> QED
    BY <2>1, <2>2
<1>5. CASE CallStep /\ UNCHANGED programVars
  BY <1>5, CallKeeps
<1>6. CASE rx_f \/ tx_f
  BY <1>6 DEF rx_f, tx_f, RxReturn, TxCallback, Isr
<1>7. CASE (IsrWake \/ RxFlags \/ TxFlags) /\ UNCHANGED programVars
  BY <1>7 DEF IsrWake, RxFlags, TxFlags, IsrTest, Isr
<1>8. CASE RxAddr /\ UNCHANGED programVars
  BY <1>8 DEF RxAddr, Isr, WriteFifoPtr
<1>9. CASE RxFifo /\ UNCHANGED programVars
  BY <1>9, FramesAssumption DEF RxFifo, Isr, ReadFifo, FifoData, ClearedBuf, Heard
<1>10. CASE (RxCopyHead \/ RxCopyTail \/ RxCrc) /\ UNCHANGED programVars
  BY <1>10 DEF RxCopyHead, RxCopyTail, RxCrc, Isr, LoRaTypeOK, DriverTypeOK
<1>11. CASE (RxReset \/ TxReset) /\ UNCHANGED programVars
  BY <1>11
  DEF RxReset, TxReset, IsrResetFlags, Isr, ClearIrqFlags, ResetMask, IrqFlags
<1>12. CASE Transmitted
  BY <1>12 DEF Transmitted, TxComplete, ChipTxComplete
<1>13. CASE HearFrame
  <2>1. PICK f \in Heard :
          /\ fifo' = [fifo EXCEPT ![rxNext] = f] /\ rxCurrent' = rxNext
          /\ irqFlags \subseteq irqFlags'
          /\ f \in Bad => "CRCERR" \in irqFlags'
          /\ UNCHANGED <<isr, isrData, rxbuf, rxCRC, fifoPtr>>
    BY <1>13, HearsNew
  <2>2. fifo'[rxCurrent'] = f /\ fifo'[fifoPtr] \in {f, fifo[fifoPtr]}
    BY <2>1 DEF LoRaTypeOK, ChipTypeOK
  <2>3. /\ isrData' = isrData /\ rxbuf' = rxbuf /\ isr' = isr /\ rxCRC' = rxCRC
        /\ "CRCERR" \in irqFlags => "CRCERR" \in irqFlags'
    BY <2>1
  <2>4. isr = "rx_fifo" /\ fifo'[fifoPtr'] \in Bad => "CRCERR" \in irqFlags'
    BY <2>1, <2>2, <2>3
  <2> QED
    BY <2>1, <2>2, <2>3, <2>4
<1>14. CASE UNCHANGED vars
  BY <1>14 DEF vars
<1> QED
  BY <1>1, <1>2, <1>3, <1>4, <1>5, <1>6, <1>7, <1>8, <1>9, <1>10, <1>11, <1>12,
     <1>13, <1>14
  DEF Next, Main, Interrupt, IsrStep

\* If nothing is on its way when rx_main sees its flag, nothing disturbs the print.
LEMMA NextAlone ==
  ASSUME Types, InPlace, DamageIsFlagged, AloneIsQuiet, [Next]_vars
  PROVE  AloneIsQuiet'
<1> USE DEF AloneIsQuiet, Types
<1>1. CASE Send \/ Receive
  BY <1>1 DEF Send, Receive
<1>2. CASE EndTxWait \/ Wake \/ PrintRest
  BY <1>2 DEF EndTxWait, Wake, PrintRest, At, Quiet
<1>3. CASE EndRxWait
  BY <1>3 DEF EndRxWait, At, Quiet
<1>4. CASE CheckCrc
  BY <1>4 DEF CheckCrc, At, Quiet, DamageIsFlagged, Heard, Show
<1>5. CASE PrintHead
  BY <1>5 DEF PrintHead, At, Quiet, Show
<1>6. CASE lora_remove_dioISR \/ LoRa_stop_receive
  BY <1>6 DEF lora_remove_dioISR, LoRa_stop_receive, At, WriteOpMode
<1>7. CASE CallStep /\ UNCHANGED programVars
  BY <1>7, CallKeeps
<1>8. CASE rx_f \/ tx_f
  BY <1>8 DEF rx_f, tx_f, RxReturn, TxCallback, Isr
<1>9. CASE IsrStep /\ UNCHANGED programVars
  <2>1. CASE isr = "idle" \/ ~alone
    BY <1>9, <2>1
    DEF IsrStep, IsrWake, RxFlags, RxAddr, RxFifo, RxCopyHead, RxCopyTail,
        RxCrc, RxReset, TxFlags, TxReset, TxSleep, IsrTest, IsrResetFlags, Isr
  <2>2. CASE isr = "rx_flags" /\ alone
    BY <1>9, <2>2
    DEF IsrStep, IsrWake, RxFlags, RxAddr, RxFifo, RxCopyHead, RxCopyTail,
        RxCrc, RxReset, TxFlags, TxReset, TxSleep, IsrTest, IsrResetFlags, Isr
  <2> QED
    BY <2>1, <2>2
<1>10. CASE Transmitted
  BY <1>10 DEF Transmitted, TxComplete, ChipTxComplete
<1>11. CASE HearFrame
  BY <1>11, HearsNew DEF HearFrame
<1>12. CASE UNCHANGED vars
  BY <1>12 DEF vars
<1> QED
  BY <1>1, <1>2, <1>3, <1>4, <1>5, <1>6, <1>7, <1>8, <1>9, <1>10, <1>11, <1>12
  DEF Next, Main, Interrupt

LEMMA NextWay == Types /\ InPlace /\ WayInv /\ [Next]_vars => WayInv'
  BY NextAir, NextTaken, NextTwice, NextInOrder, NextDamage, NextAlone DEF WayInv

-----------------------------------------------------------------------------

\* The invariant of the four programs holds in every reachable state.
THEOREM ExamplesInvariance == Spec => []ExamplesInv
<1>1. Init => ExamplesInv
  BY InitCore, CoreSuffices
<1>2. Core /\ [Next]_vars => Core'
  BY NextTypes, NextInPlace, NextAccounted, NextWay DEF Core, Types
<1>3. ExamplesInv /\ [Next]_vars => ExamplesInv'
  BY <1>2, CoreSuffices
<1> QED
  BY <1>1, <1>3, PTL DEF Spec

\* When a program has ended the radio sleeps, and no handler is registered, at
\* work or due that could use the SPI channel LoRa_end has closed.
THEOREM AlwaysEndsAsleep == Spec => []EndsAsleep
<1>1. ExamplesInv => EndsAsleep
  BY DEF ExamplesInv, EndsAsleep
<1> QED
  BY <1>1, ExamplesInvariance, PTL

\* No LoRa_end cuts a transmission short, and no step of receiver or handler
\* changes what is on the air.
THEOREM AlwaysSentWhole == Spec => []SentWhole
<1>1. ExamplesInv => SentWhole
  BY DEF ExamplesInv, SentWhole
<1> QED
  BY <1>1, ExamplesInvariance, PTL

\* However late a handler is, rx_main prints no frame after a later one, and none
\* more than twice.
THEOREM AlwaysPrintedInOrder == Spec => []PrintedInOrder
<1>1. ExamplesInv => PrintedInOrder
  BY DEF ExamplesInv
<1> QED
  BY <1>1, ExamplesInvariance, PTL

\* If no other frame is on its way, what rx_main prints as intact is one whole,
\* undamaged frame.
THEOREM AlwaysPrintedWhole == Spec => []PrintedIsWhole
<1>1. ExamplesInv => PrintedIsWhole
  BY DEF ExamplesInv, AloneIsQuiet, PrintedIsWhole, RxWhole
<1> QED
  BY <1>1, ExamplesInvariance, PTL
=============================================================================
