----------------------------- MODULE LoRaProofs -----------------------------
(***************************************************************************)
(* The driver and the radio keep their types, whatever program runs on     *)
(* them: lemmas for the proofs about Gateway and Examples.                 *)
(***************************************************************************)
EXTENDS LoRa, TLAPS

\* The FIFO pointer and the modem's cell stay inside the FIFO.
LEMMA CellArithmetic ==
  ASSUME NEW c \in Cells
  PROVE  NextCell(c) \in Cells
  BY FifoCellsAssumption DEF NextCell, Cells

USE DEF rxPointers, chipVars, driverVars, callerVars

LoRaTypeOK == ChipTypeOK /\ DriverTypeOK

\* LoRa_begin leaves radio and driver in their types.
LEMMA BeginType == LoRa_begin => LoRaTypeOK
<1> SUFFICES ASSUME LoRa_begin PROVE LoRaTypeOK
  OBVIOUS
<1>1. ChipTypeOK
  BY FifoCellsAssumption
  DEF LoRa_begin, ChipInit, ChipTypeOK, Frames, Cells, OpModes, IrqFlags,
      TX_BASE_ADDR, RX_BASE_ADDR
<1>2. DriverTypeOK
  <2>1. rxbuf \in [head : Frames, tail : Frames] /\ isrData \in Frames
    BY DEF LoRa_begin, Frames, ClearedBuf
  <2>2. edge \in BOOLEAN /\ rxCRC \in BOOLEAN /\ swT \in BOOLEAN /\ swR \in BOOLEAN
    BY DEF LoRa_begin
  <2>3. handler = "none" /\ isr = "idle" /\ op = "idle" /\ txbuf \in Frames
    BY DEF LoRa_begin, Frames
  <2> QED
    BY <2>1, <2>2, <2>3 DEF DriverTypeOK
<1> QED
  BY <1>1, <1>2 DEF LoRaTypeOK

\* The SPI transfers and the radio's own events keep its registers in range.
LEMMA ChipStepType ==
  ASSUME ChipTypeOK
  PROVE  /\ \A m \in OpModes : WriteOpMode(m) => ChipTypeOK'
         /\ \A flag \in {"RXDONE", "TXDONE"} : WriteMapping(flag) => ChipTypeOK'
         /\ \A c \in Cells : WriteFifoPtr(c) => ChipTypeOK'
         /\ \A f \in Frames : WriteFifo(f) => ChipTypeOK'
         /\ ReadFifo => ChipTypeOK'
         /\ \A flags : ClearIrqFlags(flags) => ChipTypeOK'
         /\ ChipTxComplete => ChipTypeOK'
         /\ \A f \in Frames : ChipHear(f) => ChipTypeOK'
         /\ rxCurrent \in Cells /\ FifoData \in Frames
         /\ UNCHANGED chipVars => ChipTypeOK'
<1> USE DEF ChipTypeOK
<1>1. \A m \in OpModes : WriteOpMode(m) => ChipTypeOK'
  BY FifoCellsAssumption DEF WriteOpMode, OpModes, Cells, RX_BASE_ADDR, Frames
<1>2. \A flag \in {"RXDONE", "TXDONE"} : WriteMapping(flag) => ChipTypeOK'
  BY DEF WriteMapping
<1>3. \A c \in Cells : WriteFifoPtr(c) => ChipTypeOK'
  BY DEF WriteFifoPtr
<1>4. \A f \in Frames : WriteFifo(f) => ChipTypeOK'
  BY CellArithmetic DEF WriteFifo
<1>5. ReadFifo => ChipTypeOK'
  BY CellArithmetic DEF ReadFifo
<1>6. \A flags : ClearIrqFlags(flags) => ChipTypeOK'
  BY DEF ClearIrqFlags
<1>7. ChipTxComplete => ChipTypeOK'
  BY DEF ChipTxComplete, OpModes, IrqFlags
<1>8. \A f \in Frames : ChipHear(f) => ChipTypeOK'
  BY CellArithmetic DEF ChipHear, IrqFlags
<1>9. rxCurrent \in Cells /\ FifoData \in Frames
  BY CellArithmetic DEF FifoData
<1>10. UNCHANGED chipVars => ChipTypeOK'
  OBVIOUS
<1> QED
  BY <1>1, <1>2, <1>3, <1>4, <1>5, <1>6, <1>7, <1>8, <1>9, <1>10

LEMMA LatchType == edge \in BOOLEAN /\ LatchEdge => edge' \in BOOLEAN
  BY DEF LatchEdge

\* A step of a call of the driver.
LEMMA CallType == LoRaTypeOK /\ CallStep => LoRaTypeOK'
<1> SUFFICES ASSUME LoRaTypeOK, CallStep PROVE LoRaTypeOK'
  OBVIOUS
<1> USE DEF LoRaTypeOK
<1>1. ASSUME NEW from, NEW to \in {"idle"} \cup SendSteps \cup RecvSteps,
             Transfer(from, to)
      PROVE  DriverTypeOK'
  BY <1>1, LatchType DEF Transfer, DriverTypeOK, Goto
<1>2. ASSUME NEW from, NEW to \in {"idle"} \cup SendSteps \cup RecvSteps,
             NEW h \in {"rx", "tx"}, SetHandler(from, to, h)
      PROVE  ChipTypeOK' /\ DriverTypeOK'
  BY <1>2, ChipStepType DEF SetHandler, DriverTypeOK, Goto
<1>3. CASE SendStandby \/ ReceiveStandby
  BY <1>3, <1>1, ChipStepType
  DEF SendStandby, ReceiveStandby, Standby, SendSteps, RecvSteps, OpModes
<1>4. CASE SendPtr
  BY <1>4, <1>1, ChipStepType, FifoCellsAssumption
  DEF SendPtr, TX_BASE_ADDR, Cells, SendSteps
<1>5. CASE SendFifo
  BY <1>5, <1>1, ChipStepType DEF SendFifo, DriverTypeOK, SendSteps
<1>6. CASE SendMapping \/ ReceiveMapping
  BY <1>6, <1>1, ChipStepType
  DEF SendMapping, ReceiveMapping, SendSteps, RecvSteps
<1>7. CASE SendHandler \/ ReceiveHandler
  BY <1>7, <1>2 DEF SendHandler, ReceiveHandler, SendSteps, RecvSteps
<1>8. CASE SendTx \/ ReceiveRx
  BY <1>8, <1>1, ChipStepType DEF SendTx, ReceiveRx, OpModes
<1> QED
  BY <1>3, <1>4, <1>5, <1>6, <1>7, <1>8 DEF CallStep, SendStep, ReceiveStep

\* A step of the interrupt thread.
LEMMA IsrType ==
  LoRaTypeOK /\ (IsrStep \/ RxReturn \/ TxCallback) => LoRaTypeOK'
<1> SUFFICES ASSUME LoRaTypeOK, IsrStep \/ RxReturn \/ TxCallback
             PROVE  LoRaTypeOK'
  OBVIOUS
<1> USE DEF LoRaTypeOK, DriverTypeOK, Isr, RxSteps, TxSteps
<1>1. CASE IsrWake
  BY <1>1, ChipStepType DEF IsrWake
<1>2. CASE RxFlags \/ TxFlags
  BY <1>2, ChipStepType DEF RxFlags, TxFlags, IsrTest
<1>3. CASE RxAddr
  BY <1>3, ChipStepType DEF RxAddr
<1>4. CASE RxFifo
  BY <1>4, ChipStepType DEF RxFifo, ClearedBuf, Frames
<1>5. CASE RxCopyHead
  BY <1>5, ChipStepType DEF RxCopyHead
<1>6. CASE RxCopyTail
  BY <1>6, ChipStepType DEF RxCopyTail, Frames
<1>7. CASE RxCrc
  BY <1>7, ChipStepType DEF RxCrc
<1>8. CASE RxReset \/ TxReset
  BY <1>8, ChipStepType, LatchType DEF RxReset, TxReset, IsrResetFlags
<1>9. CASE RxReturn \/ TxCallback
  BY <1>9, ChipStepType DEF RxReturn, TxCallback
<1>10. CASE TxSleep
  BY <1>10, ChipStepType DEF TxSleep, OpModes
<1> QED
  BY <1>1, <1>2, <1>3, <1>4, <1>5, <1>6, <1>7, <1>8, <1>9, <1>10 DEF IsrStep

\* An event of the radio.
LEMMA RadioType ==
  ASSUME LoRaTypeOK, TxComplete \/ \E f \in Heard : Hear(f)
  PROVE  LoRaTypeOK'
<1>1. DriverTypeOK'
  BY LatchType DEF LoRaTypeOK, TxComplete, Hear, DriverTypeOK
<1>2. ChipTypeOK'
  BY ChipStepType DEF LoRaTypeOK, TxComplete, Hear, Frames
<1> QED
  BY <1>1, <1>2 DEF LoRaTypeOK

\* A step that leaves radio and driver alone.
LEMMA QuietType ==
  LoRaTypeOK /\ UNCHANGED <<chipVars, driverVars>> => LoRaTypeOK'
  BY DEF LoRaTypeOK, ChipTypeOK, DriverTypeOK
=============================================================================
