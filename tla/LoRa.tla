-------------------------------- MODULE LoRa --------------------------------
(***************************************************************************)
(* The driver of LoRa.c: LoRa_send and LoRa_receive, run by the program's  *)
(* main thread, and the two interrupt handlers rxDoneISRf and txDoneISRf,  *)
(* run by pigpio's interrupt thread for the DIO0 pin.                      *)
(*                                                                         *)
(* The two threads share the radio and the buffers of LoRa_ctl and take no *)
(* lock, so they interleave between any two SPI transfers.  `op' is the    *)
(* program counter of the call the main thread is in, `isr' that of the    *)
(* interrupt thread.  The callbacks are the program's: a module that       *)
(* extends this one supplies the steps at isr = "rx_cb" and "tx_cb".       *)
(*                                                                         *)
(* A read-modify-write of REG_OP_MODE is one step, placed at its write: it *)
(* keeps the LongRangeMode bit, which nothing changes after LoRa_begin.    *)
(* The modem configuration written by the calls is left out.               *)
(***************************************************************************)
EXTENDS Sx1278

VARIABLES
  edge,     \* a rising edge of DIO0 awaits the interrupt thread
  handler,  \* the function pigpio calls for the pin
  isr,      \* the interrupt thread's place in its handler
  isrData,  \* rx[] of lora_reg_read_bytes: what the transfer returned
  rxbuf,    \* modem.rx.data.buf: the leading fields and the trailing ones
  rxCRC,    \* modem.rx.data.CRC
  op,       \* the main thread's place in LoRa_send or LoRa_receive
  txbuf,    \* modem.tx.data.buf
  swT, swR  \* the antenna switch, SW_T_PIN and SW_R_PIN

driverVars == <<edge, handler, isr, isrData, rxbuf, rxCRC, op, txbuf, swT, swR>>

SendSteps == {"s_stdby", "s_ptr", "s_fifo", "s_map", "s_isr", "s_tx"}
RecvSteps == {"r_stdby", "r_map", "r_isr", "r_rx"}
RxSteps == {"rx_flags", "rx_addr", "rx_fifo", "rx_head", "rx_tail", "rx_crc",
            "rx_reset", "rx_cb"}
TxSteps == {"tx_flags", "tx_reset", "tx_cb", "tx_sleep"}

DriverTypeOK ==
  /\ edge \in BOOLEAN
  /\ handler \in {"none", "rx", "tx"}
  /\ isr \in {"idle"} \cup RxSteps \cup TxSteps
  /\ isrData \in Frames
  /\ rxbuf \in [head : Frames, tail : Frames]
  /\ rxCRC \in BOOLEAN
  /\ op \in {"idle"} \cup SendSteps \cup RecvSteps
  /\ txbuf \in Frames
  /\ swT \in BOOLEAN /\ swR \in BOOLEAN

ClearedBuf == [head |-> Blank, tail |-> Blank]

\* LoRa_begin has succeeded: the radio sleeps, no handler is registered and
\* the antenna switch is off.
LoRa_begin ==
  /\ ChipInit
  /\ edge = FALSE /\ handler = "none" /\ isr = "idle"
  /\ isrData = Blank /\ rxbuf = ClearedBuf /\ rxCRC = FALSE
  /\ op = "idle" /\ txbuf = Blank
  /\ swT = FALSE /\ swR = FALSE

\* pigpio polls the pin for a rising edge once a handler is registered.  Edges
\* that come while the handler runs are one pending edge.
Dio0Rises == handler # "none" /\ ~Dio0 /\ Dio0'

LatchEdge ==
  \/ Dio0Rises /\ edge' = TRUE
  \/ ~Dio0Rises /\ UNCHANGED edge

-----------------------------------------------------------------------------
(* The calls of the main thread.                                           *)

Goto(from, to) == op = from /\ op' = to

\* LoRa_send is called for frame f: it turns the antenna to the transmitter.
LoRa_send(f) ==
  /\ Goto("idle", "s_stdby")
  /\ txbuf' = f
  /\ swT' = TRUE /\ swR' = FALSE
  /\ UNCHANGED <<chipVars, edge, handler, isr, isrData, rxbuf, rxCRC>>

\* A step of a call that is one SPI transfer.
Transfer(from, to) ==
  /\ Goto(from, to)
  /\ LatchEdge
  /\ UNCHANGED <<handler, isr, isrData, rxbuf, rxCRC, txbuf, swT, swR>>

\* The radio leaves standby only if it is not there already.
Standby(from, to) ==
  /\ WriteOpMode("STDBY")
  /\ Transfer(from, to)

SetHandler(from, to, h) ==
  /\ Goto(from, to)
  /\ handler' = h
  /\ UNCHANGED <<chipVars, edge, isr, isrData, rxbuf, rxCRC, txbuf, swT, swR>>

SendStandby == Standby("s_stdby", "s_ptr")
\* (mutant) The pointer is left where the last burst ended.
SendPtrForgotten == UNCHANGED chipVars /\ Transfer("s_ptr", "s_fifo")

SendPtr == WriteFifoPtr(TX_BASE_ADDR) /\ Transfer("s_ptr", "s_fifo")
SendFifo == WriteFifo(txbuf) /\ Transfer("s_fifo", "s_map")

\* (mutant) DIO0 stays on RxDone.
SendMappingForgotten == UNCHANGED chipVars /\ Transfer("s_map", "s_isr")

SendMapping == WriteMapping("TXDONE") /\ Transfer("s_map", "s_isr")
SendHandler == SetHandler("s_isr", "s_tx", "tx")
SendTx == WriteOpMode("TX") /\ Transfer("s_tx", "idle")

SendStep ==
  \/ SendStandby \/ SendPtr \/ SendFifo
  \/ SendMapping \/ SendHandler \/ SendTx

\* LoRa_receive is called: it turns the antenna to the receiver.
LoRa_receive ==
  /\ Goto("idle", "r_stdby")
  /\ swT' = FALSE /\ swR' = TRUE
  /\ UNCHANGED <<chipVars, edge, handler, isr, isrData, rxCRC, txbuf>>

ReceiveStandby == Standby("r_stdby", "r_map")
ReceiveMapping == WriteMapping("RXDONE") /\ Transfer("r_map", "r_isr")
ReceiveHandler == SetHandler("r_isr", "r_rx", "rx")

\* (mutant) The radio stays in standby.
ReceiveRxForgotten == UNCHANGED chipVars /\ Transfer("r_rx", "idle")

ReceiveRx == WriteOpMode("RXCONT") /\ Transfer("r_rx", "idle")

ReceiveStep ==
  ReceiveStandby \/ ReceiveMapping \/ ReceiveHandler \/ ReceiveRx

CallStep == SendStep \/ ReceiveStep

-----------------------------------------------------------------------------
(* The interrupt thread.                                                   *)

Isr(from, to) == isr = from /\ isr' = to

callerVars == <<handler, op, txbuf, swT, swR>>

\* pigpio calls the handler registered when it sees the edge.
IsrWake ==
  /\ edge
  /\ \/ handler = "rx" /\ Isr("idle", "rx_flags")
     \/ handler = "tx" /\ Isr("idle", "tx_flags")
  /\ edge' = FALSE
  /\ UNCHANGED <<chipVars, callerVars, isrData, rxbuf, rxCRC>>

\* A step of a handler that reads the radio and changes nothing in it.
IsrTest(flag, from, to) ==
  /\ \/ flag \in irqFlags /\ Isr(from, to)
     \/ flag \notin irqFlags /\ Isr(from, "idle")
  /\ UNCHANGED <<chipVars, callerVars, edge, isrData, rxbuf, rxCRC>>

\* (mutants) The mask misses the bit of one of the two flags.
MaskWithoutRxDone == IrqFlags \ {"RXDONE"}
MaskWithoutTxDone == IrqFlags \ {"TXDONE"}

\* lora_reset_irq_flags writes 0xff: both handlers clear each other's flags.
ResetMask == IrqFlags

IsrResetFlags(from, to) ==
  /\ Isr(from, to)
  /\ ClearIrqFlags(ResetMask)
  /\ LatchEdge
  /\ UNCHANGED <<callerVars, isrData, rxbuf, rxCRC>>

RxFlags == IsrTest("RXDONE", "rx_flags", "rx_addr")

\* (mutant) The pointer is not set to the start of the frame.
RxAddrForgotten ==
  /\ Isr("rx_addr", "rx_fifo")
  /\ UNCHANGED <<chipVars, callerVars, edge, isrData, rxbuf, rxCRC>>

RxAddr ==
  /\ Isr("rx_addr", "rx_fifo")
  /\ WriteFifoPtr(rxCurrent)
  /\ UNCHANGED <<callerVars, edge, isrData, rxbuf, rxCRC>>

\* lora_reg_read_bytes clears the destination and runs the transfer ...
RxFifo ==
  /\ Isr("rx_fifo", "rx_head")
  /\ isrData' = FifoData
  /\ ReadFifo
  /\ rxbuf' = ClearedBuf
  /\ UNCHANGED <<callerVars, edge, rxCRC>>

\* ... and copies the frame out, which another thread sees happen in parts.
RxCopyHead ==
  /\ Isr("rx_head", "rx_tail")
  /\ rxbuf' = [rxbuf EXCEPT !.head = isrData]
  /\ UNCHANGED <<chipVars, callerVars, edge, isrData, rxCRC>>

RxCopyTail ==
  /\ Isr("rx_tail", "rx_crc")
  /\ rxbuf' = [rxbuf EXCEPT !.tail = isrData]
  /\ isrData' = Blank
  /\ UNCHANGED <<chipVars, callerVars, edge, rxCRC>>

RxCrc ==
  /\ Isr("rx_crc", "rx_reset")
  /\ rxCRC' = ("CRCERR" \in irqFlags)
  /\ UNCHANGED <<chipVars, callerVars, edge, isrData, rxbuf>>

RxReset == IsrResetFlags("rx_reset", "rx_cb")

\* rxDoneISRf's last statement is its callback.
RxReturn ==
  /\ Isr("rx_cb", "idle")
  /\ UNCHANGED <<chipVars, callerVars, edge, isrData, rxbuf, rxCRC>>

\* (mutant) txDoneISRf trusts the interrupt and does not read the flags.
TxFlagsUnchecked ==
  /\ Isr("tx_flags", "tx_reset")
  /\ UNCHANGED <<chipVars, callerVars, edge, isrData, rxbuf, rxCRC>>

TxFlags == IsrTest("TXDONE", "tx_flags", "tx_reset")

TxReset == IsrResetFlags("tx_reset", "tx_cb")

\* txDoneISRf calls back first and puts the radio to sleep afterwards.
TxCallback ==
  /\ Isr("tx_cb", "tx_sleep")
  /\ UNCHANGED <<chipVars, callerVars, edge, isrData, rxbuf, rxCRC>>

TxSleep ==
  /\ Isr("tx_sleep", "idle")
  /\ WriteOpMode("SLEEP")
  /\ UNCHANGED <<callerVars, edge, isrData, rxbuf, rxCRC>>

\* The steps of the handlers other than their callbacks.
IsrStep ==
  \/ IsrWake \/ RxFlags \/ RxAddr \/ RxFifo \/ RxCopyHead \/ RxCopyTail
  \/ RxCrc \/ RxReset \/ TxFlags \/ TxReset \/ TxSleep

-----------------------------------------------------------------------------
(* Events of the radio, as the driver's host observes them on DIO0.        *)

TxComplete ==
  /\ ChipTxComplete
  /\ LatchEdge
  /\ UNCHANGED <<callerVars, isr, isrData, rxbuf, rxCRC>>

Hear(f) ==
  /\ ChipHear(f)
  /\ LatchEdge
  /\ UNCHANGED <<callerVars, isr, isrData, rxbuf, rxCRC>>

-----------------------------------------------------------------------------
(* What any program on this driver relies on.                              *)

\* The transmitter never runs into the receiver's side of the antenna switch,
\* nor with its end wired to the wrong interrupt handler; a listening radio
\* raises the receive interrupt and, outside a call, has the antenna.
RadioIsWired ==
  /\ opMode = "TX" =>
       dioMapping = "TXDONE" /\ handler = "tx" /\ swT /\ ~swR
  /\ opMode = "RXCONT" => dioMapping = "RXDONE" /\ handler = "rx"
  /\ opMode = "RXCONT" /\ op = "idle" => swR /\ ~swT

\* DIO0 interrupts on its rising edge only: a listening radio whose RxDone is
\* up has an interrupt pending or a handler that will take the flag down, or
\* it would never interrupt again.
NeverDeaf ==
  opMode = "RXCONT" /\ "RXDONE" \in irqFlags =>
    edge \/ isr \in RxSteps \ {"rx_cb"}
=============================================================================
