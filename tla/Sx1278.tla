------------------------------- MODULE Sx1278 -------------------------------
(***************************************************************************)
(* The SX1278 radio as the driver in LoRa.c sees it over SPI: the part of  *)
(* the register file that the send, receive and interrupt paths read and   *)
(* write, and the two events the radio produces by itself.  The chip is    *)
(* not in this repository; it is modelled from the registers of LoRa.h and *)
(* from the way LoRa.c drives them.                                        *)
(*                                                                         *)
(* One SPI transfer is one atomic step.  A frame on the air, whatever its  *)
(* length, fills one cell of the FIFO.                                     *)
(***************************************************************************)
EXTENDS Naturals

CONSTANTS
  Good,       \* frames that reach the antenna undamaged
  Bad,        \* frames whose payload CRC does not match
  Broadcast,  \* the AP_BROADCAST_EMPTYPACKAGE
  Ack,        \* the AP_ACK_PACKAGE
  Blank,      \* zeroed or cleared memory
  FifoCells   \* frames the 256-byte FIFO holds (a bound)

Heard == Good \cup Bad
Frames == Heard \cup {Broadcast, Ack, Blank}

ASSUME FramesAssumption ==
  /\ Good \cap Bad = {}
  /\ {Broadcast, Ack, Blank} \cap Heard = {}
  /\ Broadcast # Ack /\ Broadcast # Blank /\ Ack # Blank

ASSUME FifoCellsAssumption == FifoCells \in Nat \ {0}

VARIABLES
  opMode,      \* REG_OP_MODE, its three mode bits
  irqFlags,    \* REG_IRQ_FLAGS
  dioMapping,  \* REG_DIO_MAPPING_1: the flag that drives the DIO0 pin
  fifo,        \* the data buffer
  fifoPtr,     \* REG_FIFO_ADDR_PTR
  rxNext,      \* the cell the modem writes the next received frame to
  rxCurrent    \* REG_FIFO_RX_CURRENT_ADDR: where the last frame starts

rxPointers == <<rxNext, rxCurrent>>
chipVars == <<opMode, irqFlags, dioMapping, fifo, fifoPtr, rxPointers>>

OpModes == {"SLEEP", "STDBY", "TX", "RXCONT"}
IrqFlags == {"RXDONE", "TXDONE", "CRCERR"}
Cells == 0 .. FifoCells - 1

\* Both base address registers are programmed to the start of the FIFO.
TX_BASE_ADDR == 0
RX_BASE_ADDR == 0

ChipTypeOK ==
  /\ opMode \in OpModes
  /\ irqFlags \in SUBSET IrqFlags
  /\ dioMapping \in {"RXDONE", "TXDONE"}
  /\ fifo \in [Cells -> Frames]
  /\ fifoPtr \in Cells
  /\ rxNext \in Cells /\ rxCurrent \in Cells

\* The registers as LoRa_begin leaves them: LoRa mode, asleep.
ChipInit ==
  /\ opMode = "SLEEP"
  /\ irqFlags = {}
  /\ dioMapping = "RXDONE"
  /\ fifo = [c \in Cells |-> Blank]
  /\ fifoPtr = TX_BASE_ADDR
  /\ rxNext = RX_BASE_ADDR /\ rxCurrent = RX_BASE_ADDR

\* The level of the DIO0 pin.
Dio0 == dioMapping \in irqFlags

NextCell(c) == (c + 1) % FifoCells

-----------------------------------------------------------------------------
(* SPI transfers.                                                          *)

\* Sleep loses the FIFO; entering continuous reception rewinds the modem.
WriteOpMode(m) ==
  /\ opMode' = m
  /\ fifo' = IF m = "SLEEP" THEN [c \in Cells |-> Blank] ELSE fifo
  /\ rxNext' = IF m = "RXCONT" THEN RX_BASE_ADDR ELSE rxNext
  /\ UNCHANGED <<irqFlags, dioMapping, fifoPtr, rxCurrent>>

WriteMapping(flag) ==
  /\ dioMapping' = flag
  /\ UNCHANGED <<opMode, irqFlags, fifo, fifoPtr, rxPointers>>

WriteFifoPtr(c) ==
  /\ fifoPtr' = c
  /\ UNCHANGED <<opMode, irqFlags, dioMapping, fifo, rxPointers>>

\* A burst at REG_FIFO advances the pointer; a sleeping chip ignores it.
WriteFifo(f) ==
  /\ \/ /\ opMode # "SLEEP"
        /\ fifo' = [fifo EXCEPT ![fifoPtr] = f]
        /\ fifoPtr' = NextCell(fifoPtr)
     \/ opMode = "SLEEP" /\ UNCHANGED <<fifo, fifoPtr>>
  /\ UNCHANGED <<opMode, irqFlags, dioMapping, rxPointers>>

\* A sleeping chip returns zeroes: its FIFO is already blank.
FifoData == fifo[fifoPtr]

ReadFifo ==
  /\ fifoPtr' = IF opMode = "SLEEP" THEN fifoPtr ELSE NextCell(fifoPtr)
  /\ UNCHANGED <<opMode, irqFlags, dioMapping, fifo, rxPointers>>

\* Writing ones to REG_IRQ_FLAGS clears the flags written.
ClearIrqFlags(flags) ==
  /\ irqFlags' = irqFlags \ flags
  /\ UNCHANGED <<opMode, dioMapping, fifo, fifoPtr, rxPointers>>

-----------------------------------------------------------------------------
(* What the radio does by itself.                                          *)

\* The frame at TX_BASE_ADDR has left the antenna; the chip falls back to
\* standby and raises TxDone.
ChipTxComplete ==
  /\ opMode = "TX"
  /\ opMode' = "STDBY"
  /\ irqFlags' = irqFlags \cup {"TXDONE"}
  /\ UNCHANGED <<dioMapping, fifo, fifoPtr, rxPointers>>

\* A frame has been demodulated in continuous reception.
ChipHear(f) ==
  /\ opMode = "RXCONT"
  /\ fifo' = [fifo EXCEPT ![rxNext] = f]
  /\ rxCurrent' = rxNext /\ rxNext' = NextCell(rxNext)
  /\ irqFlags' = irqFlags \cup
       (IF f \in Bad THEN {"RXDONE", "CRCERR"} ELSE {"RXDONE"})
  /\ UNCHANGED <<opMode, dioMapping, fifoPtr>>
=============================================================================
