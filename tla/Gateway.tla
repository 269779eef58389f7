------------------------------ MODULE Gateway -------------------------------
(***************************************************************************)
(* The access point's radio loop, main of tx_explicit_example.c, over the  *)
(* driver of LoRa.tla: broadcast, wait for TxDone, receive for a bounded   *)
(* time, check the report that came, store it, acknowledge it, repeat.     *)
(*                                                                         *)
(* rx_f and tx_f run in the interrupt thread and set one flag each; the    *)
(* loop polls the flags.  The loop reads rxbuf in several places while the *)
(* interrupt thread may be refilling it.                                   *)
(***************************************************************************)
EXTENDS LoRa

CONSTANTS
  Reports,    \* frames whose start mark is TYPE_REPORT
  EventOne,   \* frames whose event type is MOBILE_REPORT_EVENT_1
  Reserved,   \* frames whose reserved byte is set: the unit added a checksum
  WaitCount,  \* LORA_WAIT_FOR_RECEIVE_COUNT
  MaxHeard    \* frames the radio hears in one receive window (a bound)

ASSUME ReportsAssumption == {Broadcast, Ack, Blank} \cap Reports = {}
ASSUME CountAssumption == WaitCount \in Nat /\ MaxHeard \in Nat

VARIABLES
  pc,            \* the loop's place
  lora_tx_done,  \* set by tx_f
  lora_rx_done,  \* set by rx_f
  i,             \* polls of lora_rx_done in this window
  report,        \* report_packet
  event,         \* the event type the MQTT message carries
  heard          \* frames heard in this window

loopVars == <<pc, lora_tx_done, lora_rx_done, i, report, event, heard>>
vars == <<chipVars, driverVars, loopVars>>

\* Locals the loop is not using keep no value of their own.
Unused == /\ i' = 0 /\ report' = ClearedBuf /\ event' = "none"

Places == {"top", "txwait", "listen", "rxwait", "rxcheck", "crc", "copyhead",
           "copytail", "mark", "sum", "insert", "ack", "ackwait"}

LoopTypeOK ==
  /\ pc \in Places
  /\ lora_tx_done \in BOOLEAN /\ lora_rx_done \in BOOLEAN
  /\ i \in 0 .. WaitCount + 1
  /\ report \in [head : Frames, tail : Frames]
  /\ event \in {"none", "event_1", "crc_error"}
  /\ heard \in 0 .. MaxHeard

TypeOK == ChipTypeOK /\ DriverTypeOK /\ LoopTypeOK

Init ==
  /\ LoRa_begin
  /\ pc = "top"
  /\ lora_tx_done = FALSE /\ lora_rx_done = FALSE
  /\ i = 0 /\ report = ClearedBuf /\ event = "none" /\ heard = 0

-----------------------------------------------------------------------------
(* The loop.  It moves only when it is in no call of the driver.           *)

At(from, to) == op = "idle" /\ pc = from /\ pc' = to

radioVars == <<chipVars, driverVars>>

\* (mutant) lora_tx_done keeps its value.
SendUncleared(f, from, to) ==
  /\ At(from, to)
  /\ LoRa_send(f)
  /\ Unused
  /\ UNCHANGED <<lora_tx_done, lora_rx_done, heard>>

\* lora_tx_done is cleared, then the frame is handed to the driver.
Send(f, from, to) ==
  /\ At(from, to)
  /\ LoRa_send(f)
  /\ lora_tx_done' = FALSE
  /\ Unused
  /\ UNCHANGED <<lora_rx_done, heard>>

SendBroadcast == Send(Broadcast, "top", "txwait")

\* Both waits for lora_tx_done poll without a limit.
TxDone(from, to) ==
  /\ At(from, to)
  /\ lora_tx_done
  /\ UNCHANGED <<radioVars, lora_tx_done, lora_rx_done, i, report, event, heard>>

BroadcastDone == TxDone("txwait", "listen")

PollTx ==
  /\ pc \in {"txwait", "ackwait"}
  /\ At(pc, pc)
  /\ ~lora_tx_done
  /\ UNCHANGED <<radioVars, lora_tx_done, lora_rx_done, i, report, event, heard>>

\* (mutant) Flag and buffer keep what the last window left in them.
StartReceiveStale ==
  /\ At("listen", "rxwait")
  /\ LoRa_receive /\ UNCHANGED rxbuf
  /\ heard' = 0
  /\ UNCHANGED <<lora_tx_done, lora_rx_done, i, report, event>>

StartReceive ==
  /\ At("listen", "rxwait")
  /\ rxbuf' = ClearedBuf
  /\ lora_rx_done' = FALSE
  /\ LoRa_receive
  /\ heard' = 0
  /\ UNCHANGED <<lora_tx_done, i, report, event>>

\* (mutant) The polls are not counted.
PollRxUncounted ==
  /\ At("rxwait", "rxwait")
  /\ ~lora_rx_done /\ i <= WaitCount
  /\ UNCHANGED <<radioVars, loopVars>>

PollRx ==
  /\ At("rxwait", "rxwait")
  /\ ~lora_rx_done /\ i <= WaitCount
  /\ i' = i + 1
  /\ UNCHANGED <<radioVars, lora_tx_done, lora_rx_done, report, event, heard>>

\* The wait ends because the flag is set or because the polls are used up.
EndWait ==
  /\ At("rxwait", "rxcheck")
  /\ lora_rx_done \/ i > WaitCount
  /\ Unused
  /\ UNCHANGED <<radioVars, lora_tx_done, lora_rx_done, heard>>

LoopStep(from, to) ==
  /\ At(from, to)
  /\ UNCHANGED <<radioVars, lora_tx_done, lora_rx_done, i, heard>>

\* The flag is read again after the wait: it may have been set meanwhile.
CheckReceived ==
  /\ \/ lora_rx_done /\ LoopStep("rxcheck", "crc")
     \/ ~lora_rx_done /\ LoopStep("rxcheck", "top")
  /\ UNCHANGED <<report, event>>

\* (mutant) modem.rx.data.CRC is not looked at.
CheckCrcSkipped ==
  /\ LoopStep("crc", "copyhead")
  /\ UNCHANGED <<report, event>>

CheckCrc ==
  /\ \/ rxCRC /\ LoopStep("crc", "top")
     \/ ~rxCRC /\ LoopStep("crc", "copyhead")
  /\ UNCHANGED <<report, event>>

CopyHead ==
  /\ LoopStep("copyhead", "copytail")
  /\ report' = [report EXCEPT !.head = rxbuf.head]
  /\ UNCHANGED event

CopyTail ==
  /\ LoopStep("copytail", "mark")
  /\ report' = [report EXCEPT !.tail = rxbuf.tail]
  /\ UNCHANGED event

CheckStartMark ==
  \/ /\ report.head \in Reports
     /\ LoopStep("mark", "sum")
     /\ UNCHANGED <<report, event>>
  \/ /\ report.head \notin Reports
     /\ At("mark", "top")
     /\ Unused
     /\ UNCHANGED <<radioVars, lora_tx_done, lora_rx_done, heard>>

\* The values crcReceived may have: only an undamaged frame whose unit adds a
\* checksum, read whole, is known to sum to zero.
SumsToZero(buf) ==
  IF buf.head = buf.tail /\ buf.head \in Good \cap Reserved
  THEN {TRUE} ELSE BOOLEAN

\* (mutant) The sense of crcReceived is inverted.
CheckSumInverted ==
  /\ \/ /\ report.head \in EventOne
        /\ LoopStep("sum", "insert")
        /\ \E zero \in SumsToZero(rxbuf) :
             event' = IF zero /\ report.tail \in Reserved
                      THEN "crc_error" ELSE "event_1"
     \/ /\ report.head \notin EventOne
        /\ LoopStep("sum", "ack")
        /\ UNCHANGED event
  /\ UNCHANGED report

\* crcReceived is summed over rxbuf, the other fields come from report_packet.
CheckSum ==
  /\ \/ /\ report.head \in EventOne
        /\ LoopStep("sum", "insert")
        /\ \E zero \in SumsToZero(rxbuf) :
             event' = IF ~zero /\ report.tail \in Reserved
                      THEN "crc_error" ELSE "event_1"
     \/ /\ report.head \notin EventOne
        /\ LoopStep("sum", "ack")
        /\ UNCHANGED event
  /\ UNCHANGED report

\* Whatever sqlite3_exec returns, the acknowledgement follows.
InsertReport ==
  /\ LoopStep("insert", "ack")
  /\ UNCHANGED <<report, event>>

SendAck == Send(Ack, "ack", "ackwait")

AckDone == TxDone("ackwait", "top")

Loop ==
  \/ SendBroadcast \/ PollTx \/ BroadcastDone \/ StartReceive \/ PollRx \/ EndWait
  \/ CheckReceived \/ CheckCrc \/ CopyHead \/ CopyTail \/ CheckStartMark
  \/ CheckSum \/ InsertReport \/ SendAck \/ AckDone

Main == Loop \/ (CallStep /\ UNCHANGED loopVars)

-----------------------------------------------------------------------------
(* The interrupt thread, with the program's callbacks.                     *)

localVars == <<pc, i, report, event, heard>>

\* (mutant) The flag is set in the branch of the CRC error only.
rx_fOnErrorOnly ==
  /\ RxReturn
  /\ lora_rx_done' = rxCRC
  /\ UNCHANGED <<localVars, lora_tx_done>>

\* rx_f sets the flag whether or not the CRC was right.
rx_f ==
  /\ RxReturn
  /\ lora_rx_done' = TRUE
  /\ UNCHANGED <<localVars, lora_tx_done>>

tx_f ==
  /\ TxCallback
  /\ lora_tx_done' = TRUE
  /\ UNCHANGED <<localVars, lora_rx_done>>

Interrupt == rx_f \/ tx_f \/ (IsrStep /\ UNCHANGED loopVars)

-----------------------------------------------------------------------------
(* The radio.                                                              *)

Transmitted == TxComplete /\ UNCHANGED loopVars

HearFrame ==
  /\ heard < MaxHeard
  /\ heard' = heard + 1
  /\ \E f \in Heard : Hear(f)
  /\ UNCHANGED <<pc, lora_tx_done, lora_rx_done, i, report, event>>

Next == Main \/ Interrupt \/ Transmitted \/ HearFrame

Spec == Init /\ [][Next]_vars

\* Both threads are scheduled and a started transmission ends; nobody has to
\* send a report.
Fairness == WF_vars(Main) /\ WF_vars(Interrupt) /\ WF_vars(Transmitted)

FairSpec == Spec /\ Fairness

-----------------------------------------------------------------------------
(* What the loop relies on, however the two threads interleave.            *)

Sending == pc \in {"txwait", "ackwait"}

\* lora_tx_done never tells the loop that a frame has left while that frame
\* is still being handed to the radio or is on the air.
TxDoneIsGenuine == Sending /\ lora_tx_done => op = "idle" /\ opMode # "TX"

\* When the loop opens a receive window nothing of an earlier frame is left
\* anywhere: not in the radio's flags, in the buffer or in the interrupt thread,
\* which a leftover edge may at most have brought to its first test.
RxBusy == RxSteps \ {"rx_flags"}

WindowStartsEmpty ==
  /\ pc = "listen" => "RXDONE" \notin irqFlags /\ isr \notin RxBusy
  /\ op \in RecvSteps =>
       /\ "RXDONE" \notin irqFlags /\ isr \notin RxBusy
       /\ ~lora_rx_done /\ rxbuf = ClearedBuf

\* The parts that make these inductive.  A call of the driver is made at one
\* place of the loop, with the flag it waits for cleared.
CallInPlace ==
  /\ op \in SendSteps => Sending /\ ~lora_tx_done /\ swT /\ ~swR
  /\ op \in RecvSteps => pc = "rxwait" /\ swR /\ ~swT
  /\ op \in {"s_isr", "s_tx"} => dioMapping = "TXDONE"
  /\ op = "s_tx" => handler = "tx"
  /\ op \in {"r_isr", "r_rx"} => dioMapping = "RXDONE"
  /\ op = "r_rx" => handler = "rx"

\* TxDone is up, or txDoneISRf has seen it and not yet called back.
TxEnding == "TXDONE" \in irqFlags \/ isr \in {"tx_reset", "tx_cb"}

\* From the start of a transmission until its callback the loop waits.
TransmitWaits ==
  /\ opMode = "TX" \/ TxEnding => Sending /\ op = "idle" /\ ~lora_tx_done
  /\ TxEnding => opMode # "TX"
  /\ isr = "tx_cb" => {"TXDONE", "RXDONE"} \cap irqFlags = {}

\* The radio listens from the end of LoRa_receive until LoRa_send stops it.
ListensInPlace ==
  opMode = "RXCONT" =>
    \/ op = "idle" /\ pc \notin {"txwait", "ackwait", "listen"}
    \/ op = "s_stdby"

\* Once a frame has left, nothing received earlier is still in the radio.
SentMeansQuiet ==
  Sending /\ lora_tx_done => "RXDONE" \notin irqFlags /\ isr \notin RxBusy

Discipline ==
  /\ RadioIsWired /\ WindowStartsEmpty /\ NeverDeaf
  /\ CallInPlace /\ TransmitWaits /\ ListensInPlace /\ SentMeansQuiet

\* Whatever of a frame is in the radio, the interrupt thread, the flag or the
\* loop was heard in the window the loop is in, or is looking at.
Looking == {"crc", "copyhead", "copytail", "mark", "sum", "insert"}

OfThisWindow ==
  /\ pc \in {"rxwait", "rxcheck"} =>
       (lora_rx_done \/ isr \in RxBusy \/ "RXDONE" \in irqFlags => heard > 0)
  /\ pc \in Looking => heard > 0

\* What rxbuf holds was received in one piece, and a CRC error is known.
RxWhole == rxbuf.head = rxbuf.tail /\ (rxbuf.head \in Bad => rxCRC)

\* The one frame of a window on its way: it is in the radio,
FrameInRadio ==
  "RXDONE" \in irqFlags =>
    /\ ~lora_rx_done /\ isr # "rx_cb"
    /\ rxCurrent = RX_BASE_ADDR
    /\ fifo[RX_BASE_ADDR] \in Bad => "CRCERR" \in irqFlags

\* in rxDoneISRf,
FrameInHandler ==
  /\ isr \in RxBusy \ {"rx_cb"} => "RXDONE" \in irqFlags
  /\ isr = "rx_fifo" => fifoPtr = RX_BASE_ADDR
  /\ isr \in {"rx_head", "rx_tail"} /\ isrData \in Bad => "CRCERR" \in irqFlags
  /\ isr = "rx_tail" => rxbuf.head = isrData
  /\ isr = "rx_crc" =>
       rxbuf.head = rxbuf.tail /\ (rxbuf.head \in Bad => "CRCERR" \in irqFlags)
  /\ isr \in {"rx_reset", "rx_cb"} => RxWhole

\* or in the loop, which looks at it once the flag is set.
FrameInLoop ==
  /\ lora_rx_done => RxWhole /\ isr # "rx_cb"
  /\ pc \in Looking => lora_rx_done
  /\ pc \in Looking \ {"crc"} => ~rxCRC
  /\ pc = "copytail" => report.head = rxbuf.head
  /\ pc \in {"mark", "sum", "insert"} =>
       report.head = rxbuf.head /\ report.tail = rxbuf.tail
  /\ pc \in {"sum", "insert"} => report.head \in Reports
  /\ pc = "insert" /\ report.head \in Good \cap Reserved => event = "event_1"

OneFrame ==
  pc \in {"rxwait", "rxcheck"} \cup Looking /\ heard <= 1 =>
    /\ heard = 0 /\ opMode = "RXCONT" => rxNext = RX_BASE_ADDR
    /\ FrameInRadio /\ FrameInHandler /\ FrameInLoop

\* The inductive invariant: the loop and the interrupt thread keep to their
\* places, and to the frame of the window, whatever the interleaving of
\* LoRa_send, LoRa_receive, rxDoneISRf and txDoneISRf.
IInv == TypeOK /\ Discipline /\ OfThisWindow /\ OneFrame

\* What is stored was received whole and undamaged, as long as no second frame
\* came in the same window.
GenuineReport ==
  pc = "insert" /\ heard <= 1 => report.head = report.tail /\ report.head \in Good

\* Nothing is stored from a window in which the radio heard nothing: no flag,
\* buffer or interrupt of an earlier window is taken for a report of this one.
FreshReport == pc = "insert" => heard > 0

\* A report whose checksum is right is not stored as MOBILE_REPORT_CRC_ERROR,
\* as long as no second frame came in the same window.
HonestVerdict ==
  pc = "insert" /\ heard <= 1 /\ report.head \in Good \cap Reserved =>
    event = "event_1"

\* The receive window closes by itself, whether or not a report comes.
WindowCloses == pc = "rxwait" ~> pc # "rxwait"

-----------------------------------------------------------------------------
(* What the comments of the loop take for granted.                         *)

\* "tx done, start to receive": a broadcast ends and the loop goes on.
TransmitCompletes == pc = "txwait" ~> pc = "listen"

\* "Wait for RPT": while the loop waits for a report the radio listens.
ListensWhileWaiting == pc = "rxwait" /\ op = "idle" => opMode = "RXCONT"

\* "send out boardcast packet": what is on the air is what LoRa_send was given.
OnAirIsRequested == opMode = "TX" => fifo[TX_BASE_ADDR] = txbuf

\* "crc error, discard": a frame with a wrong CRC is not stored.
CrcErrorIsDiscarded == pc = "insert" => report.head \notin Bad
=============================================================================
