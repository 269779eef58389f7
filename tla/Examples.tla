------------------------------ MODULE Examples ------------------------------
(***************************************************************************)
(* The example programs over the driver of LoRa.tla: tx_main and rx_main   *)
(* of rx_explicit_example.c, tx_implicit_example.c, rx_implicit_example.c. *)
(* Each runs alone with its own radio; `program' says which one it is.     *)
(*                                                                         *)
(* Three of them end with LoRa_end, which may meet a handler at work.      *)
(* rx_main never ends: it calls LoRa_receive again and again while the     *)
(* radio is listening and the interrupt thread copies into rxbuf.          *)
(***************************************************************************)
EXTENDS LoRa, Sequences

CONSTANT MaxHeard  \* frames the radio hears (a bound)

ASSUME MaxHeardAssumption == MaxHeard \in Nat

VARIABLES
  program,       \* which of the programs runs
  pc,            \* its place
  lora_tx_done,  \* set by tx_f
  lora_rx_done,  \* set by rx_f
  heard,         \* frames heard
  printed,       \* prints of rx_main, with and without CRC error
  \* Histories, which no guard reads:
  air,           \* the place of each frame among the heard, 0 if it is not
  shown,         \* the frames printed, by their heads, but for cleared buffers
  alone          \* no other frame was on its way since rx_main saw its flag

history == <<air, shown, alone>>
programVarsButPc ==
  <<program, lora_tx_done, lora_rx_done, heard, printed, history>>
programVars == <<pc, programVarsButPc>>
vars == <<chipVars, driverVars, programVars>>

Programs == {"tx_explicit", "rx_explicit", "tx_implicit", "rx_implicit"}

TypeOK ==
  /\ ChipTypeOK /\ DriverTypeOK
  /\ program \in Programs
  /\ pc \in {"start", "send", "receive", "txwait", "rxwait", "check", "print",
             "printrest", "sleep", "end", "removed", "ended"}
  /\ lora_tx_done \in BOOLEAN /\ lora_rx_done \in BOOLEAN
  /\ heard \in 0 .. MaxHeard /\ printed \in 0 .. MaxHeard
  /\ air \in [Frames -> 0 .. MaxHeard]
  /\ shown \in Seq(Heard)
  /\ alone \in BOOLEAN

Init ==
  /\ LoRa_begin
  /\ program \in Programs /\ pc = "start"
  /\ lora_tx_done = FALSE /\ lora_rx_done = FALSE
  /\ heard = 0 /\ printed = 0
  /\ air = [f \in Frames |-> 0] /\ shown = <<>> /\ alone = FALSE

-----------------------------------------------------------------------------
(* The programs.                                                           *)

Sender == program \in {"tx_explicit", "tx_implicit"}

At(from, to) == op = "idle" /\ pc = from /\ pc' = to

Quiet == UNCHANGED <<chipVars, driverVars, program, heard, air,
                     lora_tx_done, lora_rx_done>>

\* Any payload will do: the broadcast stands for it.
Send ==
  /\ Sender
  /\ At("start", IF program = "tx_explicit" THEN "txwait" ELSE "sleep")
  /\ lora_tx_done' = FALSE
  /\ LoRa_send(Broadcast)
  /\ UNCHANGED <<program, lora_rx_done, heard, printed, history>>

\* (mutant) rx_main does not clear lora_rx_done.
ReceiveUncleared ==
  /\ ~Sender
  /\ At("start", IF program = "rx_explicit" THEN "rxwait" ELSE "sleep")
  /\ LoRa_receive
  /\ alone' = FALSE
  /\ UNCHANGED <<rxbuf, program, lora_rx_done, lora_tx_done, heard, printed,
                 air, shown>>

\* The flag is cleared while the radio may be listening; rxbuf is not cleared.
Receive ==
  /\ ~Sender
  /\ At("start", IF program = "rx_explicit" THEN "rxwait" ELSE "sleep")
  /\ lora_rx_done' = FALSE
  /\ LoRa_receive
  /\ alone' = FALSE
  /\ UNCHANGED <<rxbuf, program, lora_tx_done, heard, printed, air, shown>>

\* The two waits have no limit; tx_main then sleeps for ten minutes.
EndTxWait ==
  /\ At("txwait", "end") /\ lora_tx_done
  /\ Quiet /\ UNCHANGED <<printed, shown, alone>>

EndRxWait ==
  /\ At("rxwait", "check") /\ lora_rx_done
  /\ alone' = (isr = "idle" /\ "RXDONE" \notin irqFlags)
  /\ Quiet /\ UNCHANGED <<printed, shown>>

\* The head of the buffer is printed; a handler at its copy may have cleared it.
Show ==
  /\ printed' = printed + 1
  /\ shown' = IF rxbuf.head \in Heard THEN Append(shown, rxbuf.head) ELSE shown

\* A frame with a CRC error is printed as such, by one call of printf.
CheckCrc ==
  /\ \/ rxCRC /\ At("check", "start") /\ Show
     \/ ~rxCRC /\ At("check", "print") /\ UNCHANGED <<printed, shown>>
  /\ Quiet /\ UNCHANGED alone

\* One without is printed byte by byte: the handler may refill the buffer
\* meanwhile, so that the rest is of another frame.
PrintHead ==
  /\ At("print", "printrest")
  /\ Show
  /\ Quiet /\ UNCHANGED alone

\* `continue' follows: the answer and the retries behind it never run.
PrintRest ==
  /\ At("printrest", "start")
  /\ Quiet /\ UNCHANGED <<printed, shown, alone>>

\* (mutant) The sender does not sleep.
WakeEarly ==
  /\ At("sleep", "end")
  /\ Quiet /\ UNCHANGED <<printed, shown, alone>>

\* tx_implicit sleeps a second longer than the frame is on the air (Tpkt),
\* rx_implicit for a minute, whatever happens meanwhile.
Wake ==
  /\ At("sleep", "end")
  /\ opMode # "TX"
  /\ Quiet /\ UNCHANGED <<printed, shown, alone>>

-----------------------------------------------------------------------------
(* LoRa_end.                                                               *)

\* (mutant) The handler stays registered.
RemoveNothing ==
  /\ At("end", "removed")
  /\ Quiet /\ UNCHANGED <<printed, shown, alone>>

\* pigpio cancels the pin's thread, which ends between two handlers or where
\* the callback prints, not inside a transfer; a pending edge is dropped.
lora_remove_dioISR ==
  /\ At("end", "removed")
  /\ isr \in {"idle", "rx_cb", "tx_cb"} /\ isr' = "idle"
  /\ handler' = "none" /\ edge' = FALSE
  /\ UNCHANGED <<chipVars, isrData, rxbuf, rxCRC, op, txbuf, swT, swR,
                 programVarsButPc>>

LoRa_stop_receive ==
  /\ At("removed", "ended")
  /\ WriteOpMode("SLEEP")
  /\ UNCHANGED <<driverVars, programVarsButPc>>

Main ==
  \/ Send \/ Receive \/ EndTxWait \/ EndRxWait \/ CheckCrc
  \/ PrintHead \/ PrintRest \/ Wake
  \/ lora_remove_dioISR \/ LoRa_stop_receive
  \/ (CallStep /\ UNCHANGED programVars)

-----------------------------------------------------------------------------
(* The interrupt thread and the radio.                                     *)

\* The callbacks of the implicit examples print only.
rx_f ==
  /\ RxReturn
  /\ lora_rx_done' = (program = "rx_explicit")
  /\ UNCHANGED <<program, pc, lora_tx_done, heard, printed, history>>

tx_f ==
  /\ TxCallback
  /\ lora_tx_done' = (program = "tx_explicit")
  /\ UNCHANGED <<program, pc, lora_rx_done, heard, printed, history>>

Interrupt == rx_f \/ tx_f \/ (IsrStep /\ UNCHANGED programVars)

Transmitted == TxComplete /\ UNCHANGED programVars

\* Every frame on the air is another one: f stands for one frame, not its content.
HearFrame ==
  /\ heard < MaxHeard /\ heard' = heard + 1
  /\ \E f \in Heard :
       /\ air[f] = 0 /\ air' = [air EXCEPT ![f] = heard + 1]
       /\ Hear(f)
  /\ alone' = FALSE
  /\ UNCHANGED <<program, pc, lora_tx_done, lora_rx_done, printed, shown>>

Next == Main \/ Interrupt \/ Transmitted \/ HearFrame

\* Both threads run, sleeps end, and so does a transmission.
Fairness == WF_vars(Main) /\ WF_vars(Interrupt) /\ WF_vars(Transmitted)

Spec == Init /\ [][Next]_vars /\ Fairness

-----------------------------------------------------------------------------
(* Properties.                                                             *)

Ending == pc \in {"removed", "ended"}

\* Until LoRa_end the mode, the mapping, the handler and the antenna agree,
\* although rx_main sets them again while the radio listens.
WiredUntilEnd == Ending \/ RadioIsWired

\* Until then no frame is received whose interrupt is lost.
NeverDeafUntilEnd == Ending \/ NeverDeaf

\* The driver keeps to its places although rx_main clears its flag and calls
\* LoRa_receive while rxDoneISRf may be anywhere in its handler.
DisciplineUntilEnd == TypeOK /\ WiredUntilEnd /\ NeverDeafUntilEnd

\* LoRa_end leaves the radio asleep and no handler that could still use the SPI
\* channel it closes.
EndsAsleep ==
  pc = "ended" => opMode = "SLEEP" /\ handler = "none" /\ isr = "idle" /\ ~edge

\* LoRa_end never cuts a transmission short, and what is on the air is what
\* LoRa_send was given.
SentWhole ==
  opMode = "TX" => fifo[TX_BASE_ADDR] = txbuf /\ ~Ending /\ pc # "end"

One(place) == IF place THEN 1 ELSE 0

\* rx_main clears its flag where a handler may set it again for a frame that has
\* been printed already, so a frame may be printed twice (and another not at all).
\* But none is printed a third time, nor after one that was heard later.
PrintedInOrder ==
  \A j, k \in DOMAIN shown :
    /\ j <= k => air[shown[j]] <= air[shown[k]]
    /\ j + 2 <= k => air[shown[j]] < air[shown[k]]

\* If no other frame is on its way, from the flag that woke the loop to the print,
\* what rx_main prints as intact is one whole, undamaged frame.
PrintedIsWhole ==
  pc = "printrest" /\ alone =>
    shown # <<>> /\ shown[Len(shown)] = rxbuf.tail /\ rxbuf.tail \in Good

\* The parts that make these inductive.  A sender's radio is never touched by a
\* receiver's steps; it sends once, and until the frame is out the sender waits.
SenderInPlace ==
  Sender =>
    /\ opMode # "RXCONT" /\ handler # "rx" /\ "RXDONE" \notin irqFlags
    /\ op \notin RecvSteps /\ isr \notin RxSteps
    /\ pc \notin {"rxwait", "check", "print", "printrest"} /\ heard = 0
    /\ "TXDONE" \in irqFlags \/ isr \in TxSteps \ {"tx_flags"} \/ lora_tx_done =>
         op = "idle" /\ opMode # "TX" /\ pc # "start"
    /\ op \in SendSteps \/ opMode = "TX" => pc \in {"txwait", "sleep"} /\ swT /\ ~swR

\* LoRa_send sets everything before it starts the transmitter.
SendInOrder ==
  /\ op = "s_stdby" => opMode # "TX"
  /\ op \in SendSteps \ {"s_stdby"} => opMode = "STDBY"
  /\ op = "s_fifo" => fifoPtr = TX_BASE_ADDR
  /\ op \in {"s_map", "s_isr", "s_tx"} \/ opMode = "TX" => fifo[TX_BASE_ADDR] = txbuf
  /\ op \in {"s_isr", "s_tx"} \/ opMode = "TX" => dioMapping = "TXDONE"
  /\ op = "s_tx" \/ opMode = "TX" => handler = "tx"

\* A receiver's radio knows no transmission; mapping and handler, once set, stay.
ReceiverInPlace ==
  ~Sender =>
    /\ opMode # "TX" /\ handler # "tx" /\ "TXDONE" \notin irqFlags
    /\ op \notin SendSteps /\ isr \notin TxSteps /\ dioMapping = "RXDONE"
    /\ op \in RecvSteps => pc \in {"rxwait", "sleep"}
    /\ op \in RecvSteps \/ opMode = "RXCONT" => swR /\ ~swT
    /\ op = "r_rx" \/ (opMode = "RXCONT" /\ ~Ending) => handler = "rx"

\* A frame that has been flagged is on its way, in whatever mode the radio is while
\* it is armed again, and the FIFO holds it.
FlagIsServed ==
  "RXDONE" \in irqFlags /\ ~Ending =>
    (edge \/ isr \in RxSteps \ {"rx_cb"}) /\ fifo[rxCurrent] \in Heard

RxWhole == rxbuf.head = rxbuf.tail /\ rxbuf.head \in Heard

FrameInHandler ==
  /\ isr \in RxSteps \ {"rx_flags", "rx_cb"} => "RXDONE" \in irqFlags
  /\ isr = "rx_fifo" => fifo[fifoPtr] \in Heard
  /\ isr \in {"rx_head", "rx_tail"} => isrData \in Heard
  /\ isr = "rx_head" => rxbuf = ClearedBuf
  /\ isr = "rx_tail" => rxbuf.head = isrData
  /\ isr \in {"rx_crc", "rx_reset", "rx_cb"} => RxWhole
  /\ lora_rx_done \/ pc \in {"check", "print"} => isr \in {"rx_head", "rx_tail"} \/ RxWhole

\* rx_main prints no more often than the radio has heard frames: for each there is
\* one flag of the radio, callback, flag of the program, look and print at most.
FramesAccounted ==
  printed + One(pc \in {"check", "print"}) + One(pc = "rxwait" /\ lora_rx_done)
    + One(isr = "rx_cb") + One("RXDONE" \in irqFlags) <= heard

\* The driver, the radio or the print has the frame.
Held(f) ==
  \/ f \in {isrData, rxbuf.head, txbuf}
  \/ \E c \in Cells : fifo[c] = f
  \/ \E k \in DOMAIN shown : shown[k] = f

\* Each frame heard has a place of its own, and only frames heard are held.
AirInOrder ==
  /\ \A f \in Frames : air[f] <= heard
  /\ \A f, g \in Heard : air[f] = air[g] /\ air[f] > 0 => f = g
  /\ \A f \in Heard : Held(f) => air[f] > 0

\* What the interrupt thread has taken from the radio last.
Taken == IF isr = "rx_head" THEN isrData ELSE rxbuf.head

\* The frame that came last is always the one at rxCurrent, and a flagged one that
\* is not taken yet is newer than the one taken last: so the handler never goes
\* back, nor does the print.
TakenInOrder ==
  /\ heard > 0 /\ ~Ending => air[fifo[rxCurrent]] = heard
  /\ "RXDONE" \in irqFlags /\ isr \notin {"rx_head", "rx_tail", "rx_crc", "rx_reset"} =>
       air[Taken] < heard
  /\ isr = "rx_fifo" => air[Taken] < air[fifo[fifoPtr]]
  /\ \A k \in DOMAIN shown : air[shown[k]] <= air[Taken]

\* What may still show the frame taken last: the wake under way, the flag, and the
\* callback to come.  They are two at most, and each shows it once.
ShowsLeft ==
  One(pc \in {"check", "print"}) + One(pc = "rxwait" /\ lora_rx_done)
    + One(isr \in {"rx_head", "rx_tail", "rx_crc", "rx_reset", "rx_cb"})

ShownTwiceAtMost ==
  \A k \in DOMAIN shown :
    shown[k] = Taken => Len(shown) - k + 1 + ShowsLeft <= 2

\* The CRC error of a damaged frame is there to be read, and then in rxCRC.
DamageIsFlagged ==
  /\ "RXDONE" \in irqFlags /\ fifo[rxCurrent] \in Bad => "CRCERR" \in irqFlags
  /\ isr = "rx_fifo" /\ fifo[fifoPtr] \in Bad => "CRCERR" \in irqFlags
  /\ isr \in {"rx_head", "rx_tail"} /\ isrData \in Bad => "CRCERR" \in irqFlags
  /\ rxbuf.head \in Bad =>
       IF isr \in {"rx_tail", "rx_crc"} THEN "CRCERR" \in irqFlags ELSE rxCRC

\* If no other frame is on its way the handlers have nothing to do.
AloneIsQuiet ==
  alone =>
    /\ ~Sender
    /\ isr \in {"idle", "rx_flags"} /\ "RXDONE" \notin irqFlags /\ RxWhole
    /\ pc \in {"print", "printrest"} => rxbuf.head \in Good
    /\ pc = "printrest" => shown # <<>> /\ shown[Len(shown)] = rxbuf.head

EndInPlace ==
  /\ Ending => handler = "none" /\ isr = "idle" /\ ~edge
  /\ pc = "ended" => opMode = "SLEEP"

\* The inductive invariant of the four programs.
ExamplesInv ==
  /\ DisciplineUntilEnd
  /\ SenderInPlace /\ SendInOrder /\ ReceiverInPlace /\ FlagIsServed
  /\ FrameInHandler /\ FramesAccounted /\ EndInPlace
  /\ AirInOrder /\ TakenInOrder /\ ShownTwiceAtMost /\ PrintedInOrder
  /\ DamageIsFlagged /\ AloneIsQuiet

\* The programs that are meant to end do: nothing takes tx_main's TxDone.
ProgramEnds == program # "rx_explicit" ~> pc = "ended"

\* A frame whose RxDone is up once rx_main has cleared lora_rx_done wakes it,
\* even if LoRa_receive is only then arming the radio again.  (One that was
\* handled before the flag is cleared is never printed.)
FrameWakesLoop == pc = "rxwait" /\ "RXDONE" \in irqFlags ~> pc = "check"
=============================================================================
