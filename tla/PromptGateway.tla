--------------------------- MODULE PromptGateway ----------------------------
(***************************************************************************)
(* Gateway with and without the timing its authors test with: an interrupt *)
(* thread so much faster than the loop that a handler, once its edge is    *)
(* there, runs to its end before the loop's next step.  Nothing in the     *)
(* code makes it so; the properties here name the promises that rest on it.*)
(***************************************************************************)
EXTENDS Gateway

VARIABLE prompt  \* whether the interrupt thread is that fast

timedVars == <<vars, prompt>>

TimedInit == Init /\ prompt \in BOOLEAN

TimedMain ==
  /\ prompt => isr = "idle" /\ ~edge
  /\ Main
  /\ UNCHANGED prompt

TimedNext ==
  TimedMain \/ ((Interrupt \/ Transmitted \/ HearFrame) /\ UNCHANGED prompt)

TimedSpec ==
  /\ TimedInit /\ [][TimedNext]_timedVars
  /\ WF_timedVars(TimedMain)
  /\ WF_timedVars(Interrupt /\ UNCHANGED prompt)
  /\ WF_timedVars(Transmitted /\ UNCHANGED prompt)

\* With a prompt interrupt thread ...
\* ... the radio listens while the loop waits for a report,
PromptListens == prompt => ListensWhileWaiting

\* ... the frame on the air is the one LoRa_send was given,
PromptOnAir == prompt => OnAirIsRequested

\* ... a broadcast comes to its end,
PromptCompletes == prompt /\ pc = "txwait" ~> pc = "listen"

\* ... and an undamaged report that comes while the loop waits for one is
\* acknowledged, unless a second frame comes in the same window.
PromptAnswers ==
  prompt /\ pc = "rxwait" /\ op = "idle" /\ isr = "rx_addr"
    /\ fifo[rxCurrent] \in Good \cap Reports
      ~> pc = "ackwait" \/ heard > 1

\* What makes the first two inductive.  The loop still waits while txDoneISRf puts
\* the radio to sleep, and while LoRa_send loads the frame no handler runs.
SleepsInTime == isr = "tx_sleep" => Sending

LoadsUndisturbed ==
  /\ op \in SendSteps \ {"s_stdby"} => isr = "idle" /\ ~edge /\ opMode = "STDBY"
  /\ op = "s_fifo" => fifoPtr = TX_BASE_ADDR
  /\ op \in {"s_map", "s_isr", "s_tx"} => fifo[TX_BASE_ADDR] = txbuf
  /\ opMode = "TX" => isr = "idle" /\ ~edge

\* The inductive invariant of the timed gateway.
TimedInv ==
  /\ IInv /\ prompt \in BOOLEAN
  /\ prompt => SleepsInTime /\ LoadsUndisturbed
  /\ PromptListens /\ PromptOnAir
=============================================================================
