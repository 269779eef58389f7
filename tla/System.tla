------------------------------- MODULE System -------------------------------
(***************************************************************************)
(* The whole access point: the radio loop of Gateway.tla storing into the  *)
(* database of Outbox.tla, which the publisher thread empties.  main sets  *)
(* the database up first and then begins with the radio; the loop stops at *)
(* its INSERT until it has the mutex, while the radio goes on hearing; the *)
(* process may die and start again, which resets the radio but not the     *)
(* table.                                                                  *)
(*                                                                         *)
(* The interrupt thread is prompt (see PromptGateway): a transmission that *)
(* never completes would stop everything else here.  The publisher shares  *)
(* nothing with it, so its steps, too, are taken between two handlers.     *)
(***************************************************************************)
EXTENDS Gateway, Sequences

CONSTANTS MaxRows, MaxFaults  \* as in Outbox

ASSUME BoundsAssumption == MaxRows \in Nat /\ MaxFaults \in Nat

VARIABLES
  db, unsent, sent, nextId, boot, publisher, mutex, main, pub, row, handed,
  faults,   \* as in Outbox
  message,  \* mqtt_message; the frames heard and failures when it was formatted
  content   \* the messages of the rows, by their ID

Db == INSTANCE Outbox

storeVars == <<db, unsent, sent, nextId, boot, publisher, mutex, main, pub,
               row, handed, faults>>
systemVars == <<vars, storeVars, message, content>>

Messages == [report : [head : Frames, tail : Frames],
             event : {"none", "event_1", "crc_error"}, heard : 0 .. MaxHeard,
             faults : 0 .. MaxFaults]

NoMessage == [report |-> ClearedBuf, event |-> "none", heard |-> 0, faults |-> 0]

SystemTypeOK ==
  /\ TypeOK /\ Db!TypeOK
  /\ message \in Messages
  /\ content \in Seq(Messages) /\ Len(content) = nextId - 1

SystemInit == Init /\ Db!Init /\ message = NoMessage /\ content = <<>>

-----------------------------------------------------------------------------
(* The radio loop, once thread_pub_db has returned.                        *)

Calm == isr = "idle" /\ ~edge

Running == boot = "done" /\ Calm

RadioStep ==
  /\ Running
  /\ pc # "insert" /\ Main /\ pc' # "insert"
  /\ UNCHANGED <<storeVars, message, content>>

\* The message is formatted before the mutex is asked for.
FormatMessage ==
  /\ Running
  /\ CheckSum /\ pc' = "insert"
  /\ Db!Report
  /\ message' = [report |-> report, event |-> event', heard |-> heard,
                 faults |-> faults]
  /\ UNCHANGED content

\* (mutant) The mutex is tried and the INSERT left out if it is taken.
EnterMutexOrSkip ==
  /\ Running
  /\ \/ Db!MainEnter /\ UNCHANGED vars
     \/ /\ mutex = "pub" /\ main = "enter" /\ main' = "radio"
        /\ InsertReport
        /\ UNCHANGED <<db, unsent, sent, nextId, boot, publisher, mutex, pub, row,
                       handed, faults>>
  /\ UNCHANGED <<message, content>>

EnterMutex ==
  /\ Running
  /\ Db!MainEnter
  /\ UNCHANGED <<vars, message, content>>

\* (mutant) The message is formatted only now, from rxbuf.
InsertRowLate ==
  /\ Running
  /\ InsertReport
  /\ Db!Insert
  /\ content' = IF nextId' = nextId THEN content
                ELSE Append(content, [message EXCEPT !.report = rxbuf])
  /\ UNCHANGED message

\* (mutant) A failed INSERT is taken for a row.
InsertRowAlways ==
  /\ Running
  /\ InsertReport
  /\ Db!Insert
  /\ content' = Append(content, message)
  /\ UNCHANGED message

InsertRow ==
  /\ Running
  /\ InsertReport
  /\ Db!Insert
  /\ content' = IF nextId' = nextId THEN content ELSE Append(content, message)
  /\ UNCHANGED message

-----------------------------------------------------------------------------
(* The other threads and the radio.                                        *)

Store(A) == Calm /\ A /\ UNCHANGED <<vars, message, content>>

Radio(A) == A /\ UNCHANGED <<storeVars, message, content>>

\* Bounds: no more frames come than there is room for rows, and they come where
\* the loop stands still, one while it polls and another while it waits for the
\* mutex; those that come between two of its steps are in Gateway.
HearReport ==
  /\ nextId <= MaxRows
  /\ \/ pc = "rxwait" /\ heard = 0
     \/ pc = "insert" /\ heard > 0
  /\ HearFrame

\* What the next life finds: LoRa_begin resets the radio.
RadioReset ==
  /\ opMode' = "SLEEP" /\ irqFlags' = {} /\ dioMapping' = "RXDONE"
  /\ fifo' = [c \in Cells |-> Blank] /\ fifoPtr' = TX_BASE_ADDR
  /\ rxNext' = RX_BASE_ADDR /\ rxCurrent' = RX_BASE_ADDR
  /\ edge' = FALSE /\ handler' = "none" /\ isr' = "idle"
  /\ isrData' = Blank /\ rxbuf' = ClearedBuf /\ rxCRC' = FALSE
  /\ op' = "idle" /\ txbuf' = Blank /\ swT' = FALSE /\ swR' = FALSE
  /\ pc' = "top" /\ lora_tx_done' = FALSE /\ lora_rx_done' = FALSE
  /\ Unused /\ heard' = 0

Dies ==
  /\ Calm /\ Db!Crash
  /\ RadioReset
  /\ message' = NoMessage
  /\ UNCHANGED content

SystemNext ==
  \/ RadioStep \/ FormatMessage \/ EnterMutex \/ InsertRow
  \/ Store(Db!Setup) \/ Store(Db!Restart)
  \/ Store(Db!PubEnter) \/ Store(Db!Publisher)
  \/ Radio(Interrupt) \/ Radio(Transmitted) \/ Radio(HearReport)
  \/ Dies

\* As in Gateway and Uplink; a publish returns unless it hangs.  Strong where
\* Calm comes and goes although the thread is ready all the time.
SystemFairness ==
  /\ WF_systemVars(RadioStep) /\ WF_systemVars(FormatMessage)
  /\ SF_systemVars(EnterMutex) /\ SF_systemVars(InsertRow)
  /\ WF_systemVars(Store(Db!Setup)) /\ WF_systemVars(Store(Db!Restart))
  /\ SF_systemVars(Store(Db!PubEnter)) /\ SF_systemVars(Store(Db!Publisher))
  /\ WF_systemVars(Radio(Interrupt)) /\ WF_systemVars(Radio(Transmitted))

SystemSpec == SystemInit /\ [][SystemNext]_systemVars /\ SystemFairness

-----------------------------------------------------------------------------
(* Properties.                                                             *)

Stored(m) == content # <<>> /\ content[Len(content)] = m

\* Nothing has failed since the message was formatted, nor when this life set the
\* database up.
Undisturbed == faults = message.faults /\ Db!Usable

\* A MOBILE_REPORT_EVENT_1 is acknowledged only after its own message has become
\* the newest row of the table, in any life of the process, unless that life has
\* no table or something failed since the message was formatted.
AckedIsStored ==
  pc = "ack" /\ report.head \in EventOne =>
    \/ Stored(message) /\ message.report = report
    \/ ~ Undisturbed

\* A whole, undamaged frame with an honest verdict, if no second frame had come
\* when the message was formatted.
Genuine(m) ==
  m.heard <= 1 =>
    /\ m.report.head = m.report.tail /\ m.report.head \in Good
    /\ m.report.head \in Reserved => m.event = "event_1"

\* What is stored is genuine in this sense, whatever the radio heard while the
\* loop waited for the publisher to give up the mutex.
StoredIsGenuine == \A k \in DOMAIN content : Genuine(content[k])

\* The parts that make these inductive.  The loop begins once the database has
\* been set up; it stands at its INSERT as long as the table's side does, with the
\* message of the report it will acknowledge.
InsertPending ==
  /\ boot # "done" => pc = "top"
  /\ main # "radio" <=> pc = "insert"
  /\ pc = "insert" =>
       message.report = report /\ report.head \in EventOne /\ Genuine(message)
  /\ message.faults <= faults

\* As long as nothing has failed there is a table once the loop runs.
TableIsThere ==
  faults = 0 =>
    /\ boot # "down" /\ (boot = "done" => Db!Usable)
    /\ boot = "open" => db # "empty"

\* The inductive invariant of the composition: that of the radio loop, that of
\* the table, and what ties them together.
SystemInv ==
  /\ SystemTypeOK /\ IInv /\ Db!QueueInv
  /\ InsertPending /\ TableIsThere
  /\ AckedIsStored /\ StoredIsGenuine

\* An acknowledged report reaches an MQTT connection, whatever fails before its
\* message is formatted or after the acknowledgement, unless there is an end to
\* it: a publish that hangs, or a life that could not open the file.
AckedIsForwarded ==
  \A id \in 1 .. MaxRows :
    pc = "ack" /\ report.head \in EventOne /\ Undisturbed /\ nextId = id + 1
      ~> id \in Db!Handed \/ [](pub = "stuck" \/ Db!NoPublisher)

\* The mobile unit's report is answered although the publisher holds the mutex
\* over its exchange with the server, unless that hangs or the process dies.
StoringEnds == pc = "insert" ~> pc = "ackwait" \/ pub = "stuck" \/ boot = "down"
=============================================================================
