---------------------------- MODULE SystemProofs ----------------------------
(***************************************************************************)
(* Proofs about System: the composition takes steps of the radio loop and  *)
(* steps of the table, so that the invariants of both hold in it, across   *)
(* crashes; from these and what ties the two together, an acknowledged     *)
(* report has been stored, and a stored one is genuine.  The variable      *)
(* prompt, which PromptGateway brings along, occurs in none of them.       *)
(***************************************************************************)
EXTENDS System, GatewayProofs

DbProofs == INSTANCE OutboxProofs

-----------------------------------------------------------------------------
(* Steps of the composition as steps of its parts.                         *)

LEMMA StepOfTable == [SystemNext]_systemVars => [Db!Next]_(Db!vars)
<1> SUFFICES ASSUME [SystemNext]_systemVars PROVE [Db!Next]_(Db!vars)
  OBVIOUS
<1> USE DEF storeVars, Db!vars, Db!table, Db!Next
<1>1. CASE RadioStep
  BY <1>1 DEF RadioStep
<1>2. CASE FormatMessage \/ EnterMutex \/ InsertRow
  BY <1>2 DEF FormatMessage, EnterMutex, InsertRow
<1>3. CASE \/ Store(Db!Setup) \/ Store(Db!Restart)
           \/ Store(Db!PubEnter) \/ Store(Db!Publisher)
  BY <1>3 DEF Store
<1>4. CASE Radio(Interrupt) \/ Radio(Transmitted) \/ Radio(HearReport)
  BY <1>4 DEF Radio
<1>5. CASE Dies
  BY <1>5 DEF Dies
<1>6. CASE UNCHANGED systemVars
  BY <1>6 DEF systemVars
<1> QED
  BY <1>1, <1>2, <1>3, <1>4, <1>5, <1>6 DEF SystemNext

LEMMA ResetIsInit == RadioReset => Init'
  BY DEF RadioReset, Init, LoRa_begin, ChipInit, Unused, ClearedBuf, rxPointers

\* Every step of the radio loop's variables is one of its own or a new start.
LEMMA StepOfLoop == [SystemNext]_systemVars => [Next]_vars \/ Init'
<1> SUFFICES ASSUME [SystemNext]_systemVars PROVE [Next]_vars \/ Init'
  OBVIOUS
<1> USE DEF Next, vars, chipVars, driverVars, loopVars, rxPointers
<1>1. CASE RadioStep
  BY <1>1 DEF RadioStep
<1>2. CASE FormatMessage \/ InsertRow
  BY <1>2 DEF FormatMessage, InsertRow, Main, Loop
<1>3. CASE EnterMutex
  BY <1>3 DEF EnterMutex
<1>4. CASE \/ Store(Db!Setup) \/ Store(Db!Restart)
           \/ Store(Db!PubEnter) \/ Store(Db!Publisher)
  BY <1>4 DEF Store
<1>5. CASE Radio(Interrupt) \/ Radio(Transmitted) \/ Radio(HearReport)
  BY <1>5 DEF Radio, HearReport
<1>6. CASE Dies
  BY <1>6, ResetIsInit DEF Dies
<1>7. CASE UNCHANGED systemVars
  BY <1>7 DEF systemVars
<1> QED
  BY <1>1, <1>2, <1>3, <1>4, <1>5, <1>6, <1>7 DEF SystemNext

-----------------------------------------------------------------------------
(* The table's invariant.  Db and DbProofs are two instances of the same   *)
(* definitions; the first lemmas only say so.                              *)

LEMMA SameInit == Db!Init => DbProofs!Init
  BY DEF Db!Init, DbProofs!Init

LEMMA SameNext == [Db!Next]_(Db!vars) => [DbProofs!Next]_(DbProofs!vars)
<1> USE DEF Db!table, DbProofs!table, Db!threads, DbProofs!threads,
            Db!Fault, DbProofs!Fault
<1>1. Db!Setup => DbProofs!Setup
  BY DEF
    Db!Setup, DbProofs!Setup, Db!OpenExisting, DbProofs!OpenExisting,
    Db!CreateFile, DbProofs!CreateFile, Db!OpenAgain, DbProofs!OpenAgain,
    Db!CreateTable, DbProofs!CreateTable,
    Db!OpenFails, DbProofs!OpenFails
<1>2. Db!Report \/ Db!MainEnter \/ Db!Insert =>
        DbProofs!Report \/ DbProofs!MainEnter \/ DbProofs!Insert
  BY DEF
    Db!Report, DbProofs!Report, Db!MainEnter, DbProofs!MainEnter, Db!Insert,
    DbProofs!Insert, Db!Usable, DbProofs!Usable, Db!MainGoto, DbProofs!MainGoto
<1>3. Db!PubEnter \/ Db!Publisher => DbProofs!PubEnter \/ DbProofs!Publisher
  BY DEF
    Db!PubEnter, DbProofs!PubEnter, Db!Publisher, DbProofs!Publisher,
    Db!PubGoto, DbProofs!PubGoto, Db!SelectOldest, DbProofs!SelectOldest,
    Db!SelectNone, DbProofs!SelectNone, Db!SelectFails, DbProofs!SelectFails,
    Db!Publish, DbProofs!Publish, Db!PublishReturns, DbProofs!PublishReturns,
    Db!PublishFails, DbProofs!PublishFails, Db!PublishHangs,
    DbProofs!PublishHangs, Db!Update, DbProofs!Update, Db!DeleteOld,
    DbProofs!DeleteOld
<1>4. Db!Crash \/ Db!Restart => DbProofs!Crash \/ DbProofs!Restart
  BY DEF
    Db!Crash, DbProofs!Crash, Db!Die, DbProofs!Die, Db!Restart,
    DbProofs!Restart
<1> QED
  BY <1>1, <1>2, <1>3, <1>4 DEF Db!Next, DbProofs!Next, Db!vars, DbProofs!vars

LEMMA SameQueueInv ==
  (DbProofs!QueueInv <=> Db!QueueInv) /\ (DbProofs!QueueInv' <=> Db!QueueInv')
  BY DEF
    Db!QueueInv, DbProofs!QueueInv, Db!TypeOK, DbProofs!TypeOK, Db!RowIsOldest,
    DbProofs!RowIsOldest, Db!IdsInUse, DbProofs!IdsInUse, Db!UnsentComeLater,
    DbProofs!UnsentComeLater, Db!NoUnsentLoss, DbProofs!NoUnsentLoss,
    Db!HandedInOrder, DbProofs!HandedInOrder, Db!Handed, DbProofs!Handed,
    Db!Ids, DbProofs!Ids

LEMMA InitTable == Db!Init => Db!QueueInv
<1>1. DbProofs!Init => DbProofs!QueueInv
  BY BoundsAssumption, DbProofs!InitInv DEF DbProofs!BoundsAssumption
<1> QED
  BY <1>1, SameInit, SameQueueInv

LEMMA NextTable == Db!QueueInv /\ [SystemNext]_systemVars => Db!QueueInv'
<1>1. DbProofs!QueueInv /\ [DbProofs!Next]_(DbProofs!vars) => DbProofs!QueueInv'
  BY BoundsAssumption, DbProofs!NextInv DEF DbProofs!BoundsAssumption
<1> QED
  BY <1>1, SameNext, SameQueueInv, StepOfTable

-----------------------------------------------------------------------------
(* The radio loop's invariant: a new start re-establishes it.              *)

LEMMA InitInvPrimed == Init' => IInv'
  BY InitInv, PTL

LEMMA NextLoop == IInv /\ [SystemNext]_systemVars => IInv'
  BY StepOfLoop, NextInv, InitInvPrimed

-----------------------------------------------------------------------------
(* What ties the two together.                                             *)

Tie ==
  /\ message \in Messages /\ content \in Seq(Messages) /\ Len(content) = nextId - 1
  /\ InsertPending /\ TableIsThere /\ AckedIsStored /\ StoredIsGenuine

Parts == IInv /\ Db!QueueInv /\ Tie

LEMMA PartsMakeIt ==
  (Parts <=> SystemInv) /\ (Parts' <=> SystemInv')
  BY DEF Parts, Tie, SystemInv, SystemTypeOK, IInv, Db!QueueInv

USE DEF InsertPending, TableIsThere, AckedIsStored, StoredIsGenuine, Genuine,
        Stored, Undisturbed, Db!Usable

LEMMA InitTie == SystemInit => Tie
<1> SUFFICES ASSUME SystemInit PROVE Tie
  OBVIOUS
<1>1. message \in Messages
  BY CountAssumption, BoundsAssumption
  DEF SystemInit, NoMessage, Messages, ClearedBuf, Frames
<1>2. content = <<>> /\ nextId = 1 /\ pc = "top" /\ main = "radio"
  BY DEF SystemInit, Init, Db!Init
<1>3. boot = "open" /\ db \in {"absent", "ready"}
  BY DEF SystemInit, Db!Init
<1>4. message.faults <= faults
  BY DEF SystemInit, NoMessage, Db!Init
<1> QED
  BY <1>1, <1>2, <1>3, <1>4 DEF Tie

\* The loop comes to its acknowledgement without an INSERT only with a report
\* that is not stored.
LEMMA RadioTie == Parts /\ RadioStep => Tie'
<1> SUFFICES ASSUME Parts, RadioStep PROVE Tie'
  OBVIOUS
<1> USE DEF Parts, Tie, RadioStep, storeVars
<1>1. CASE CallStep /\ UNCHANGED loopVars
  BY <1>1 DEF loopVars
<1>2. CASE Loop
  <2>1. pc' = "ack" => report'.head \notin EventOne
    BY <1>2 DEF Loop, At, LoopStep, SendBroadcast, SendAck, Send, PollTx,
       BroadcastDone, AckDone, TxDone, StartReceive, PollRx, EndWait,
       CheckReceived, CheckCrc, CopyHead, CopyTail, CheckStartMark, CheckSum,
       InsertReport
  <2>2. boot = "done"
    BY DEF Running
  <2> QED
    BY <2>1, <2>2
<1> QED
  BY <1>1, <1>2 DEF Main

\* The message is formatted from the report the loop has checked.
LEMMA FormatTie == Parts /\ IInv' /\ FormatMessage => Tie'
<1> SUFFICES ASSUME Parts, IInv', FormatMessage PROVE Tie'
  OBVIOUS
<1> USE DEF Parts, Tie, FormatMessage
<1>1. /\ pc' = "insert" /\ UNCHANGED <<report, heard>>
      /\ report.head \in EventOne
  BY DEF CheckSum, LoopStep, At
<1>2. /\ main' = "enter" /\ boot = "done"
      /\ UNCHANGED <<nextId, boot, publisher, db, faults, content>>
  BY DEF Running, Db!Report, Db!MainGoto, Db!table
<1>3. message' = [report |-> report', event |-> event', heard |-> heard',
                  faults |-> faults']
  BY <1>1, <1>2
<1>4. message' \in Messages
  BY <1>2, <1>3
  DEF IInv, TypeOK, LoopTypeOK, Messages, Db!QueueInv, Db!TypeOK
<1>5. GenuineReport' /\ HonestVerdict'
  BY GenuineParts, PTL
<1>6. Genuine(message)'
  BY <1>1, <1>3, <1>5 DEF GenuineReport, HonestVerdict
<1>7. message'.faults = faults' /\ faults' \in Nat /\ message'.report = report'
  BY <1>2, <1>3, BoundsAssumption DEF Db!QueueInv, Db!TypeOK
<1> QED
  BY <1>1, <1>2, <1>4, <1>6, <1>7

\* The row takes the message the loop has formatted, and there is a row unless
\* something has failed.
LEMMA InsertTie == Parts /\ InsertRow => Tie'
<1> SUFFICES ASSUME Parts, InsertRow PROVE Tie'
  OBVIOUS
<1> USE DEF Parts, Tie, InsertRow, Db!Insert, Db!MainGoto, Db!table
<1>1. nextId \in Nat /\ faults \in Nat
  BY BoundsAssumption DEF Db!QueueInv, Db!TypeOK
<1>2. /\ pc = "insert" /\ pc' = "ack" /\ UNCHANGED <<report, message>>
      /\ main' = "radio" /\ boot = "done" /\ UNCHANGED <<boot, publisher, db>>
  BY DEF InsertReport, LoopStep, At
<1>3. \/ nextId' = nextId /\ content' = content
      \/ nextId' = nextId + 1 /\ content' = Append(content, message)
  BY <1>1
<1>4. content' \in Seq(Messages) /\ Len(content') = nextId' - 1
  BY <1>1, <1>3
<1>5. StoredIsGenuine'
  BY <1>2, <1>3
<1>6. TableIsThere'
  BY <1>1, <1>2 DEF Db!Fault
<1>7. AckedIsStored'
  <2> SUFFICES ASSUME Undisturbed' PROVE AckedIsStored'
    OBVIOUS
  <2>1. nextId' = nextId + 1
    BY <1>1, <1>2 DEF Db!Fault, Messages
  <2>2. content' = Append(content, message)
    BY <1>1, <1>3, <2>1
  <2> QED
    BY <1>2, <2>2
<1>8. message'.faults <= faults'
  <2>1. message.faults \in Nat
    BY BoundsAssumption DEF Messages
  <2> QED
    BY <1>1, <1>2, <2>1 DEF Db!Fault
<1> QED
  BY <1>2, <1>4, <1>5, <1>6, <1>7, <1>8

\* The database's threads leave the loop and its message alone, and the table is
\* set up before the loop begins.
LEMMA StoreTie ==
  ASSUME Parts, NEW A, Store(A),
         A => Db!Setup \/ Db!Restart \/ Db!PubEnter \/ Db!Publisher
  PROVE  Tie'
<1> USE DEF Parts, Tie, Store
<1>1. UNCHANGED <<nextId, main>> /\ TableIsThere'
  <2>0. faults \in Nat
    BY BoundsAssumption DEF Db!QueueInv, Db!TypeOK
  <2> USE DEF Db!Fault, Db!table, Db!threads
  <2>1. CASE Db!Setup
    BY <2>0, <2>1
    DEF Db!Setup, Db!OpenExisting, Db!CreateFile, Db!OpenAgain,
        Db!CreateTable, Db!OpenFails, Db!QueueInv, Db!TypeOK
  <2>2. CASE Db!Restart
    BY <2>2 DEF Db!Restart
  <2>3. CASE Db!PubEnter \/ Db!Publisher
    BY <2>0, <2>3
    DEF Db!PubEnter, Db!Publisher, Db!PubGoto, Db!SelectOldest, Db!SelectNone,
        Db!SelectFails, Db!Publish, Db!PublishReturns, Db!PublishFails,
        Db!PublishHangs, Db!Update, Db!DeleteOld
  <2> QED
    BY <2>1, <2>2, <2>3
<1>2. UNCHANGED <<pc, report, message, content>>
  BY DEF vars, loopVars
<1>3. /\ faults \in Nat /\ faults' \in Nat /\ faults' >= faults
      /\ \/ boot # "done" /\ pc = "top"
         \/ UNCHANGED <<boot, db, publisher>>
  BY BoundsAssumption
  DEF Db!QueueInv, Db!TypeOK, Db!Fault, Db!Setup, Db!OpenExisting,
      Db!CreateFile, Db!OpenAgain, Db!CreateTable, Db!OpenFails, Db!Restart,
      Db!PubEnter, Db!Publisher, Db!SelectOldest, Db!SelectNone,
      Db!SelectFails, Db!Publish, Db!PublishReturns, Db!PublishFails,
      Db!PublishHangs, Db!Update, Db!DeleteOld
<1>4. message.faults \in Nat
  BY BoundsAssumption DEF Messages
<1>5. InsertPending'
  <2>1. Genuine(message)' <=> Genuine(message)
    BY <1>2
  <2> QED
    BY <1>1, <1>2, <1>3, <1>4, <2>1
<1>6. AckedIsStored'
  BY <1>2, <1>3, <1>4
<1> QED
  BY <1>1, <1>2, <1>5, <1>6

LEMMA NextTie == Parts /\ IInv' /\ [SystemNext]_systemVars => Tie'
<1> SUFFICES ASSUME Parts, IInv', [SystemNext]_systemVars PROVE Tie'
  OBVIOUS
<1>1. CASE EnterMutex
  BY <1>1
  DEF Parts, Tie, EnterMutex, Db!MainEnter, Db!MainGoto, Db!table, vars, loopVars
<1>2. CASE Radio(Interrupt) \/ Radio(Transmitted) \/ Radio(HearReport)
  <2>1. UNCHANGED <<pc, report, storeVars, message, content>>
    BY <1>2 DEF Radio, Interrupt, rx_f, tx_f, Transmitted, HearReport, HearFrame,
                loopVars, localVars
  <2> QED
    BY <2>1 DEF Parts, Tie, storeVars
<1>3. CASE Dies
  <2>1. /\ pc' = "top" /\ main' = "radio" /\ message' = NoMessage
        /\ UNCHANGED <<nextId, content>>
    BY <1>3 DEF Dies, RadioReset, Db!Crash, Db!Die, Db!table
  <2>2. faults' \in Nat \ {0} /\ message'.faults = 0
    BY <1>3, <2>1, BoundsAssumption
    DEF Parts, Dies, Db!Crash, Db!Die, Db!Fault, Db!QueueInv, Db!TypeOK,
        NoMessage
  <2>3. message' \in Messages
    BY <2>1, CountAssumption, BoundsAssumption
    DEF NoMessage, Messages, ClearedBuf, Frames
  <2> QED
    BY <2>1, <2>2, <2>3 DEF Parts, Tie
<1>4. CASE UNCHANGED systemVars
  BY <1>4 DEF systemVars, storeVars, vars, loopVars, Parts, Tie
<1> QED
  BY <1>1, <1>2, <1>3, <1>4, RadioTie, FormatTie, InsertTie, StoreTie
  DEF SystemNext

-----------------------------------------------------------------------------
(* The composition.                                                        *)

\* The invariants of the radio loop and of the table hold in the composition,
\* across crashes, and what ties them together does.
THEOREM SystemInvariance == SystemSpec => []SystemInv
<1>1. SystemInit => SystemInv
  BY InitInv, InitTable, InitTie, PartsMakeIt DEF SystemInit, Parts
<1>2. SystemInv /\ [SystemNext]_systemVars => SystemInv'
  BY NextLoop, NextTable, NextTie, PartsMakeIt DEF Parts
<1> QED
  BY <1>1, <1>2, PTL DEF SystemSpec

\* In any life that has its table, a MOBILE_REPORT_EVENT_1 is acknowledged only
\* after its own message has become a row, unless something failed since that
\* message was formatted.
THEOREM AckedIsAlwaysStored == SystemSpec => []AckedIsStored
<1>1. SystemInv => AckedIsStored
  BY DEF SystemInv
<1> QED
  BY <1>1, SystemInvariance, PTL

\* What is stored is whole and undamaged, with an honest verdict, unless a second
\* frame had come before its message was formatted.
THEOREM StoredIsAlwaysGenuine == SystemSpec => []StoredIsGenuine
<1>1. SystemInv => StoredIsGenuine
  BY DEF SystemInv
<1> QED
  BY <1>1, SystemInvariance, PTL

\* The access point as a whole implements the store and forward of Outbox: the
\* table is in it as it is alone.
THEOREM SystemImplementsOutbox == SystemSpec => Db!Spec
<1>1. SystemInit => Db!Init
  BY DEF SystemInit
<1> QED
  BY <1>1, StepOfTable, PTL DEF SystemSpec, Db!Spec
=============================================================================
