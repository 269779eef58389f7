---------------------------- MODULE UplinkProofs ----------------------------
(***************************************************************************)
(* Proofs about Uplink: every step of the call in full is a step of        *)
(* Outbox's, seen through pubSeen, or none at all; and what OutboxProofs   *)
(* proves of the table holds with the call of MQTT inside it too.          *)
(***************************************************************************)
EXTENDS Uplink, OutboxProofs

\* UplinkInv without what QueueInv says of Outbox's variables.
CallInv ==
  /\ MqttTypeOK /\ pub \in {"enter", "select", "publish", "update", "delete"}
  /\ MutexInPlace /\ CallInPlace /\ ZeroMeansWritten

LEMMA InitCall == UplinkInit => CallInv /\ Abstract!Init
  BY DEF UplinkInit, Init, MqttInit, CallInv, MqttTypeOK, MutexInPlace,
         CallInPlace, ZeroMeansWritten, Abstract!Init, pubSeen

-----------------------------------------------------------------------------
(* The call's places.                                                      *)

LEMMA CallerCall == CallInv /\ Caller => CallInv'
<1> SUFFICES ASSUME CallInv, Caller PROVE CallInv'
  OBVIOUS
<1> USE DEF CallInv, MqttTypeOK, MutexInPlace, CallInPlace, ZeroMeansWritten,
            InCall, CallGoto, Written, storeVars
<1>1. CASE CallStep
  <2>1. CASE mosquitto_publish
    <3>1. out = {} /\ out' = {"PUBLISH"}
      BY <2>1 DEF mosquitto_publish
    <3>2. /\ call' = "loop_stop" /\ ret' = 0 /\ thread' = "running"
          /\ InCall /\ UNCHANGED <<publisher, pub, mutex, boot, main>>
      BY <1>1, <2>1 DEF CallStep, mosquitto_publish, vars
    <3>3. MqttTypeOK' /\ MutexInPlace' /\ CallInPlace'
      BY <3>1, <3>2
    <3>4. ZeroMeansWritten'
      BY <3>1, <3>2
    <3> QED
      BY <3>2, <3>3, <3>4
  <2>2. CASE Enter \/ mosquitto_new \/ mosquitto_connect
    BY <1>1, <2>2 DEF CallStep, Enter, mosquitto_new, mosquitto_connect, vars
  <2>3. CASE mosquitto_loop_start
    BY <1>1, <2>3 DEF CallStep, mosquitto_loop_start, vars
  <2> QED
    BY <1>1, <2>1, <2>2, <2>3 DEF CallStep
<1>2. CASE PublishError
  BY <1>2 DEF PublishError, mosquitto_publish_fails
<1>3. CASE SetUpError
  BY <1>3 DEF SetUpError, SetUpFails, PublishFails, PubGoto
<1>4. CASE Return
  BY <1>4 DEF Return, mosquitto_loop_stop, PubGoto
<1> QED
  BY <1>1, <1>2, <1>3, <1>4 DEF Caller

LEMMA ThreadCall == CallInv /\ LoopThread => CallInv'
<1> SUFFICES ASSUME CallInv, LoopThread PROVE CallInv'
  OBVIOUS
<1> USE DEF CallInv, MqttTypeOK, MutexInPlace, CallInPlace, ZeroMeansWritten,
            InCall, ThreadGoto, Written, storeVars
<1>1. CASE Transmit
  BY <1>1 DEF Transmit, WritePublish, WritePacket
<1>2. CASE mqttqos_publish_callback /\ UNCHANGED vars
  BY <1>2 DEF mqttqos_publish_callback, vars
<1>3. CASE WriteDisconnect /\ UNCHANGED vars
  BY <1>3 DEF WriteDisconnect, WritePacket, vars
<1>4. CASE mqttqos_disconnect_callback /\ UNCHANGED vars
  BY <1>4 DEF mqttqos_disconnect_callback, vars
<1> QED
  BY <1>1, <1>2, <1>3, <1>4 DEF LoopThread

\* Outside the call, nothing touches it; its place in callbackSelect is left
\* only by what the call returns.
OutsideNext ==
  \/ Outside(Setup) \/ Outside(Restart)
  \/ Outside(Report) \/ Outside(MainEnter) \/ Outside(Insert)
  \/ Outside(PubEnter) \/ Outside(Around)

LEMMA OutsideCall == CallInv /\ OutsideNext => CallInv'
<1> SUFFICES ASSUME CallInv, OutsideNext PROVE CallInv'
  OBVIOUS
<1> USE DEF CallInv, MqttTypeOK, MutexInPlace, CallInPlace, ZeroMeansWritten,
            InCall, Outside, Written, mqttVars
<1>1. CASE Outside(Setup)
  <2>1. /\ call = "idle" /\ UNCHANGED <<pub, call, ret, thread, out>>
        /\ MutexInPlace'
    BY <1>1 DEF Setup, OpenExisting, CreateFile, OpenAgain, CreateTable, OpenFails,
                threads
  <2> QED
    BY <2>1
<1>2. CASE Outside(Restart)
  BY <1>2 DEF Restart, threads
<1>3. CASE Outside(Report) \/ Outside(MainEnter) \/ Outside(Insert)
  <2>1. /\ UNCHANGED <<pub, call, ret, thread, out, publisher, boot>>
        /\ call = "idle" \/ UNCHANGED mutex
        /\ MutexInPlace'
    BY <1>3 DEF Report, MainEnter, Insert, MainGoto
  <2> QED
    BY <2>1
<1>4. CASE Outside(PubEnter)
  BY <1>4 DEF PubEnter, PubGoto
<1>5. CASE Outside(Around)
  BY <1>5 DEF Around, SelectOldest, SelectNone, SelectFails, Update, DeleteOld,
              PubGoto
<1> QED
  BY <1>1, <1>2, <1>3, <1>4, <1>5 DEF OutsideNext

LEMMA StopsCall == CallInv /\ Crash /\ MqttStops => CallInv'
  BY DEF CallInv, MqttTypeOK, MutexInPlace, CallInPlace, ZeroMeansWritten,
         InCall, Crash, Die, MqttStops

LEMMA NextCall == CallInv /\ [UplinkNext]_uplinkVars => CallInv'
<1> SUFFICES ASSUME CallInv, [UplinkNext]_uplinkVars PROVE CallInv'
  OBVIOUS
<1>1. CASE UNCHANGED uplinkVars
  BY <1>1
  DEF uplinkVars, vars, mqttVars, CallInv, MqttTypeOK, MutexInPlace,
      CallInPlace, ZeroMeansWritten, InCall, Written
<1> QED
  BY <1>1, CallerCall, ThreadCall, OutsideCall, StopsCall
  DEF UplinkNext, OutsideNext, CallbackExits, ProcessDies

\* The call, its loop thread and its packets keep their places.
THEOREM CallKeepsItsPlace == UplinkSpec => []CallInv
  BY InitCall, NextCall, PTL DEF UplinkSpec

-----------------------------------------------------------------------------
(* The refinement.                                                         *)

\* Where nothing of the call is left, pubSeen is pub.
LEMMA SeenOutside ==
  ASSUME CallInv, call = "idle"
  PROVE  pubSeen = pub
  BY DEF CallInv, MutexInPlace, CallInPlace, MqttTypeOK, pubSeen, Hung, Written

LEMMA OutsideSeen ==
  ASSUME CallInv, CallInv', OutsideNext
  PROVE  [Abstract!Next]_Abstract!vars
<1> USE DEF Outside
<1>1. CASE pub = pub'
  <2>1. UNCHANGED pubSeen
    BY <1>1 DEF OutsideNext, mqttVars, pubSeen, Hung, Written
  <2>2. CASE Outside(Setup)
    BY <2>1, <2>2
    DEF Setup, OpenExisting, CreateFile, OpenAgain, CreateTable, OpenFails,
        threads, table, Fault, Abstract!Next, Abstract!Setup,
        Abstract!OpenExisting, Abstract!CreateFile, Abstract!OpenAgain,
        Abstract!CreateTable, Abstract!OpenFails,
        Abstract!threads, Abstract!table, Abstract!Fault
  <2>3. CASE Outside(Restart)
    BY <2>1, <2>3
    DEF Restart, threads, table, Abstract!Next, Abstract!Restart,
        Abstract!threads, Abstract!table
  <2>4. CASE Outside(Report) \/ Outside(MainEnter) \/ Outside(Insert)
    BY <2>1, <2>4
    DEF Report, MainEnter, Insert, Usable, MainGoto, Fault, table,
        Abstract!Next, Abstract!Report, Abstract!MainEnter, Abstract!Insert,
        Abstract!Usable,
        Abstract!MainGoto, Abstract!Fault, Abstract!table
  <2>5. CASE Outside(PubEnter) \/ Outside(Around)
    BY <1>1, <2>5
    DEF PubEnter, Around, SelectOldest, SelectNone, SelectFails, Update,
        DeleteOld, PubGoto
  <2> QED
    BY <2>2, <2>3, <2>4, <2>5 DEF OutsideNext
<1>2. CASE pub # pub'
  <2>1. CASE Outside(PubEnter) \/ Outside(Around)
    <3>1. pub # "publish" /\ call = "idle" /\ call' = "idle"
      BY <2>1
      DEF CallInv, MutexInPlace, CallInPlace, InCall, MqttTypeOK, mqttVars,
          PubEnter, Around, SelectOldest, SelectNone, SelectFails, Update,
          DeleteOld, PubGoto
    <3>2. pubSeen = pub /\ pubSeen' = pub'
      BY <3>1, SeenOutside DEF CallInv, MutexInPlace, CallInPlace, MqttTypeOK,
                               pubSeen, Hung, Written
    <3> QED
      BY <2>1, <3>2
      DEF PubEnter, Around, SelectOldest, SelectNone, SelectFails, Update,
          DeleteOld, PubGoto, Fault, table, Abstract!Next, Abstract!PubEnter,
          Abstract!Publisher, Abstract!SelectOldest, Abstract!SelectNone,
          Abstract!SelectFails, Abstract!Update, Abstract!DeleteOld,
          Abstract!PubGoto, Abstract!Fault, Abstract!table
  <2>2. CASE ~ (Outside(PubEnter) \/ Outside(Around))
    BY <1>2, <2>2
    DEF OutsideNext, Setup, OpenExisting, CreateFile, OpenAgain, CreateTable,
        OpenFails, Restart, threads, Report, MainEnter, Insert, MainGoto
  <2> QED
    BY <2>1, <2>2
<1> QED
  BY <1>1, <1>2

LEMMA CallerSeen ==
  ASSUME CallInv, CallInv', Caller
  PROVE  [Abstract!Next]_Abstract!vars
<1> USE DEF CallInv, MutexInPlace, CallInPlace, MqttTypeOK, InCall, CallGoto,
            pubSeen, Hung, Written, storeVars
<1>1. CASE CallStep
  <2>1. UNCHANGED pubSeen
    BY <1>1
    DEF CallStep, Enter, mosquitto_new, mosquitto_connect,
        mosquitto_loop_start, mosquitto_publish, vars
  <2> QED
    BY <1>1, <2>1 DEF CallStep, vars, table, Abstract!vars, Abstract!table
<1>2. CASE PublishError
  <2>1. pubSeen = "publish" /\ pubSeen' = "stuck"
    BY <1>2 DEF PublishError, mosquitto_publish_fails
  <2> QED
    BY <1>2, <2>1
    DEF PublishError, Fault, table, Abstract!Next, Abstract!Publisher,
        Abstract!PublishHangs, Abstract!PubGoto, Abstract!Fault, Abstract!table
<1>3. CASE SetUpError
  <2>1. pubSeen = "publish" /\ pubSeen' = "delete"
    BY <1>3 DEF SetUpError, SetUpFails, PublishFails, PubGoto
  <2> QED
    BY <1>3, <2>1
    DEF SetUpError, PublishFails, PubGoto, Fault, table, Abstract!Next,
        Abstract!Publisher, Abstract!PublishFails, Abstract!PubGoto,
        Abstract!Fault, Abstract!table
<1>4. CASE Return
  <2>1. ret = 0 /\ pubSeen = "written" /\ pubSeen' = "update"
    BY <1>4 DEF Return, mosquitto_loop_stop, PubGoto, ZeroMeansWritten
  <2> QED
    BY <1>4, <2>1
    DEF Return, PubGoto, table, Abstract!Next, Abstract!Publisher,
        Abstract!PublishReturns, Abstract!PubGoto, Abstract!table
<1> QED
  BY <1>1, <1>2, <1>3, <1>4 DEF Caller

LEMMA ThreadSeen ==
  ASSUME CallInv, CallInv', LoopThread
  PROVE  [Abstract!Next]_Abstract!vars
<1> USE DEF CallInv, MutexInPlace, CallInPlace, MqttTypeOK, InCall, ThreadGoto,
            pubSeen, Hung, Written, storeVars, ZeroMeansWritten
<1>1. CASE Transmit
  <2>1. pubSeen = "publish" /\ pubSeen' = "written" /\ publisher
    BY <1>1 DEF Transmit, WritePublish, WritePacket
  <2> QED
    BY <1>1, <2>1
    DEF Transmit, table, Abstract!Next, Abstract!Publisher, Abstract!Publish,
        Abstract!PubGoto, Abstract!table
<1>2. CASE mqttqos_publish_callback /\ UNCHANGED vars
  <2>1. UNCHANGED pubSeen
    BY <1>2 DEF mqttqos_publish_callback, vars
  <2> QED
    BY <1>2, <2>1 DEF vars, table, Abstract!vars, Abstract!table
<1>3. CASE WriteDisconnect /\ UNCHANGED vars
  <2>1. UNCHANGED pubSeen
    BY <1>3 DEF WriteDisconnect, WritePacket, vars
  <2> QED
    BY <1>3, <2>1 DEF vars, table, Abstract!vars, Abstract!table
<1>4. CASE mqttqos_disconnect_callback /\ UNCHANGED vars
  <2>1. UNCHANGED pubSeen
    BY <1>4 DEF mqttqos_disconnect_callback, vars
  <2> QED
    BY <1>4, <2>1 DEF vars, table, Abstract!vars, Abstract!table
<1> QED
  BY <1>1, <1>2, <1>3, <1>4 DEF LoopThread

LEMMA StopsSeen ==
  ASSUME Crash, MqttStops
  PROVE  Abstract!Next
<1>1. pubSeen' = "enter"
  BY DEF Crash, Die, pubSeen
<1> QED
  BY <1>1 DEF Crash, Die, Fault, table, Abstract!Next, Abstract!Crash,
              Abstract!Die, Abstract!Fault, Abstract!table

LEMMA NextSeen ==
  CallInv /\ CallInv' /\ [UplinkNext]_uplinkVars => [Abstract!Next]_Abstract!vars
<1> SUFFICES ASSUME CallInv, CallInv', [UplinkNext]_uplinkVars
             PROVE  [Abstract!Next]_Abstract!vars
  OBVIOUS
<1>1. CASE UNCHANGED uplinkVars
  BY <1>1
  DEF uplinkVars, vars, mqttVars, table, pubSeen, Hung, Written, Abstract!vars,
      Abstract!table
<1> QED
  BY <1>1, CallerSeen, ThreadSeen, OutsideSeen, StopsSeen
  DEF UplinkNext, OutsideNext, CallbackExits, ProcessDies

\* The call of mqtt_publish_message with its callbacks, its loop thread and its
\* exits does what Outbox says of it: it writes the message and returns, fails
\* or hangs.
THEOREM CallImplementsOutbox == UplinkSpec => ImplementsOutbox
<1>1. UplinkInit => Abstract!Init
  BY InitCall
<1> QED
  BY <1>1, NextSeen, CallKeepsItsPlace, PTL
  DEF UplinkSpec, ImplementsOutbox, Abstract!Spec

-----------------------------------------------------------------------------
(* The invariants of Outbox and of the call together.                      *)

USE DEF table, threads, Ids

WrittenIsHanded == pub = "publish" /\ Written => row \in Handed

FullInv == CallInv /\ QueueInv /\ WrittenIsHanded

\* Only these three steps are none of Outbox's, with pub as it is.
CallerNext == Next \/ UNCHANGED vars \/ PublishError \/ Return \/ Transmit

LEMMA NextSplit == UplinkNext => CallerNext
  BY DEF UplinkNext, CallerNext, Outside, Around, Next, Publisher, Caller,
         CallStep, SetUpError, LoopThread, CallbackExits, ProcessDies

LEMMA ErrorQueue == FullInv /\ PublishError => QueueInv'
<1> SUFFICES ASSUME FullInv, PublishError PROVE QueueInv'
  OBVIOUS
<1>0. TypeOK
  BY DEF FullInv, QueueInv
<1>1. faults' \in 0 .. MaxFaults
  BY <1>0, FaultType DEF TypeOK, PublishError
<1>2. TypeOK'
  BY <1>0, <1>1 DEF TypeOK, PublishError, storeVars
<1> QED
  BY <1>2, QuietStep DEF FullInv, PublishError, storeVars

LEMMA ReturnQueue == FullInv /\ Return => QueueInv'
<1> SUFFICES ASSUME FullInv, Return PROVE QueueInv'
  OBVIOUS
<1>1. /\ ret = 0 /\ pub = "publish" /\ pub' = "update" /\ row \in Handed
      /\ UNCHANGED <<storeVars, row, handed, faults>>
  BY DEF FullInv, CallInv, ZeroMeansWritten, WrittenIsHanded, Written, Return,
         mosquitto_loop_stop, CallGoto, PubGoto
<1>2. TypeOK' /\ Handed' = Handed
  BY <1>1 DEF FullInv, QueueInv, TypeOK, storeVars, Handed
<1> QED
  BY <1>1, <1>2
  DEF FullInv, QueueInv, RowIsOldest, IdsInUse, UnsentComeLater, NoUnsentLoss,
      HandedInOrder, storeVars

LEMMA TransmitQueue ==
  FullInv /\ Transmit => QueueInv' /\ Handed' = Handed \cup {row}
<1> SUFFICES ASSUME FullInv, Transmit
             PROVE  QueueInv' /\ Handed' = Handed \cup {row}
  OBVIOUS
<1> USE DEF FullInv, storeVars
<1>0. TypeOK
  BY DEF QueueInv
<1>1. pub = "publish"
  BY DEF CallInv, CallInPlace, MqttTypeOK, Transmit, WritePublish, WritePacket,
         ThreadGoto
<1>2. row \in unsent /\ \A s \in unsent : row <= s
  BY <1>1 DEF QueueInv, RowIsOldest
<1>3. row \in Ids /\ handed \in Seq(Ids) /\ handed' = Append(handed, row)
  BY <1>2, <1>0 DEF TypeOK, Transmit
<1>4. Handed' = Handed \cup {row} /\ handed' \in Seq(Ids)
  BY <1>3, WriteAppends
<1>5. TypeOK'
  BY <1>4, <1>0 DEF Transmit, TypeOK
<1>6. HandedInOrder' /\ UnsentComeLater'
  BY <1>2, <1>3, WriteAppends, <1>0
  DEF QueueInv, HandedInOrder, UnsentComeLater, TypeOK, Transmit
<1> QED
  BY <1>1, <1>2, <1>4, <1>5, <1>6, <1>0
  DEF QueueInv, RowIsOldest, IdsInUse, NoUnsentLoss, TypeOK, Transmit

\* What is written stays so until the call returns.
LEMMA WrittenStep == FullInv /\ [UplinkNext]_uplinkVars => WrittenIsHanded'
<1> SUFFICES ASSUME FullInv, [UplinkNext]_uplinkVars, pub' = "publish", Written'
             PROVE  (row \in Handed)'
  BY DEF WrittenIsHanded
<1> USE DEF FullInv, CallInv, CallInPlace, MqttTypeOK, Written,
            WrittenIsHanded, Handed
<1>1. CASE Transmit
  BY <1>1, TransmitQueue DEF Transmit
<1>2. CASE LoopThread /\ ~ Transmit
  BY <1>2
  DEF LoopThread, mqttqos_publish_callback, WriteDisconnect, WritePacket,
      mqttqos_disconnect_callback, ThreadGoto, vars
<1>3. CASE CallStep
  BY <1>3
  DEF CallStep, Enter, mosquitto_new, mosquitto_connect, mosquitto_loop_start,
      mosquitto_publish, CallGoto, vars
<1>4. CASE PublishError
  BY <1>4 DEF PublishError, mosquitto_publish_fails, CallGoto, storeVars
<1>5. CASE SetUpError \/ Return
  BY <1>5 DEF SetUpError, PublishFails, PubGoto, Return
<1>6. CASE OutsideNext
  <2>1. UNCHANGED mqttVars
    BY <1>6 DEF OutsideNext, Outside
  <2>2. thread # "none" \/ out # {}
    BY <2>1 DEF mqttVars
  <2>3. pub = "publish" /\ row \in Handed
    BY <2>1, <2>2 DEF mqttVars
  <2> QED
    BY <1>6, <2>3
    DEF OutsideNext, Outside, Setup, OpenExisting, CreateFile, OpenAgain, CreateTable,
        OpenFails, Restart, Report, MainEnter, Insert, MainGoto, PubEnter,
        Around, SelectOldest, SelectNone, SelectFails, Update, DeleteOld,
        PubGoto
<1>7. CASE Crash
  BY <1>7 DEF Crash, Die
<1>8. CASE UNCHANGED uplinkVars
  BY <1>8 DEF uplinkVars, vars, mqttVars
<1> QED
  BY <1>1, <1>2, <1>3, <1>4, <1>5, <1>6, <1>7, <1>8
  DEF UplinkNext, OutsideNext, Caller, CallbackExits, ProcessDies

LEMMA FullStep == FullInv /\ [UplinkNext]_uplinkVars => FullInv'
<1> SUFFICES ASSUME FullInv, [UplinkNext]_uplinkVars PROVE FullInv'
  OBVIOUS
<1>1. CallInv'
  BY NextCall DEF FullInv
<1>2. CallerNext
  BY NextSplit DEF CallerNext, uplinkVars
<1>3. QueueInv'
  BY <1>2, NextInv, ErrorQueue, ReturnQueue, TransmitQueue DEF FullInv,
                                                               CallerNext
<1> QED
  BY <1>1, <1>3, WrittenStep DEF FullInv

\* Whatever the threads and the failures do, the queue's invariant and the call's
\* hold together, and what the loop thread has written is in `handed'.
THEOREM FullInvariance == UplinkSpec => []FullInv
<1>1. UplinkInit => FullInv
  <2>1. UplinkInit => CallInv /\ QueueInv
    BY InitCall, InitInv DEF UplinkInit
  <2>2. UplinkInit => WrittenIsHanded
    BY DEF UplinkInit, Init, WrittenIsHanded
  <2> QED
    BY <2>1, <2>2 DEF FullInv
<1> QED
  BY <1>1, FullStep, PTL DEF UplinkSpec

\* mosquitto_loop_stop never returns with the message unwritten and 0 to report,
\* and the two threads are never both in the critical section.
THEOREM UplinkInvariance == UplinkSpec => []UplinkInv
<1>1. FullInv => UplinkInv
  BY DEF FullInv, CallInv, QueueInv, UplinkInv, UplinkTypeOK
<1> QED
  BY <1>1, FullInvariance, PTL

\* With the call in full, what is stored is still not lost before it has been
\* written, and the order of the table is kept.
THEOREM UplinkKeepsTheQueue == UplinkSpec => []QueueInv
<1>1. FullInv => QueueInv
  BY DEF FullInv
<1> QED
  BY <1>1, FullInvariance, PTL

\* The database is the abstract queue, with the call in full too.
THEOREM UplinkRefinement == UplinkSpec => RefinesQueue
<1>1. FullInv /\ [UplinkNext]_uplinkVars => [Queue!Next]_<<nextId, unsent, handed>>
  <2> SUFFICES ASSUME FullInv, [UplinkNext]_uplinkVars
               PROVE  [Queue!Next]_<<nextId, unsent, handed>>
    OBVIOUS
  <2>1. CallerNext
    BY NextSplit DEF CallerNext, uplinkVars
  <2>2. CASE PublishError \/ Return
    BY <2>2 DEF PublishError, Return, storeVars
  <2>3. CASE Transmit
    <3>1. pub = "publish"
      BY <2>3 DEF FullInv, CallInv, CallInPlace, MqttTypeOK, Transmit,
                  WritePublish, WritePacket, ThreadGoto
    <3> QED
      BY <2>3, <3>1
      DEF FullInv, QueueInv, RowIsOldest, Transmit, storeVars, Queue!Next,
          Queue!HandOver, Queue!Oldest
  <2> QED
    BY <2>1, <2>2, <2>3, QueueStep DEF FullInv, CallerNext
<1> QED
  BY <1>1, QueueInit, FullInvariance, PTL
  DEF UplinkSpec, UplinkInit, RefinesQueue, Queue!Spec
-----------------------------------------------------------------------------
(* What OutboxProofs proves of the table alone carries over by the refinement. *)
(* Abstract and Seen are two instances of the same definitions; the first      *)
(* lemmas only say so.                                                         *)

Seen == INSTANCE OutboxProofs WITH pub <- pubSeen

LEMMA SeenInit == Abstract!Init => Seen!Init
  BY DEF Abstract!Init, Seen!Init

LEMMA SeenStep == [Abstract!Next]_(Abstract!vars) => [Seen!Next]_(Seen!vars)
<1> USE DEF Abstract!table, Seen!table, Abstract!threads, Seen!threads,
            Abstract!Fault, Seen!Fault
<1>1. Abstract!Setup => Seen!Setup
  BY DEF
    Abstract!Setup, Seen!Setup, Abstract!OpenExisting, Seen!OpenExisting,
    Abstract!CreateFile, Seen!CreateFile, Abstract!OpenAgain,
    Seen!OpenAgain, Abstract!CreateTable,
    Seen!CreateTable, Abstract!OpenFails, Seen!OpenFails
<1>2. Abstract!Report \/ Abstract!MainEnter \/ Abstract!Insert =>
        Seen!Report \/ Seen!MainEnter \/ Seen!Insert
  BY DEF
    Abstract!Report, Seen!Report, Abstract!MainEnter, Seen!MainEnter,
    Abstract!Insert, Seen!Insert, Abstract!Usable, Seen!Usable,
    Abstract!MainGoto, Seen!MainGoto
<1>3. Abstract!PubEnter \/ Abstract!Publisher => Seen!PubEnter \/ Seen!Publisher
  BY DEF
    Abstract!PubEnter, Seen!PubEnter, Abstract!Publisher, Seen!Publisher,
    Abstract!PubGoto, Seen!PubGoto, Abstract!SelectOldest, Seen!SelectOldest,
    Abstract!SelectNone, Seen!SelectNone, Abstract!SelectFails,
    Seen!SelectFails, Abstract!Publish, Seen!Publish, Abstract!PublishReturns,
    Seen!PublishReturns, Abstract!PublishFails, Seen!PublishFails,
    Abstract!PublishHangs, Seen!PublishHangs, Abstract!Update, Seen!Update,
    Abstract!DeleteOld, Seen!DeleteOld
<1>4. Abstract!Crash \/ Abstract!Restart => Seen!Crash \/ Seen!Restart
  BY DEF
    Abstract!Crash, Seen!Crash, Abstract!Die, Seen!Die, Abstract!Restart,
    Seen!Restart
<1> QED
  BY <1>1, <1>2, <1>3, <1>4
  DEF Abstract!Next, Seen!Next, Abstract!vars, Seen!vars

\* A message is written again only because something failed in between, with the
\* call in full too: never more often than there were failures.
THEOREM UplinkRepeatsNeedFaults == UplinkSpec => []RepeatsNeedFaults
<1>1. Seen!Init => Seen!RepeatInv
  <2>1. Seen!Init => Seen!QueueInv
    BY BoundsAssumption, Seen!InitInv DEF Seen!BoundsAssumption
  <2>2. Seen!Init => Seen!RetriesCost /\ Seen!RepeatsNeedFaults
    BY DEF Seen!Init, Seen!RetriesCost, Seen!RepeatsNeedFaults, Seen!Handed
  <2> QED
    BY <2>1, <2>2 DEF Seen!RepeatInv
<1>2. Seen!RepeatInv /\ [Seen!Next]_(Seen!vars) => Seen!RepeatInv'
  BY BoundsAssumption, Seen!RepeatStep DEF Seen!BoundsAssumption
<1>3. Seen!RepeatInv => RepeatsNeedFaults
  BY DEF Seen!RepeatInv, Seen!RepeatsNeedFaults, RepeatsNeedFaults,
         Seen!Handed, Handed
<1> QED
  BY <1>1, <1>2, <1>3, SeenInit, SeenStep, CallImplementsOutbox, PTL
  DEF ImplementsOutbox, Abstract!Spec
=============================================================================
