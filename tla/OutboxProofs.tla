---------------------------- MODULE OutboxProofs ----------------------------
(***************************************************************************)
(* Proofs about Outbox, for every number of rows and of faults: what is    *)
(* stored is not lost before it is handed over, hand-overs are in order,   *)
(* and the database implements ReportQueue.                                *)
(***************************************************************************)
EXTENDS Outbox, TLAPS

USE DEF table, threads, Ids

LEMMA InitInv == Init => QueueInv
<1> SUFFICES ASSUME Init PROVE QueueInv
  OBVIOUS
<1>1. handed = <<>> /\ handed \in Seq(Ids) /\ DOMAIN handed = {}
  BY DEF Init
<1>2. TypeOK
  <2>1. publisher \in BOOLEAN
    BY DEF Init
  <2> QED
    BY <1>1, <2>1, BoundsAssumption DEF Init, TypeOK
<1>3. Handed = {}
  BY <1>1 DEF Handed
<1> QED
  BY <1>1, <1>2, <1>3
  DEF Init, QueueInv, RowIsOldest, IdsInUse, UnsentComeLater, NoUnsentLoss,
      HandedInOrder

\* What writing one more ID to a connection does to the history.
LEMMA WriteAppends ==
  ASSUME handed \in Seq(Ids), row \in Ids, handed' = Append(handed, row)
  PROVE  /\ handed' \in Seq(Ids)
         /\ Handed' = Handed \cup {row}
         /\ \A k \in DOMAIN handed' :
              \/ k \in DOMAIN handed /\ handed'[k] = handed[k]
              \/ handed'[k] = row /\ \A j \in DOMAIN handed' : j <= k
  BY DEF Handed

LEMMA FaultType ==
  ASSUME faults \in 0 .. MaxFaults, Fault \/ UNCHANGED faults
  PROVE  faults' \in 0 .. MaxFaults
  BY BoundsAssumption DEF Fault

\* The death of the process keeps every variable but the history in its type.
LEMMA DieType ==
  ASSUME TypeOK, Crash
  PROVE  TypeOK'
<1>1. faults' \in 0 .. MaxFaults
  BY FaultType DEF Crash, Die, TypeOK
<1>2. publisher' \in BOOLEAN
  BY DEF Crash, Die
<1> QED
  BY <1>1, <1>2 DEF Crash, Die, TypeOK

\* A step that leaves the history and the rows alone and selects none.
LEMMA QuietStep ==
  ASSUME QueueInv, TypeOK', UNCHANGED <<table, handed>>,
         pub' \in {"publish", "written", "stuck", "update"} =>
           row' = row /\ pub \in {"publish", "written", "stuck", "update"},
         pub' \in {"written", "update"} => pub \in {"written", "update"},
         main' # "radio" => main # "radio" \/ nextId <= MaxRows
  PROVE  QueueInv'
<1>1. Handed' = Handed
  BY DEF Handed
<1> QED
  BY <1>1
  DEF QueueInv, RowIsOldest, IdsInUse, UnsentComeLater, NoUnsentLoss,
      HandedInOrder

LEMMA NextInv == QueueInv /\ [Next]_vars => QueueInv'
<1> SUFFICES ASSUME QueueInv, [Next]_vars PROVE QueueInv'
  OBVIOUS
<1>0. TypeOK
  BY DEF QueueInv
<1>1. CASE Setup
  <2>1. faults' \in 0 .. MaxFaults
    BY <1>0, <1>1, FaultType
    DEF Setup, OpenExisting, CreateFile, OpenAgain, CreateTable, OpenFails, TypeOK
  <2>2. publisher' \in BOOLEAN
    BY <1>0, <1>1
    DEF Setup, OpenExisting, CreateFile, OpenAgain, CreateTable, OpenFails, TypeOK
  <2>3. TypeOK'
    BY <1>0, <1>1, <2>1, <2>2
    DEF Setup, OpenExisting, CreateFile, OpenAgain, CreateTable, OpenFails, TypeOK
  <2> QED
    BY <2>3, <1>1, QuietStep
    DEF Setup, OpenExisting, CreateFile, OpenAgain, CreateTable, OpenFails
<1>2. CASE Report \/ MainEnter
  <2>1. TypeOK'
    BY <1>0, <1>2 DEF Report, MainEnter, MainGoto, TypeOK
  <2> QED
    BY <2>1, <1>2, QuietStep DEF Report, MainEnter, MainGoto
<1>3. CASE Insert
  <2>1. TypeOK'
    BY <1>0, <1>3, FaultType, BoundsAssumption
    DEF QueueInv, IdsInUse, Insert, MainGoto, TypeOK
  <2>2. CASE UNCHANGED table
    BY <2>1, <2>2, <1>3, QuietStep DEF Insert, MainGoto
  <2>3. CASE unsent' = unsent \cup {nextId} /\ nextId' = nextId + 1 /\ UNCHANGED sent
    <3>1. Handed' = Handed /\ UNCHANGED <<handed, pub, row>>
      BY <1>3 DEF Insert, Handed
    <3>2. \A s \in unsent : s <= nextId
      BY <1>0 DEF QueueInv, IdsInUse, TypeOK
    <3>3. RowIsOldest'
      BY <2>3, <3>1, <3>2, <1>0 DEF QueueInv, RowIsOldest, TypeOK
    <3>4. IdsInUse'
      BY <2>3, <3>1, <1>0, <1>3 DEF QueueInv, IdsInUse, TypeOK, Insert, MainGoto
    <3>5. UnsentComeLater'
      BY <2>3, <3>1, <1>0 DEF QueueInv, UnsentComeLater, IdsInUse, Handed, TypeOK
    <3> QED
      BY <2>1, <2>3, <3>1, <3>3, <3>4, <3>5, <1>0
      DEF QueueInv, NoUnsentLoss, HandedInOrder, TypeOK
  <2> QED
    BY <1>3, <2>2, <2>3 DEF Insert
<1>4. CASE \/ PubEnter \/ SelectNone \/ SelectFails
           \/ PublishReturns \/ PublishFails \/ PublishHangs
  <2>1. TypeOK'
    BY <1>0, <1>4, FaultType
    DEF PubEnter, SelectNone, SelectFails, PublishReturns, PublishFails,
        PublishHangs, PubGoto, TypeOK
  <2> QED
    BY <2>1, <1>4, QuietStep
    DEF PubEnter, SelectNone, SelectFails, PublishReturns, PublishFails,
        PublishHangs, PubGoto
<1>5. CASE SelectOldest
  <2>1. TypeOK'
    BY <1>0, <1>5 DEF SelectOldest, PubGoto, TypeOK
  <2>2. Handed' = Handed
    BY <1>5 DEF SelectOldest, Handed
  <2> QED
    BY <2>1, <2>2, <1>5
    DEF SelectOldest, PubGoto, QueueInv, RowIsOldest, IdsInUse,
        UnsentComeLater, NoUnsentLoss, HandedInOrder
<1>7. CASE Publish
  <2>1. row \in unsent /\ \A s \in unsent : row <= s
    BY <1>7 DEF QueueInv, RowIsOldest, Publish, PubGoto
  <2>2. row \in Ids /\ handed \in Seq(Ids) /\ handed' = Append(handed, row)
    BY <2>1, <1>0, <1>7 DEF TypeOK, Publish
  <2>3. Handed' = Handed \cup {row} /\ handed' \in Seq(Ids)
    BY <2>2, WriteAppends
  <2>4. TypeOK'
    BY <2>1, <2>3, <1>0, <1>7 DEF Publish, PubGoto, TypeOK
  <2>5. HandedInOrder' /\ UnsentComeLater'
    BY <2>1, <2>2, <1>7, WriteAppends, <1>0
    DEF QueueInv, HandedInOrder, UnsentComeLater, TypeOK, Publish
  <2> QED
    BY <2>1, <2>3, <2>4, <2>5, <1>7, <1>0
    DEF QueueInv, RowIsOldest, IdsInUse, NoUnsentLoss, TypeOK, Publish, PubGoto
<1>8. CASE Update
  <2>1. row \in unsent /\ row \in Handed /\ Handed' = Handed
    BY <1>8 DEF QueueInv, RowIsOldest, Update, PubGoto, Handed
  <2>2. TypeOK'
    BY <2>1, <1>0, <1>8, FaultType DEF Update, PubGoto, TypeOK
  <2> QED
    BY <2>1, <2>2, <1>8
    DEF Update, PubGoto, QueueInv, RowIsOldest, IdsInUse, UnsentComeLater,
        NoUnsentLoss, HandedInOrder
<1>9. CASE DeleteOld
  <2>1. TypeOK'
    BY <1>0, <1>9 DEF DeleteOld, PubGoto, TypeOK
  <2>2. Handed' = Handed
    BY <1>9 DEF DeleteOld, Handed
  <2> QED
    BY <2>1, <2>2, <1>9
    DEF DeleteOld, PubGoto, QueueInv, RowIsOldest, IdsInUse, UnsentComeLater,
        NoUnsentLoss, HandedInOrder
<1>10. CASE Crash
  <2>1. TypeOK'
    BY <1>0, <1>10, DieType
  <2> QED
    BY <2>1, <1>10, QuietStep DEF Crash, Die
<1>11. CASE Restart
  <2>1. TypeOK'
    BY <1>0, <1>11 DEF Restart, TypeOK
  <2> QED
    BY <2>1, <1>11, QuietStep DEF Restart
<1>12. CASE UNCHANGED vars
  <2>1. TypeOK'
    BY <1>0, <1>12 DEF vars, TypeOK
  <2> QED
    BY <2>1, <1>12, QuietStep DEF vars
<1> QED
  BY <1>1, <1>2, <1>3, <1>4, <1>5, <1>7, <1>8, <1>9, <1>10, <1>11, <1>12
  DEF Next, Publisher

\* The invariant of the table, the publisher and the history of hand-overs.
THEOREM QueueInvariance == Spec => []QueueInv
  BY InitInv, NextInv, PTL DEF Spec

\* A report in the table is never lost before it has been handed to MQTT.
THEOREM NothingUnsentIsLost == Spec => []NoUnsentLoss
<1>1. QueueInv => NoUnsentLoss
  BY DEF QueueInv
<1> QED
  BY <1>1, QueueInvariance, PTL

\* Reports are handed to MQTT in the order in which they were stored.
THEOREM AlwaysHandedInOrder == Spec => []HandedInOrder
<1>1. QueueInv => HandedInOrder
  BY DEF QueueInv
<1> QED
  BY <1>1, QueueInvariance, PTL

\* What RepeatsNeedFaults needs: a report that has been written and is still
\* unsent will be written again only after one more failure.
RetriesCost ==
  \A k \in DOMAIN handed : handed[k] \in unsent =>
    Len(handed) - k + (IF pub \in {"written", "update"} THEN 0 ELSE 1) <= faults

RepeatInv == QueueInv /\ RetriesCost /\ RepeatsNeedFaults

\* RepeatsNeedFaults, said of two hand-overs.
LEMMA RepeatsMeans ==
  ASSUME NEW h, NEW f
  PROVE  (\A id \in {h[k] : k \in DOMAIN h} :
            LET times == {k \in DOMAIN h : h[k] = id}
            IN  \A j, k \in times : k - j <= f)
         <=> \A j, k \in DOMAIN h : h[j] = h[k] => k - j <= f
  OBVIOUS

\* A step that writes nothing keeps both, if it counts a failure whenever it
\* leaves the UPDATE of a written row undone.
LEMMA NoWriteStep ==
  ASSUME RepeatInv, UNCHANGED handed, faults' \in Nat, faults' >= faults,
         \A k \in DOMAIN handed : handed[k] \in unsent' => handed[k] \in unsent,
         \/ pub \in {"written", "update"} => pub' \in {"written", "update"}
         \/ faults' >= faults + 1
         \/ \A k \in DOMAIN handed : handed[k] \notin unsent'
  PROVE  RetriesCost' /\ RepeatsNeedFaults'
<1> handed \in Seq(Ids) /\ Len(handed) \in Nat /\ faults \in Nat
    /\ DOMAIN handed = 1 .. Len(handed)
  BY BoundsAssumption DEF RepeatInv, QueueInv, TypeOK
<1>1. RetriesCost'
  BY DEF RepeatInv, RetriesCost
<1>2. \A j, k \in DOMAIN handed : handed[j] = handed[k] => k - j <= faults
  BY RepeatsMeans DEF RepeatInv, RepeatsNeedFaults, Handed
<1>3. \A j, k \in DOMAIN handed : handed[j] = handed[k] => k - j <= faults'
  BY <1>2
<1>4. RepeatsNeedFaults'
  BY <1>3, RepeatsMeans DEF RepeatsNeedFaults, Handed
<1> QED
  BY <1>1, <1>4

LEMMA RepeatStep == RepeatInv /\ [Next]_vars => RepeatInv'
<1> SUFFICES ASSUME RepeatInv, [Next]_vars PROVE RetriesCost' /\ RepeatsNeedFaults'
  BY NextInv DEF RepeatInv
<1>0. /\ handed \in Seq(Ids) /\ Len(handed) \in Nat
      /\ DOMAIN handed = 1 .. Len(handed)
      /\ faults \in Nat /\ nextId \in Nat /\ unsent \subseteq Ids
  BY BoundsAssumption DEF RepeatInv, QueueInv, TypeOK
<1>1. CASE Publish
  <2>1. row \in unsent /\ row \in Ids
    BY <1>0, <1>1 DEF RepeatInv, QueueInv, RowIsOldest, Publish, PubGoto
  <2>2. /\ Len(handed') = Len(handed) + 1
        /\ handed'[Len(handed) + 1] = row
        /\ \A k \in 1 .. Len(handed) : handed'[k] = handed[k]
        /\ DOMAIN handed' = 1 .. Len(handed) + 1
    BY <1>0, <1>1, <2>1 DEF Publish
  <2>3. \A k \in 1 .. Len(handed) :
          handed[k] \in unsent => Len(handed) + 1 - k <= faults
    BY <1>0, <1>1 DEF RepeatInv, RetriesCost, Publish, PubGoto
  <2>4. RetriesCost'
    BY <1>0, <1>1, <2>2, <2>3 DEF RetriesCost, Publish, PubGoto
  <2>5. ASSUME NEW j \in DOMAIN handed', NEW k \in DOMAIN handed',
               handed'[j] = handed'[k]
        PROVE  k - j <= faults
    <3>1. CASE k <= Len(handed) /\ j <= Len(handed)
      <4>1. \A i, l \in DOMAIN handed : handed[i] = handed[l] => l - i <= faults
        BY RepeatsMeans DEF RepeatInv, RepeatsNeedFaults, Handed
      <4>2. j \in DOMAIN handed /\ k \in DOMAIN handed /\ handed[j] = handed[k]
        BY <3>1, <2>2, <2>5, <1>0
      <4> QED
        BY <4>1, <4>2
    <3>2. CASE k = Len(handed) + 1 /\ j <= Len(handed)
      BY <3>2, <2>1, <2>2, <2>3, <2>5, <1>0
    <3> QED
      BY <3>1, <3>2, <2>2, <1>0
  <2> QED
    BY <1>1, <2>4, <2>5 DEF RepeatsNeedFaults, Publish
<1>2. CASE Insert
  <2>1. \A k \in DOMAIN handed : handed[k] # nextId
    BY <1>0 DEF RepeatInv, QueueInv, IdsInUse, Handed
  <2> QED
    BY <1>0, <1>2, <2>1, NoWriteStep DEF Insert, MainGoto, Fault
<1>3. CASE Update
  <2>1. CASE unsent' = unsent \ {row} /\ UNCHANGED faults
    <3>1. row \in unsent /\ (\A s \in unsent : row <= s)
      BY <1>3 DEF RepeatInv, QueueInv, RowIsOldest, Update, PubGoto
    <3>2. \A k \in DOMAIN handed : handed[k] <= row
      BY <3>1 DEF RepeatInv, QueueInv, UnsentComeLater
    <3>3. \A k \in DOMAIN handed : handed[k] \in Nat
      BY <1>0, BoundsAssumption
    <3>4. \A k \in DOMAIN handed : handed[k] \notin unsent'
      BY <3>1, <3>2, <3>3, <2>1, <1>0, BoundsAssumption
    <3> QED
      BY <1>0, <1>3, <2>1, <3>4, NoWriteStep DEF Update, PubGoto
  <2>2. CASE Fault /\ UNCHANGED <<unsent, sent>>
    BY <1>0, <1>3, <2>2, NoWriteStep DEF Update, PubGoto, Fault
  <2> QED
    BY <1>3, <2>1, <2>2 DEF Update
<1>4. CASE Setup
  BY <1>0, <1>4, NoWriteStep
  DEF Setup, OpenExisting, CreateFile, OpenAgain, CreateTable, OpenFails, Fault
<1>5. CASE Report \/ MainEnter \/ PubEnter \/ SelectNone \/ SelectOldest
  BY <1>0, <1>5, NoWriteStep
  DEF Report, MainEnter, MainGoto, PubEnter, SelectNone, SelectOldest, PubGoto
<1>6. CASE SelectFails \/ PublishReturns \/ PublishFails \/ PublishHangs
  BY <1>0, <1>6, NoWriteStep
  DEF SelectFails, PublishReturns, PublishFails, PublishHangs, PubGoto, Fault
<1>7. CASE DeleteOld
  BY <1>0, <1>7, NoWriteStep DEF DeleteOld, PubGoto
<1>8. CASE Crash
  BY <1>0, <1>8, NoWriteStep DEF Crash, Die, Fault
<1>9. CASE Restart \/ UNCHANGED vars
  BY <1>0, <1>9, NoWriteStep DEF Restart, vars
<1> QED
  BY <1>1, <1>2, <1>3, <1>4, <1>5, <1>6, <1>7, <1>8, <1>9 DEF Next, Publisher

\* A report is handed over again only because something failed in between:
\* never more often than there were failures.
THEOREM RepeatsAlwaysNeedFaults == Spec => []RepeatsNeedFaults
<1>1. Init => RepeatInv
  BY InitInv DEF Init, RepeatInv, RetriesCost, RepeatsNeedFaults, Handed
<1>2. RepeatInv => RepeatsNeedFaults
  BY DEF RepeatInv
<1> QED
  BY <1>1, <1>2, RepeatStep, PTL DEF Spec

-----------------------------------------------------------------------------
(* The refinement.                                                         *)

LEMMA QueueInit == Init => Queue!Init
  BY DEF Init, Queue!Init

\* An INSERT is a Store, a message written to the connection a HandOver, an
\* UPDATE a Settle; every other step leaves the queue alone.
LEMMA QueueStep ==
  QueueInv /\ [Next]_vars => [Queue!Next]_<<nextId, unsent, handed>>
<1> SUFFICES ASSUME QueueInv, [Next]_vars
             PROVE  Queue!Next \/ UNCHANGED <<nextId, unsent, handed>>
  OBVIOUS
<1> USE DEF Queue!Next
<1>1. CASE Insert
  BY <1>1 DEF Insert, Queue!Store
<1>2. CASE Publish
  BY <1>2 DEF Publish, PubGoto, QueueInv, RowIsOldest, Queue!HandOver, Queue!Oldest
<1>3. CASE Update
  <2>1. PICK k \in DOMAIN handed : handed[k] = row
    BY <1>3 DEF Update, PubGoto, QueueInv, RowIsOldest, Handed
  <2> QED
    BY <2>1, <1>3
    DEF Update, PubGoto, QueueInv, RowIsOldest, Queue!Settle, Queue!Oldest
<1>4. CASE Setup
  BY <1>4 DEF Setup, OpenExisting, CreateFile, OpenAgain, CreateTable, OpenFails
<1>5. CASE Report \/ MainEnter \/ Crash \/ Restart \/ UNCHANGED vars
  BY <1>5 DEF Report, MainEnter, Crash, Die, Restart, vars
<1>6. CASE \/ PubEnter \/ SelectOldest \/ SelectNone \/ SelectFails
           \/ PublishReturns \/ PublishFails \/ PublishHangs \/ DeleteOld
  BY <1>6 DEF PubEnter, SelectOldest, SelectNone, SelectFails, PublishReturns,
              PublishFails, PublishHangs, DeleteOld
<1> QED
  BY <1>1, <1>2, <1>3, <1>4, <1>5, <1>6 DEF Next, Publisher

\* The database implements the abstract queue.
THEOREM Refinement == Spec => RefinesQueue
  BY QueueInit, QueueStep, QueueInvariance, PTL DEF Spec, RefinesQueue, Queue!Spec
=============================================================================
