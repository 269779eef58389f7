------------------------------- MODULE Outbox -------------------------------
(***************************************************************************)
(* The access point's store and forward of reports: the sqlite table       *)
(* `rawdata', filled by the radio loop (main of tx_explicit_example.c) and *)
(* emptied by the publisher thread (threadUpdate, callbackSelect), which   *)
(* hands each row to mqtt_publish_message and then marks it LOCAL=0.       *)
(* What happens inside that call is in Uplink.tla, which implements this   *)
(* module; here it writes the message and returns, fails or hangs.         *)
(*                                                                         *)
(* The two threads share the connection's mutex.  The process may die at   *)
(* any point, by a crash or by the exit() of the MQTT callbacks; a         *)
(* statement of sqlite is atomic and durable.  Somebody starts the process *)
(* again: the repository does not say who.                                 *)
(***************************************************************************)
EXTENDS Naturals, Sequences

CONSTANTS
  MaxRows,   \* reports stored (a bound)
  MaxFaults  \* failures of sqlite, MQTT or the process (a bound)

ASSUME BoundsAssumption == MaxRows \in Nat /\ MaxFaults \in Nat

VARIABLES
  db,         \* the database file: "absent", "empty" (no table) or "ready"
  unsent,     \* IDs of the rows with LOCAL=1
  sent,       \* IDs of the rows with LOCAL=0
  nextId,     \* the AUTOINCREMENT counter of ID
  boot,       \* thread_pub_db's place, "down" if there is no process
  publisher,  \* thread2 has been created
  mutex,      \* who holds sqlite3_db_mutex(local_db)
  main,       \* the radio loop's place
  pub,        \* the publisher's place
  row,        \* argv[0] of callbackSelect, 0 if no row is selected
  handed,     \* the IDs written to an MQTT connection, in order
  faults      \* failures so far

table == <<unsent, sent, nextId>>
vars == <<db, table, boot, publisher, mutex, main, pub, row, handed, faults>>

Ids == 1 .. MaxRows

TypeOK ==
  /\ db \in {"absent", "empty", "ready"}
  /\ unsent \in SUBSET Ids /\ sent \in SUBSET Ids
  /\ nextId \in 1 .. MaxRows + 1
  /\ boot \in {"down", "open", "create", "done"}
  /\ publisher \in BOOLEAN
  /\ mutex \in {"free", "main", "pub"}
  /\ main \in {"radio", "enter", "insert"}
  /\ pub \in {"enter", "select", "publish", "written", "stuck", "update",
             "delete"}
  /\ row \in Ids \cup {0}
  /\ handed \in Seq(Ids)
  /\ faults \in 0 .. MaxFaults

Init ==
  /\ db \in {"absent", "ready"}
  /\ unsent = {} /\ sent = {} /\ nextId = 1
  /\ boot = "open" /\ publisher = FALSE /\ mutex = "free"
  /\ main = "radio" /\ pub = "enter" /\ row = 0
  /\ handed = <<>> /\ faults = 0

Fault == faults < MaxFaults /\ faults' = faults + 1

-----------------------------------------------------------------------------
(* thread_pub_db, run by main before the radio loop.                       *)

threads == <<mutex, main, pub, row>>

\* The file is there: nothing looks for the table.
OpenExisting ==
  /\ boot = "open" /\ db # "absent"
  /\ boot' = "done" /\ publisher' = TRUE
  /\ UNCHANGED <<db, table, threads, handed, faults>>

\* There is none: the second open creates an empty file ...
CreateFile ==
  /\ boot = "open" /\ db = "absent"
  /\ db' = "empty" /\ boot' = "create"
  /\ UNCHANGED <<table, publisher, threads, handed, faults>>

\* (or it is there, and only the first of the two opens fails)
OpenAgain ==
  /\ boot = "open" /\ db # "absent"
  /\ Fault
  /\ boot' = "create"
  /\ UNCHANGED <<db, table, publisher, threads, handed>>

\* ... and the table follows, or an error is logged; of a table that is there
\* already the error changes nothing.
CreateTable ==
  /\ boot = "create"
  /\ \/ db' = "ready" /\ UNCHANGED faults
     \/ Fault /\ UNCHANGED db
  /\ boot' = "done" /\ publisher' = TRUE
  /\ UNCHANGED <<table, threads, handed>>

\* Both opens fail, whether the file is there or not: no publisher, and main
\* ignores the -1.
OpenFails ==
  /\ boot = "open"
  /\ Fault
  /\ boot' = "done"
  /\ UNCHANGED <<db, table, publisher, threads, handed>>

Setup == OpenExisting \/ CreateFile \/ OpenAgain \/ CreateTable \/ OpenFails

\* After a failed open the connection refuses every statement; thread_pub_db
\* creates the publisher exactly if an open has succeeded.
Usable == publisher /\ db = "ready"

\* The process runs for the rest of its life without a database.
NoPublisher == boot = "done" /\ ~ publisher

-----------------------------------------------------------------------------
(* The radio loop's INSERT.                                                *)

MainGoto(from, to) == boot = "done" /\ main = from /\ main' = to

\* A report has been received.
Report ==
  /\ nextId <= MaxRows
  /\ MainGoto("radio", "enter")
  /\ UNCHANGED <<db, table, boot, publisher, mutex, pub, row, handed, faults>>

MainEnter ==
  /\ MainGoto("enter", "insert")
  /\ mutex = "free" /\ mutex' = "main"
  /\ UNCHANGED <<db, table, boot, publisher, pub, row, handed, faults>>

\* The loop acknowledges the report whether or not the statement succeeded.
Insert ==
  /\ MainGoto("insert", "radio")
  /\ mutex' = "free"
  /\ \/ /\ Usable
        /\ unsent' = unsent \cup {nextId} /\ nextId' = nextId + 1
        /\ UNCHANGED <<sent, faults>>
     \/ ~ Usable /\ UNCHANGED <<table, faults>>
     \/ Fault /\ UNCHANGED table
  /\ UNCHANGED <<db, boot, publisher, pub, row, handed>>

-----------------------------------------------------------------------------
(* The publisher thread.                                                   *)

PubGoto(from, to) == publisher /\ pub = from /\ pub' = to

PubEnter ==
  /\ PubGoto("enter", "select")
  /\ mutex = "free" /\ mutex' = "pub"
  /\ UNCHANGED <<db, table, boot, publisher, main, row, handed, faults>>

\* (mutant) The SELECT has no "order by".
SelectAny ==
  /\ PubGoto("select", "publish")
  /\ db = "ready"
  /\ row' \in unsent
  /\ UNCHANGED <<db, table, boot, publisher, mutex, main, handed, faults>>

\* "... where local=1 order by id limit 1"
SelectOldest ==
  /\ PubGoto("select", "publish")
  /\ db = "ready"
  /\ \E r \in unsent : (\A s \in unsent : r <= s) /\ row' = r
  /\ UNCHANGED <<db, table, boot, publisher, mutex, main, handed, faults>>

SelectNone ==
  /\ PubGoto("select", "delete")
  /\ db = "ready" /\ unsent = {}
  /\ UNCHANGED <<db, table, boot, publisher, mutex, main, row, handed, faults>>

\* After a failed SELECT nothing is deleted.
SelectFails ==
  /\ PubGoto("select", "enter")
  /\ \/ db # "ready" /\ UNCHANGED faults
     \/ Fault
  /\ mutex' = "free"
  /\ UNCHANGED <<db, table, boot, publisher, main, row, handed>>

\* The message is written to a connection, with QoS 0: nobody answers.
Publish ==
  /\ PubGoto("publish", "written")
  /\ handed' = Append(handed, row)
  /\ UNCHANGED <<db, table, boot, publisher, mutex, main, row, faults>>

\* mqtt_publish_message returns 0.
PublishReturns ==
  /\ PubGoto("written", "update")
  /\ UNCHANGED <<db, table, boot, publisher, mutex, main, row, handed, faults>>

\* It returns an error: callbackSelect keeps the row.
PublishFails ==
  /\ PubGoto("publish", "delete")
  /\ Fault
  /\ row' = 0
  /\ UNCHANGED <<db, table, boot, publisher, mutex, main, handed>>

\* It never returns, see Uplink.tla.
PublishHangs ==
  /\ PubGoto("publish", "stuck")
  /\ Fault
  /\ UNCHANGED <<db, table, boot, publisher, mutex, main, row, handed>>

\* (mutant) The WHERE clause of the UPDATE matches nothing.
UpdateNothing ==
  /\ PubGoto("update", "delete")
  /\ row' = 0
  /\ UNCHANGED <<db, table, boot, publisher, mutex, main, handed, faults>>

Update ==
  /\ PubGoto("update", "delete")
  /\ \/ unsent' = unsent \ {row} /\ sent' = sent \cup {row} /\ UNCHANGED faults
     \/ Fault /\ UNCHANGED <<unsent, sent>>
  /\ row' = 0
  /\ UNCHANGED <<db, nextId, boot, publisher, mutex, main, handed>>

\* (mutants) The DELETE has no LOCAL=0; the mutex is not left.
DeleteAny ==
  /\ PubGoto("delete", "enter")
  /\ \E old \in SUBSET (unsent \cup sent) :
       unsent' = unsent \ old /\ sent' = sent \ old
  /\ mutex' = "free"
  /\ UNCHANGED <<db, nextId, boot, publisher, main, row, handed, faults>>

DeleteKeepsMutex ==
  /\ PubGoto("delete", "select")
  /\ \E old \in SUBSET sent : sent' = sent \ old
  /\ UNCHANGED <<db, unsent, nextId, boot, publisher, mutex, main, row, handed, faults>>

\* Rows with LOCAL=0 older than a week go; a row's age is not modelled.
DeleteOld ==
  /\ PubGoto("delete", "enter")
  /\ \E old \in SUBSET sent : sent' = sent \ old
  /\ mutex' = "free"
  /\ UNCHANGED <<db, unsent, nextId, boot, publisher, main, row, handed, faults>>

Publisher ==
  \/ SelectOldest \/ SelectNone \/ SelectFails
  \/ Publish \/ PublishReturns \/ PublishFails \/ PublishHangs
  \/ Update \/ DeleteOld

-----------------------------------------------------------------------------
(* The process.                                                            *)

Die ==
  /\ boot # "down" /\ boot' = "down"
  /\ Fault
  /\ publisher' = FALSE /\ mutex' = "free"
  /\ main' = "radio" /\ pub' = "enter" /\ row' = 0
  /\ UNCHANGED <<db, table>>

\* A crash, or exit() in a callback of MQTT.
Crash == Die /\ UNCHANGED handed

Restart ==
  /\ boot = "down" /\ boot' = "open"
  /\ UNCHANGED <<db, table, publisher, threads, handed, faults>>

Next ==
  \/ Setup \/ Report \/ MainEnter \/ Insert
  \/ PubEnter \/ Publisher \/ Crash \/ Restart

Spec == Init /\ [][Next]_vars

-----------------------------------------------------------------------------
(* Properties.                                                             *)

Handed == {handed[k] : k \in DOMAIN handed}

\* A report that reached the table stays there, marked unsent, until it has
\* been handed to MQTT: no crash, failed statement or clean-up loses it.
NoUnsentLoss == \A id \in 1 .. nextId - 1 : id \in unsent \cup Handed

\* Reports are handed over in the order in which they were stored, and one that
\* is repeated is repeated before any later one.
HandedInOrder ==
  \A j, k \in DOMAIN handed : j <= k => handed[j] <= handed[k]

\* The parts that make these inductive: the row the publisher works on stays
\* the oldest unsent one, whatever the loop inserts meanwhile.
RowIsOldest ==
  /\ pub \in {"publish", "written", "stuck", "update"} =>
       row \in unsent /\ \A s \in unsent : row <= s
  /\ pub \in {"written", "update"} => row \in Handed

IdsInUse ==
  /\ unsent \cup sent \cup Handed \subseteq 1 .. nextId - 1
  /\ main # "radio" => nextId <= MaxRows

UnsentComeLater == \A k \in DOMAIN handed : \A s \in unsent : handed[k] <= s

\* The inductive invariant of INSERT, callbackSelect and the UPDATE.
QueueInv ==
  /\ TypeOK /\ RowIsOldest /\ IdsInUse /\ UnsentComeLater
  /\ NoUnsentLoss /\ HandedInOrder

\* A report is handed over again only because something failed: there are never
\* more repeats of it than there were failures so far.
RepeatsNeedFaults ==
  \A id \in Handed :
    LET times == {k \in DOMAIN handed : handed[k] = id}
    IN  \A j, k \in times : k - j <= faults

\* The database implements the abstract queue.
Queue == INSTANCE ReportQueue WITH next <- nextId, pending <- unsent
RefinesQueue == Queue!Spec

-----------------------------------------------------------------------------
(* What the comments say.                                                  *)

\* "a thread to query local DB": a life of the process that finds the file and
\* logs "Open ... successfully" starts a publisher that has a table to query.
OpenedHasTable == [][boot = "open" /\ publisher' => db = "ready"]_vars
=============================================================================
