------------------------------- MODULE Uplink -------------------------------
(***************************************************************************)
(* The publisher of Outbox.tla with the call of mqtt_publish_message in    *)
(* full, as Mqtt.tla has it: callbackSelect makes the call inside its      *)
(* SELECT, with the mutex of the database held, while the radio loop may   *)
(* want that mutex and a callback may end the process.                     *)
(*                                                                         *)
(* `pub' stays at "publish" during the call.                               *)
(***************************************************************************)
EXTENDS Outbox, Mqtt

uplinkVars == <<vars, mqttVars>>

UplinkInit == Init /\ MqttInit

storeVars == <<db, table, boot, publisher, mutex, main>>

\* What callbackSelect, DELETE and the radio loop do outside the call.
Around ==
  \/ SelectOldest \/ SelectNone \/ SelectFails \/ Update \/ DeleteOld

-----------------------------------------------------------------------------
(* callbackSelect in mqtt_publish_message.                                 *)

InCall == publisher /\ pub = "publish"

CallStep ==
  /\ InCall
  /\ \/ Enter \/ mosquitto_new \/ mosquitto_connect \/ mosquitto_loop_start
     \/ mosquitto_publish
  /\ UNCHANGED vars

PublishError ==
  /\ InCall
  /\ mosquitto_publish_fails
  /\ Fault
  /\ UNCHANGED <<storeVars, pub, row, handed>>

\* (mutant) callbackSelect does not test the result.
SetUpErrorIgnored ==
  /\ SetUpFails
  /\ Fault
  /\ PubGoto("publish", "update")
  /\ UNCHANGED <<storeVars, row, handed>>

\* -1 is returned: callbackSelect keeps the row.
SetUpError == SetUpFails /\ PublishFails

\* callbackSelect goes on to its UPDATE, or keeps the row, by what is returned.
Return ==
  /\ mosquitto_loop_stop
  /\ PubGoto("publish", IF ret = 0 THEN "update" ELSE "delete")
  /\ row' = IF ret = 0 THEN row ELSE 0
  /\ UNCHANGED <<storeVars, handed, faults>>

Caller == CallStep \/ PublishError \/ SetUpError \/ Return

-----------------------------------------------------------------------------
(* The loop thread and the process.                                        *)

Transmit ==
  /\ WritePublish
  /\ handed' = Append(handed, row)
  /\ UNCHANGED <<storeVars, pub, row, faults>>

LoopThread ==
  \/ Transmit
  \/ /\ \/ mqttqos_publish_callback \/ WriteDisconnect
        \/ mqttqos_disconnect_callback
     /\ UNCHANGED vars

\* The loop thread reads a CONNACK that refuses, or finds the connection lost:
\* mqttqos_connect_callback or mqttqos_disconnect_callback calls exit().
CallbackExits == Looping /\ Crash /\ MqttStops

ProcessDies == Crash /\ MqttStops

Outside(A) == A /\ UNCHANGED mqttVars

UplinkNext ==
  \/ Outside(Setup) \/ Outside(Restart)
  \/ Outside(Report) \/ Outside(MainEnter) \/ Outside(Insert)
  \/ Outside(PubEnter) \/ Outside(Around)
  \/ Caller \/ LoopThread \/ CallbackExits \/ ProcessDies

UplinkSpec == UplinkInit /\ [][UplinkNext]_uplinkVars

\* Each thread runs, and the process is started again.  Nothing is asked of the
\* server.  The publisher sleeps for three seconds and the loop is on the radio
\* for longer with the mutex free, so neither keeps the other out for ever.
UplinkFairness ==
  /\ WF_uplinkVars(Outside(Setup)) /\ WF_uplinkVars(Outside(Restart))
  /\ WF_uplinkVars(Outside(Insert)) /\ WF_uplinkVars(Outside(Around))
  /\ WF_uplinkVars(Caller) /\ WF_uplinkVars(LoopThread)
  /\ SF_uplinkVars(Outside(MainEnter)) /\ SF_uplinkVars(Outside(PubEnter))

UplinkFairSpec == UplinkSpec /\ UplinkFairness

-----------------------------------------------------------------------------
(* Properties.                                                             *)

\* The parts that make ZeroMeansWritten inductive: the two threads are never
\* both past sqlite3_mutex_enter; the loop thread exists only inside the call,
\* which is inside the critical section, and is as far as its packets say.
MutexInPlace ==
  /\ publisher => boot = "done"
  /\ pub # "enter" => publisher /\ mutex = "pub"
  /\ main = "insert" => mutex = "main"

UplinkTypeOK == TypeOK /\ MqttTypeOK /\ pub \notin {"written", "stuck"}

CallInPlace ==
  /\ call # "idle" => pub = "publish"
  /\ thread # "none" <=> call \in {"publish", "loop_stop"}
  /\ call = "publish" => thread = "running"
  /\ out # {} => thread = "running" /\ call = "loop_stop"

\* mosquitto_loop_stop is never left with the message unwritten and 0 returned,
\* nor with packets still queued for a connection that is then destroyed.
ZeroMeansWritten ==
  call = "loop_stop" =>
    \/ ret = 0 /\ Written
    \/ ret = 0 /\ out = {"PUBLISH"} /\ thread = "running"
    \/ ret # 0 /\ out = {} /\ thread = "running"

UplinkInv == UplinkTypeOK /\ MutexInPlace /\ CallInPlace /\ ZeroMeansWritten

\* The call in full implements the one of Outbox.
pubSeen ==
  IF pub # "publish" THEN pub
  ELSE IF Hung THEN "stuck"
  ELSE IF Written THEN "written" ELSE "publish"

Abstract == INSTANCE Outbox WITH pub <- pubSeen
ImplementsOutbox == Abstract!Spec

\* A stored report is eventually handed over, in this life of the process or in
\* a later one, whether or not a server answers, unless there is an end to it: a
\* call that hangs, or a life that could not open the file, and no crash after.
StoredIsHanded ==
  \A id \in Ids : id \in unsent ~> id \in Handed \/ [](Hung \/ NoPublisher)

\* The publisher holds the mutex while it talks to the server; the radio loop
\* still gets to store its report, unless a call hangs.
LoopGetsMutex == main = "enter" ~> main # "enter" \/ Hung

\* "skip the blow logic, keep local = 1, retry": a publish that failed comes
\* back to callbackSelect.
FailedPublishReturns == Hung ~> ~InCall
=============================================================================
