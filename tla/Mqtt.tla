-------------------------------- MODULE Mqtt --------------------------------
(***************************************************************************)
(* mqtt_publish_message of common.c and the callbacks it registers.        *)
(*                                                                         *)
(* The calling thread connects, starts the loop thread of the mosquitto    *)
(* library, queues one message and waits in mosquitto_loop_stop for that   *)
(* thread to end.  The loop thread writes what is queued and runs the      *)
(* callbacks; it ends only after a DISCONNECT has been written, and only   *)
(* mqttqos_publish_callback asks for one.                                  *)
(*                                                                         *)
(* The library is not in this repository; its part is taken from the calls *)
(* made here and from the log in the comment above the function.  There is *)
(* one call at a time, so the message itself is left to the caller.        *)
(***************************************************************************)
EXTENDS Naturals

VARIABLES
  call,    \* the calling thread's place in mqtt_publish_message
  ret,     \* what mosquitto_publish returned, 0 or an error
  thread,  \* the loop thread, "none" if there is none
  out      \* the packets queued for the connection, never more than one

mqttVars == <<call, ret, thread, out>>

MqttTypeOK ==
  /\ call \in {"idle", "new", "connect", "loop_start", "publish", "loop_stop"}
  /\ ret \in {0, 1}
  /\ thread \in {"none", "running", "publish_cb", "disconnect_cb", "ended"}
  /\ out \in {{}, {"PUBLISH"}, {"DISCONNECT"}}

MqttInit == call = "idle" /\ ret = 0 /\ thread = "none" /\ out = {}

-----------------------------------------------------------------------------
(* The calling thread.                                                     *)

CallGoto(from, to) == call = from /\ call' = to

\* mqtt_publish_message is called.
Enter == CallGoto("idle", "new") /\ UNCHANGED <<ret, thread, out>>

mosquitto_new == CallGoto("new", "connect") /\ UNCHANGED <<ret, thread, out>>

\* The CONNECT is written here; its answer comes to the loop thread.
mosquitto_connect ==
  CallGoto("connect", "loop_start") /\ UNCHANGED <<ret, thread, out>>

mosquitto_loop_start ==
  /\ CallGoto("loop_start", "publish")
  /\ thread' = "running"
  /\ UNCHANGED <<ret, out>>

\* One of these three fails and -1 is returned.
SetUpFails ==
  /\ call \in {"new", "connect", "loop_start"}
  /\ call' = "idle"
  /\ UNCHANGED <<ret, thread, out>>

mosquitto_publish ==
  /\ CallGoto("publish", "loop_stop")
  /\ ret' = 0 /\ out' = out \cup {"PUBLISH"}
  /\ UNCHANGED thread

\* It fails: nothing is queued, and the call goes on to mosquitto_loop_stop.
mosquitto_publish_fails ==
  /\ CallGoto("publish", "loop_stop")
  /\ ret' = 1
  /\ UNCHANGED <<thread, out>>

\* (mutant) mosquitto_loop_stop(mosq, true): the thread is cancelled.
mosquitto_loop_stop_forced ==
  /\ CallGoto("loop_stop", "idle")
  /\ thread' = "none" /\ out' = {} /\ ret' = 0

\* mosquitto_loop_stop(mosq, false) waits for the thread; then ret is returned.
mosquitto_loop_stop ==
  /\ CallGoto("loop_stop", "idle")
  /\ thread = "ended" /\ thread' = "none"
  /\ out' = {} /\ ret' = 0

-----------------------------------------------------------------------------
(* The loop thread.                                                        *)

ThreadGoto(from, to) == thread = from /\ thread' = to

WritePacket(type, to) ==
  /\ ThreadGoto("running", to)
  /\ type \in out /\ out' = out \ {type}
  /\ UNCHANGED <<call, ret>>

\* A QoS 0 message is published as soon as it is written.
WritePublish == WritePacket("PUBLISH", "publish_cb")

\* (mutant) The callback does not disconnect.
publish_callback_idle ==
  ThreadGoto("publish_cb", "running") /\ UNCHANGED <<call, ret, out>>

mqttqos_publish_callback ==
  /\ ThreadGoto("publish_cb", "running")
  /\ out' = out \cup {"DISCONNECT"}
  /\ UNCHANGED <<call, ret>>

WriteDisconnect == WritePacket("DISCONNECT", "disconnect_cb")

\* With result 0, after a DISCONNECT: the thread ends.
mqttqos_disconnect_callback ==
  ThreadGoto("disconnect_cb", "ended") /\ UNCHANGED <<call, ret, out>>

\* The loop thread is reading and writing the connection: it may find a
\* CONNACK that refuses, or the connection lost.
Looping == thread = "running"

\* The process ends: the callbacks of connect and disconnect call exit() for any
\* result but 0.
MqttStops ==
  call' = "idle" /\ ret' = 0 /\ thread' = "none" /\ out' = {}

-----------------------------------------------------------------------------
(* Where a call has got to.                                                *)

\* The PUBLISH has been written, the DISCONNECT may have been.
Written ==
  thread \in {"publish_cb", "disconnect_cb", "ended"} \/ out = {"DISCONNECT"}

\* The call waits for a loop thread nobody has told to disconnect.
Hung == call = "loop_stop" /\ ret # 0
=============================================================================
