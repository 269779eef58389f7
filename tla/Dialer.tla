------------------------------- MODULE Dialer -------------------------------
(***************************************************************************)
(* www_connect of 4gconnect.c: it opens the 4G modem's serial port, brings *)
(* the connection up with AT commands, and then reports the unit's address *)
(* to the MQTT server until something fails.  The report is the call of    *)
(* mqtt_publish_message in Mqtt.tla.                                       *)
(*                                                                         *)
(* A command is written, the program sleeps, and whatever has arrived by   *)
(* then is read as the command's answer.  Nothing ties an answer to its    *)
(* command, and only ATE0 discards what is still in the input.             *)
(***************************************************************************)
EXTENDS Naturals, Sequences, Mqtt

VARIABLES
  pc,            \* the command in turn, or "open", "address", "publish", "exit"
  waiting,       \* the command in turn has been written and not yet answered
  repeat_count,
  requests,      \* commands the modem has received and not yet executed
  input,         \* answers in the port's input
  modem,         \* what the modem has been told to do: radio on, network, address
  late,          \* an answer was missing when its time was up
  reported       \* history: the report in turn has been written to the connection

dialVars == <<pc, waiting, repeat_count, requests, input, modem, late>>
callVars == <<mqttVars, reported>>
vars == <<dialVars, callVars>>

Commands == {"ATE0", "CGSN", "CIMI", "CFUN0", "CFUN1", "CGACT", "ZGACT"}
Answers == {"OK", "ERROR"}
Reporting == {"address", "publish"}

\* The limits of the three retry loops.
OpenLimit == 5
EchoLimit == 5
ActivateLimit == 3

ModemOff == [radio |-> FALSE, network |-> FALSE, address |-> FALSE]

TypeOK ==
  /\ pc \in Commands \cup Reporting \cup {"open", "exit"}
  /\ waiting \in BOOLEAN
  /\ repeat_count \in 0 .. 6
  /\ requests \in Seq(Commands) /\ input \in Seq(Answers)
  /\ modem \in [radio : BOOLEAN, network : BOOLEAN, address : BOOLEAN]
  /\ late \in BOOLEAN /\ reported \in BOOLEAN
  /\ MqttTypeOK

Init ==
  /\ pc = "open" /\ waiting = FALSE /\ repeat_count = 0
  /\ requests = <<>> /\ input = <<>>
  /\ modem \in {ModemOff, [radio |-> TRUE, network |-> TRUE, address |-> TRUE]}
  /\ late = FALSE /\ reported = FALSE
  /\ MqttInit

lineVars == <<requests, input, modem, late>>

-----------------------------------------------------------------------------
(* Opening the port.                                                       *)

OpenPort ==
  /\ pc = "open"
  /\ pc' = "ATE0" /\ repeat_count' = 0
  /\ UNCHANGED <<waiting, lineVars, callVars>>

\* Every USB device is reset, the modem among them if it is there.
reset_usb_main == modem' \in {modem, ModemOff}

\* The USB devices are reset before the next attempt.
OpenFails ==
  /\ pc = "open"
  /\ repeat_count' = repeat_count + 1
  /\ \/ repeat_count' > OpenLimit /\ pc' = "exit" /\ UNCHANGED modem
     \/ repeat_count' <= OpenLimit /\ pc' = "open" /\ reset_usb_main
  /\ UNCHANGED <<waiting, requests, input, late, callVars>>

-----------------------------------------------------------------------------
(* The commands.                                                           *)

\* tcflush follows the write and may discard the command before it is sent;
\* for CGACT it precedes the write.  ATE0 flushes the input, too.
WriteCommand ==
  /\ pc \in Commands /\ ~waiting
  /\ waiting' = TRUE
  /\ \/ requests' = Append(requests, pc)
     \/ pc # "CGACT" /\ UNCHANGED requests
  /\ input' = IF pc = "ATE0" THEN <<>> ELSE input
  /\ UNCHANGED <<pc, repeat_count, modem, late, callVars>>

\* The modem executes the commands in turn and may take any time for it.
ModemAnswers ==
  /\ requests # <<>>
  /\ requests' = Tail(requests)
  /\ LET c == Head(requests)
     IN  \/ /\ c = "CGACT" => modem.radio
            /\ c = "ZGACT" => modem.network
            /\ input' = Append(input, "OK")
            /\ modem' = IF c = "CFUN0" THEN ModemOff
                        ELSE [radio   |-> modem.radio \/ c = "CFUN1",
                              network |-> modem.network \/ c = "CGACT",
                              address |-> modem.address \/ c = "ZGACT"]
         \/ input' = Append(input, "ERROR") /\ UNCHANGED modem
  /\ UNCHANGED <<pc, waiting, repeat_count, late, callVars>>

\* The time of the command is up: everything in the input is read at once.
Read(c, next, count) ==
  /\ pc = c /\ waiting
  /\ waiting' = FALSE /\ input' = <<>>
  /\ pc' = next /\ repeat_count' = count
  /\ late' = (late \/ requests # <<>>)
  /\ UNCHANGED <<requests, modem, callVars>>

\* strstr(read_buffer, "OK")
SeesOk == \E k \in DOMAIN input : input[k] = "OK"

\* (mutant) One attempt more.
EchoOffOnceMore ==
  \/ SeesOk /\ Read("ATE0", "CGSN", repeat_count)
  \/ ~SeesOk /\ repeat_count <= EchoLimit + 1 /\ Read("ATE0", "ATE0", repeat_count + 1)
  \/ ~SeesOk /\ repeat_count > EchoLimit + 1 /\ Read("ATE0", "exit", repeat_count)

EchoOff ==
  \/ SeesOk /\ Read("ATE0", "CGSN", repeat_count)
  \/ ~SeesOk /\ repeat_count <= EchoLimit /\ Read("ATE0", "ATE0", repeat_count + 1)
  \/ ~SeesOk /\ repeat_count > EchoLimit /\ Read("ATE0", "exit", repeat_count)

\* The answers to CGSN and CIMI are logged.
Identify ==
  \/ Read("CGSN", "CIMI", repeat_count)
  \/ Read("CIMI", "CFUN0", repeat_count)

\* The count starts again before CGACT.
CountAfter(c) == IF c = "CFUN1" THEN 0 ELSE repeat_count

\* (mutant) The answer to ZGACT is not looked at.
OnceUnchecked(c, next) ==
  Read(c, IF SeesOk \/ c = "ZGACT" THEN next ELSE "exit", CountAfter(c))

\* These commands are given once.
Once(c, next) == Read(c, IF SeesOk THEN next ELSE "exit", CountAfter(c))

\* (mutant) The attempts are not counted.
ActivateUncounted ==
  \/ SeesOk /\ Read("CGACT", "ZGACT", repeat_count)
  \/ ~SeesOk /\ repeat_count <= ActivateLimit /\ Read("CGACT", "CGACT", repeat_count)
  \/ ~SeesOk /\ repeat_count > ActivateLimit /\ Read("CGACT", "exit", repeat_count)

Activate ==
  \/ SeesOk /\ Read("CGACT", "ZGACT", repeat_count)
  \/ ~SeesOk /\ repeat_count <= ActivateLimit /\ Read("CGACT", "CGACT", repeat_count + 1)
  \/ ~SeesOk /\ repeat_count > ActivateLimit /\ Read("CGACT", "exit", repeat_count)

Dial ==
  \/ EchoOff \/ Identify \/ Once("CFUN0", "CFUN1") \/ Once("CFUN1", "CGACT")
  \/ Activate \/ Once("ZGACT", "address")

-----------------------------------------------------------------------------
(* The reports.                                                            *)

Report(from, next) ==
  /\ pc = from /\ pc' = next
  /\ UNCHANGED <<waiting, repeat_count, lineVars>>

\* get_ipaddress finds an address of eth1, or none, or 0.0.0.0 or 169.x.
ReadAddress ==
  /\ Report("address", "publish") \/ Report("address", "exit")
  /\ reported' = FALSE
  /\ UNCHANGED mqttVars

PublishStep ==
  /\ pc = "publish"
  /\ \/ Enter \/ mosquitto_new \/ mosquitto_connect \/ mosquitto_loop_start
     \/ mosquitto_publish \/ mosquitto_publish_fails
  /\ UNCHANGED <<dialVars, reported>>

\* After a failed report the program ends.
PublishReturns ==
  /\ \/ SetUpFails /\ Report("publish", "exit")
     \/ /\ mosquitto_loop_stop
        /\ Report("publish", IF ret = 0 THEN "address" ELSE "exit")
  /\ UNCHANGED reported

LoopThread ==
  /\ \/ WritePublish /\ reported' = TRUE
     \/ /\ \/ mqttqos_publish_callback \/ WriteDisconnect
           \/ mqttqos_disconnect_callback
        /\ UNCHANGED reported
  /\ UNCHANGED dialVars

\* The connection is refused or lost and a callback calls exit().
CallbackExits ==
  /\ Looping
  /\ Report("publish", "exit")
  /\ MqttStops /\ UNCHANGED reported

-----------------------------------------------------------------------------

Program ==
  \/ OpenPort \/ OpenFails \/ WriteCommand \/ Dial
  \/ ReadAddress \/ PublishStep \/ PublishReturns

Next == Program \/ LoopThread \/ CallbackExits \/ ModemAnswers

\* The port is read without waiting for input, and both threads run.
Spec == Init /\ [][Next]_vars /\ WF_vars(Program) /\ WF_vars(LoopThread)

-----------------------------------------------------------------------------
(* Properties.                                                             *)

\* When the reports start the connection is up, provided that every answer came
\* in time.  A late answer is read as the next command's, and a command that
\* tcflush discarded is then taken as carried out.
ConnectedUnlessLate == pc \in Reporting /\ ~late => modem.address

\* The parts that make this inductive.  As long as nothing was late, the line
\* holds nothing of an earlier command, and an OK there means what it says.
AnswersMatch ==
  ~late =>
    /\ ~waiting => requests = <<>> /\ input = <<>>
    /\ requests # <<>> => requests = <<pc>> /\ input = <<>>
    /\ input # <<>> => Len(input) = 1
    /\ pc = "ZGACT" /\ SeesOk => modem.address

\* A command is waited for, and the attempts to open the port are counted.
DialInPlace ==
  /\ waiting => pc \in Commands
  /\ pc = "open" => repeat_count <= OpenLimit

\* The call is made by the report loop only; its loop thread and its packets
\* are there as long as it needs them.
CallInPlace ==
  /\ call # "idle" => pc = "publish"
  /\ thread # "none" <=> call \in {"publish", "loop_stop"}
  /\ call = "publish" => thread = "running"
  /\ out # {} => thread = "running" /\ call = "loop_stop"

\* The loop thread has written the report and will end, or still has it to write,
\* unless the publish failed: then it runs for ever and nothing is queued for it.
StopsOrHangs ==
  call = "loop_stop" =>
    \/ ret = 0 /\ Written /\ reported
    \/ ret = 0 /\ out = {"PUBLISH"} /\ thread = "running"
    \/ ret # 0 /\ out = {} /\ thread = "running"

\* The inductive invariant: the dialogue, the counters and the call keep to their
\* places, and answers to their commands.
DialInv ==
  /\ TypeOK /\ DialInPlace /\ AnswersMatch /\ CallInPlace /\ StopsOrHangs
  /\ ConnectedUnlessLate

\* Whatever the modem does, dialling ends: with the reports or with the process.
DialingEnds == <>(pc \in Reporting \cup {"exit"})

\* The loop goes on to its next report only when the loop thread has written this
\* one to the connection, although mosquitto_publish returns before.
NextReportAfterThis ==
  [][pc = "publish" /\ pc' = "address" => reported]_vars

\* A report ends: it is written or the program exits, unless mosquitto_publish
\* failed and mosquitto_loop_stop waits for ever, with the modem left as it is.
ReportEnds == pc = "publish" ~> pc # "publish" \/ Hung
=============================================================================
