---------------------------- MODULE DialerProofs ----------------------------
(***************************************************************************)
(* Proofs about Dialer: DialInv is inductive, so that the reports start    *)
(* with the connection up unless an answer was late, and one report is     *)
(* written before the next begins.  The retry limits are the code's own.   *)
(***************************************************************************)
EXTENDS Dialer, TLAPS

USE DEF mqttVars, callVars, dialVars, lineVars, Commands, Answers, Reporting, OpenLimit,
        EchoLimit, ActivateLimit

LEMMA InitDial == Init => DialInv
<1> SUFFICES ASSUME Init PROVE DialInv
  OBVIOUS
<1> USE DEF Init, MqttInit
<1>1. TypeOK
  <2>1. ModemOff \in [radio : BOOLEAN, network : BOOLEAN, address : BOOLEAN]
    BY DEF ModemOff
  <2>2. [radio |-> TRUE, network |-> TRUE, address |-> TRUE]
          \in [radio : BOOLEAN, network : BOOLEAN, address : BOOLEAN]
    OBVIOUS
  <2>3. modem \in [radio : BOOLEAN, network : BOOLEAN, address : BOOLEAN]
    BY <2>1, <2>2, Zenon
  <2>4. requests \in Seq(Commands) /\ input \in Seq(Answers)
    OBVIOUS
  <2>5. waiting \in BOOLEAN /\ late \in BOOLEAN /\ reported \in BOOLEAN
    OBVIOUS
  <2>6. MqttTypeOK
    BY DEF MqttTypeOK
  <2>7. pc \in Commands \cup Reporting \cup {"open", "exit"} /\ repeat_count \in 0 .. 6
    OBVIOUS
  <2> QED
    BY <2>3, <2>4, <2>5, <2>6, <2>7 DEF TypeOK
<1>2. DialInPlace /\ CallInPlace /\ StopsOrHangs /\ ConnectedUnlessLate
  BY DEF DialInPlace, CallInPlace, StopsOrHangs, ConnectedUnlessLate
<1>3. AnswersMatch
  BY DEF AnswersMatch, SeesOk
<1> QED
  BY <1>1, <1>2, <1>3 DEF DialInv

-----------------------------------------------------------------------------
(* Opening the port and giving commands.                                   *)

\* The call of MQTT is not under way while the program dials.
DialKeeps ==
  CallInPlace /\ StopsOrHangs /\ MqttTypeOK /\ reported \in BOOLEAN

LEMMA QuietCall ==
  ASSUME DialKeeps, UNCHANGED callVars, call = "idle" \/ pc' = pc
  PROVE  DialKeeps'
  BY DEF DialKeeps, CallInPlace, StopsOrHangs, MqttTypeOK, Written

LEMMA OpenDial == DialInv /\ (OpenPort \/ OpenFails) => DialInv'
<1> SUFFICES ASSUME DialInv, OpenPort \/ OpenFails PROVE DialInv'
  OBVIOUS
<1> USE DEF DialInv, OpenPort, OpenFails
<1>1. DialKeeps'
  BY QuietCall DEF DialKeeps, TypeOK, CallInPlace
<1>2. modem' \in [radio : BOOLEAN, network : BOOLEAN, address : BOOLEAN]
  <2>1. ModemOff \in [radio : BOOLEAN, network : BOOLEAN, address : BOOLEAN]
    BY DEF ModemOff
  <2>2. modem' \in {modem, ModemOff}
    BY DEF reset_usb_main, lineVars
  <2> QED
    BY <2>1, <2>2 DEF TypeOK
<1>3. TypeOK'
  BY <1>1, <1>2 DEF DialKeeps, TypeOK, DialInPlace
<1>4. DialInPlace' /\ ConnectedUnlessLate'
  BY DEF TypeOK, DialInPlace, ConnectedUnlessLate
<1>5. AnswersMatch'
  BY DEF DialInPlace, AnswersMatch, SeesOk
<1> QED
  BY <1>1, <1>3, <1>4, <1>5 DEF DialKeeps

LEMMA WriteDial == DialInv /\ WriteCommand => DialInv'
<1> SUFFICES ASSUME DialInv, WriteCommand PROVE DialInv'
  OBVIOUS
<1> USE DEF DialInv, WriteCommand
<1>1. DialKeeps'
  BY QuietCall DEF DialKeeps, TypeOK
<1>2. TypeOK'
  <2>1. requests' \in Seq(Commands) /\ input' \in Seq(Answers)
    BY DEF TypeOK
  <2> QED
    BY <1>1, <2>1 DEF DialKeeps, TypeOK
<1>3. DialInPlace' /\ ConnectedUnlessLate'
  BY DEF DialInPlace, ConnectedUnlessLate
<1>4. AnswersMatch'
  <2> SUFFICES ASSUME ~late PROVE AnswersMatch'
    BY DEF AnswersMatch
  <2>1. requests = <<>> /\ input = <<>>
    BY DEF AnswersMatch
  <2>2. input' = <<>> /\ (requests' = <<>> \/ requests' = <<pc>>)
    BY <2>1
  <2> QED
    BY <2>2 DEF AnswersMatch, SeesOk
<1> QED
  BY <1>1, <1>2, <1>3, <1>4 DEF DialKeeps

\* The answer to a command executed in time is its own.
LEMMA AnswerDial == DialInv /\ ModemAnswers => DialInv'
<1> SUFFICES ASSUME DialInv, ModemAnswers PROVE DialInv'
  OBVIOUS
<1> USE DEF DialInv, ModemAnswers
<1>1. DialKeeps'
  BY QuietCall DEF DialKeeps, TypeOK
<1>2. TypeOK'
  <2>1. requests' \in Seq(Commands)
    BY DEF TypeOK
  <2>2. \E a \in Answers : input' = Append(input, a)
    OBVIOUS
  <2>3. input' \in Seq(Answers)
    BY <2>2 DEF TypeOK
  <2>4. modem' \in [radio : BOOLEAN, network : BOOLEAN, address : BOOLEAN]
    <3>1. ModemOff \in [radio : BOOLEAN, network : BOOLEAN, address : BOOLEAN]
      BY DEF ModemOff
    <3>2. \/ modem' \in {modem, ModemOff}
          \/ \E a, b, c \in BOOLEAN :
               modem' = [radio |-> a, network |-> b, address |-> c]
      OBVIOUS
    <3> QED
      BY <3>1, <3>2 DEF TypeOK
  <2> QED
    BY <1>1, <2>1, <2>3, <2>4 DEF DialKeeps, TypeOK
<1>3. DialInPlace'
  BY DEF DialInPlace
<1>4. AnswersMatch' /\ ConnectedUnlessLate'
  <2> SUFFICES ASSUME ~late PROVE AnswersMatch' /\ ConnectedUnlessLate'
    BY DEF AnswersMatch, ConnectedUnlessLate
  <2>1. requests = <<pc>> /\ input = <<>> /\ waiting
    BY DEF AnswersMatch
  <2>2. requests' = <<>> /\ pc \in Commands /\ UNCHANGED pc
    BY <2>1 DEF DialInPlace
  <2>3. \/ input' = <<"OK">> /\ (pc = "ZGACT" => modem'.address)
        \/ input' = <<"ERROR">>
    BY <2>1 DEF TypeOK
  <2> QED
    BY <2>1, <2>2, <2>3 DEF AnswersMatch, ConnectedUnlessLate, SeesOk
<1> QED
  BY <1>1, <1>2, <1>3, <1>4 DEF DialKeeps

\* A command is left, whichever way, with nothing on the line or with `late' set.
LEMMA ReadDial ==
  ASSUME DialInv,
         NEW c \in Commands, NEW next \in Commands \cup {"address", "exit"},
         NEW count \in 0 .. 6, Read(c, next, count),
         next = "address" => c = "ZGACT" /\ SeesOk
  PROVE  DialInv'
<1> USE DEF DialInv, Read
<1>1. DialKeeps'
  BY QuietCall DEF DialKeeps, TypeOK, CallInPlace
<1>2. TypeOK'
  <2>1. late' \in BOOLEAN /\ waiting' \in BOOLEAN
    BY DEF TypeOK
  <2>2. input' \in Seq(Answers) /\ pc' = next /\ repeat_count' = count
    OBVIOUS
  <2> QED
    BY <1>1, <2>1, <2>2 DEF DialKeeps, TypeOK
<1>3. DialInPlace'
  BY DEF DialInPlace
<1>4. AnswersMatch' /\ ConnectedUnlessLate'
  <2> SUFFICES ASSUME ~late' PROVE AnswersMatch' /\ ConnectedUnlessLate'
    BY DEF AnswersMatch, ConnectedUnlessLate
  <2>1. ~late /\ requests' = <<>> /\ input' = <<>> /\ ~waiting'
    BY DEF TypeOK
  <2>2. next = "address" => modem'.address
    BY <2>1 DEF AnswersMatch
  <2> QED
    BY <2>1, <2>2 DEF AnswersMatch, ConnectedUnlessLate, SeesOk
<1> QED
  BY <1>1, <1>2, <1>3, <1>4 DEF DialKeeps

LEMMA DialDial == DialInv /\ Dial => DialInv'
<1> SUFFICES ASSUME DialInv, Dial PROVE DialInv'
  OBVIOUS
<1>1. repeat_count \in 0 .. 6
  BY DEF DialInv, TypeOK
<1>2. CASE EchoOff
  BY <1>1, <1>2, ReadDial DEF EchoOff
<1>3. CASE Identify
  BY <1>1, <1>3, ReadDial DEF Identify
<1>4. CASE Once("CFUN0", "CFUN1") \/ Once("CFUN1", "CGACT")
  BY <1>1, <1>4, ReadDial DEF Once, CountAfter
<1>5. CASE Activate
  BY <1>1, <1>5, ReadDial DEF Activate
<1>6. CASE Once("ZGACT", "address")
  BY <1>1, <1>6, ReadDial DEF Once, CountAfter
<1> QED
  BY <1>2, <1>3, <1>4, <1>5, <1>6 DEF Dial

-----------------------------------------------------------------------------
(* The reports.                                                            *)

\* The report loop leaves the dialogue alone.
LEMMA ReportLine ==
  ASSUME DialInv, UNCHANGED <<waiting, repeat_count, lineVars>>,
         pc \in Reporting, pc' \in Reporting \cup {"exit"}, DialKeeps'
  PROVE  TypeOK' /\ DialInPlace' /\ AnswersMatch' /\ ConnectedUnlessLate'
  BY DEF DialInv, DialKeeps, TypeOK, DialInPlace, AnswersMatch, ConnectedUnlessLate,
         SeesOk

LEMMA PublishCall ==
  ASSUME DialInv, PublishStep \/ LoopThread
  PROVE  DialKeeps' /\ pc = "publish" /\ UNCHANGED dialVars
<1> USE DEF DialInv, DialKeeps, TypeOK, MqttTypeOK, CallInPlace, StopsOrHangs,
            CallGoto, ThreadGoto, Written
<1>1. CASE PublishStep
  <2>1. CASE Enter \/ mosquitto_new \/ mosquitto_connect
    BY <1>1, <2>1 DEF PublishStep, Enter, mosquitto_new, mosquitto_connect
  <2>2. CASE mosquitto_loop_start
    BY <1>1, <2>2 DEF PublishStep, mosquitto_loop_start
  <2>3. CASE mosquitto_publish
    <3>1. out = {} /\ out' = {"PUBLISH"}
      BY <2>3 DEF mosquitto_publish
    <3>2. /\ call' = "loop_stop" /\ ret' = 0 /\ thread' = "running"
          /\ UNCHANGED <<dialVars, reported>> /\ pc = "publish"
      BY <1>1, <2>3 DEF PublishStep, mosquitto_publish
    <3> QED
      BY <3>1, <3>2
  <2>4. CASE mosquitto_publish_fails
    BY <1>1, <2>4 DEF PublishStep, mosquitto_publish_fails
  <2> QED
    BY <1>1, <2>1, <2>2, <2>3, <2>4 DEF PublishStep
<1>2. CASE LoopThread
  <2>1. CASE WritePublish
    <3>1. /\ thread = "running" /\ thread' = "publish_cb"
          /\ "PUBLISH" \in out /\ out' = out \ {"PUBLISH"}
          /\ UNCHANGED <<call, ret, dialVars>>
      BY <1>2, <2>1 DEF LoopThread, WritePublish, WritePacket
    <3>2. out' = {} /\ call = "loop_stop" /\ ret = 0 /\ pc = "publish"
      BY <3>1
    <3>3. reported' = TRUE
      BY <1>2, <3>1
      DEF LoopThread, mqttqos_publish_callback, WriteDisconnect, WritePacket,
          mqttqos_disconnect_callback
    <3>4. CallInPlace' /\ MqttTypeOK'
      BY <3>1, <3>2
    <3>5. StopsOrHangs'
      BY <3>1, <3>2, <3>3, Zenon
    <3>6. reported' \in BOOLEAN
      BY <3>3, Zenon
    <3> QED
      BY <3>1, <3>2, <3>4, <3>5, <3>6
  <2>2. CASE mqttqos_publish_callback
    BY <1>2, <2>2 DEF LoopThread, mqttqos_publish_callback
  <2>3. CASE WriteDisconnect
    BY <1>2, <2>3 DEF LoopThread, WriteDisconnect, WritePacket
  <2>4. CASE mqttqos_disconnect_callback
    BY <1>2, <2>4 DEF LoopThread, mqttqos_disconnect_callback
  <2> QED
    BY <1>2, <2>1, <2>2, <2>3, <2>4 DEF LoopThread
<1> QED
  BY <1>1, <1>2

LEMMA ReportDial ==
  DialInv /\ (ReadAddress \/ PublishStep \/ PublishReturns \/ LoopThread
              \/ CallbackExits) => DialInv'
<1> SUFFICES ASSUME DialInv,
                    \/ ReadAddress \/ PublishStep \/ PublishReturns \/ LoopThread
                    \/ CallbackExits
             PROVE  DialInv'
  OBVIOUS
<1>1. CASE ReadAddress
  <2>1. call = "idle" /\ call' = "idle" /\ reported' = FALSE
        /\ UNCHANGED mqttVars
    BY <1>1 DEF ReadAddress, Report, DialInv, CallInPlace
  <2>2. reported' \in BOOLEAN
    BY <2>1, Zenon
  <2>3. DialKeeps'
    BY <2>1, <2>2
    DEF DialKeeps, DialInv, TypeOK, CallInPlace, StopsOrHangs, MqttTypeOK
  <2> QED
    BY <1>1, <2>3, ReportLine DEF ReadAddress, Report, DialKeeps, DialInv
<1>2. CASE PublishStep \/ LoopThread
  BY <1>2, PublishCall, ReportLine DEF DialKeeps, DialInv
<1>3. CASE PublishReturns \/ CallbackExits
  <2>1. pc = "publish" /\ pc' \in Reporting \cup {"exit"}
        /\ UNCHANGED <<waiting, repeat_count, lineVars>>
    BY <1>3 DEF PublishReturns, CallbackExits, Report
  <2>2. DialKeeps'
    BY <1>3
    DEF PublishReturns, CallbackExits, MqttStops, SetUpFails,
        mosquitto_loop_stop, CallGoto, DialInv, DialKeeps, TypeOK, MqttTypeOK,
        CallInPlace, StopsOrHangs
  <2> QED
    BY <2>1, <2>2, ReportLine DEF DialKeeps, DialInv
<1> QED
  BY <1>1, <1>2, <1>3

LEMMA NextDial == DialInv /\ [Next]_vars => DialInv'
<1> SUFFICES ASSUME DialInv, [Next]_vars PROVE DialInv'
  OBVIOUS
<1>1. CASE UNCHANGED vars
  BY <1>1
  DEF vars, DialInv, TypeOK, MqttTypeOK, DialInPlace, AnswersMatch, SeesOk,
      CallInPlace, StopsOrHangs, Written, ConnectedUnlessLate
<1> QED
  BY <1>1, OpenDial, WriteDial, AnswerDial, DialDial, ReportDial
  DEF Next, Program

-----------------------------------------------------------------------------

\* The dialogue and the call keep to their places, and an answer that was in time
\* belongs to the command it is read for.
THEOREM DialInvariance == Spec => []DialInv
  BY InitDial, NextDial, PTL DEF Spec

\* When the reports start the connection is up, unless an answer was late.
THEOREM ConnectionIsUp == Spec => []ConnectedUnlessLate
<1>1. DialInv => ConnectedUnlessLate
  BY DEF DialInv
<1> QED
  BY <1>1, DialInvariance, PTL

\* www_connect goes on to its next report only when the loop thread has written
\* this one.
THEOREM ReportsAreWritten == Spec => NextReportAfterThis
<1>1. DialInv /\ [Next]_vars =>
        [pc = "publish" /\ pc' = "address" => reported]_vars
  <2> SUFFICES ASSUME DialInv, Next, pc = "publish", pc' = "address"
               PROVE  reported
    OBVIOUS
  <2>1. mosquitto_loop_stop /\ ret = 0
    BY DEF Next, Program, OpenPort, OpenFails, WriteCommand, Dial, EchoOff,
           Identify, Once, Activate, Read, ReadAddress, Report, PublishStep,
           PublishReturns, LoopThread, CallbackExits, ModemAnswers
  <2>2. call = "loop_stop" /\ thread = "ended"
    BY <2>1 DEF mosquitto_loop_stop, CallGoto
  <2> QED
    BY <2>1, <2>2 DEF DialInv, StopsOrHangs
<1> QED
  BY <1>1, DialInvariance, PTL DEF Spec, NextReportAfterThis
=============================================================================
