--------------------------- MODULE MCModemConfig ----------------------------
(***************************************************************************)
(* ModemConfig for TLC: the Modem_cfg of the programs, and each setting of *)
(* the access point's varied over its values or their extremes, those that *)
(* share a register or a formula varied together.                          *)
(***************************************************************************)
EXTENDS ModemConfig

CONSTANT Payloads  \* payload sizes tried

accessPoint ==
  [bw |-> 9, sf |-> 8, ecr |-> 4, CRC |-> TRUE, implicitHeader |-> FALSE,
   payloadLen |-> 0, size |-> 12, outPower |-> 20, powerOutPin |-> PA_BOOST,
   OCP |-> 240, AGC |-> TRUE, syncWord |-> 18, preambleLen |-> 6, freq |-> 4348]

\* The receiver and the sender of rx_explicit_example have the access point's
\* settings and a text to send that fills the buffer.
sender == [accessPoint EXCEPT !.size = 255]

\* The one-shot examples; their tx.data.size is not set.
oneShots ==
  {[accessPoint EXCEPT !.bw = 6, !.sf = 12, !.implicitHeader = TRUE,
                       !.payloadLen = 5, !.size = n] : n \in Payloads}

Modulations ==
  {[accessPoint EXCEPT !.bw = b, !.sf = s, !.ecr = e, !.CRC = c,
                       !.implicitHeader = h, !.AGC = a] :
     b \in {0, 5, 7, 9}, s \in SpreadingFactors, e \in {1, 4},
     c \in BOOLEAN, h \in BOOLEAN, a \in BOOLEAN}

Sizes ==
  {[accessPoint EXCEPT !.bw = b, !.sf = s, !.size = n, !.payloadLen = n,
                       !.implicitHeader = h] :
     b \in {5, 9}, s \in {7, 12}, n \in Payloads, h \in BOOLEAN}

PowerAndCurrent ==
  {[accessPoint EXCEPT !.outPower = p, !.powerOutPin = o, !.OCP = c] :
     p \in OutputPowers, o \in {RFO, PA_BOOST}, c \in {0, 45, 240}}
  \cup {[accessPoint EXCEPT !.OCP = c] : c \in Byte}

Words ==
  {[accessPoint EXCEPT !.preambleLen = n, !.freq = f, !.syncWord = w] :
     n \in {0, 6, 300, 65535, 70000}, f \in {1370, 4330, 4348, 5250},
     w \in {18, 255}}

AllConfigs ==
  {accessPoint, sender} \cup oneShots
  \cup Modulations \cup Sizes \cup PowerAndCurrent \cup Words
=============================================================================
