------------------------- MODULE ModemConfigProofs --------------------------
(***************************************************************************)
(* Proofs about ModemConfig: for every Modem_cfg a program may ask for,    *)
(* the settings that share registers do not disturb one another.           *)
(***************************************************************************)
EXTENDS ModemConfig, TLAPS

-----------------------------------------------------------------------------
(* Bytes and their fields.                                                 *)

LEMMA Powers ==
  /\ 2^0 = 1 /\ 2^1 = 2 /\ 2^2 = 4 /\ 2^3 = 8
  /\ 2^4 = 16 /\ 2^5 = 32 /\ 2^7 = 128
  BY SMT

\* Writing a field of MODEM_CONFIG_1 leaves the other two alone.
LEMMA FieldsOfConfig1 ==
  ASSUME NEW b \in Byte
  PROVE  /\ \A v \in 0 .. 1 :
              /\ WithField(b, 0, 1, v) \in Byte
              /\ Field(WithField(b, 0, 1, v), 0, 1) = v
              /\ Field(WithField(b, 0, 1, v), 1, 3) = Field(b, 1, 3)
              /\ Field(WithField(b, 0, 1, v), 4, 4) = Field(b, 4, 4)
         /\ \A v \in 0 .. 7 :
              /\ WithField(b, 1, 3, v) \in Byte
              /\ Field(WithField(b, 1, 3, v), 0, 1) = Field(b, 0, 1)
              /\ Field(WithField(b, 1, 3, v), 1, 3) = v
              /\ Field(WithField(b, 1, 3, v), 4, 4) = Field(b, 4, 4)
         /\ \A v \in 0 .. 15 :
              /\ WithField(b, 4, 4, v) \in Byte
              /\ Field(WithField(b, 4, 4, v), 0, 1) = Field(b, 0, 1)
              /\ Field(WithField(b, 4, 4, v), 1, 3) = Field(b, 1, 3)
              /\ Field(WithField(b, 4, 4, v), 4, 4) = v
<1> USE Powers DEF Byte, Field, WithField
<1>1. ASSUME NEW v \in 0 .. 1
      PROVE  /\ WithField(b, 0, 1, v) \in Byte
             /\ Field(WithField(b, 0, 1, v), 0, 1) = v
             /\ Field(WithField(b, 0, 1, v), 1, 3) = Field(b, 1, 3)
             /\ Field(WithField(b, 0, 1, v), 4, 4) = Field(b, 4, 4)
  BY SMTT(30)
<1>2. ASSUME NEW v \in 0 .. 7
      PROVE  /\ WithField(b, 1, 3, v) \in Byte
             /\ Field(WithField(b, 1, 3, v), 0, 1) = Field(b, 0, 1)
             /\ Field(WithField(b, 1, 3, v), 1, 3) = v
             /\ Field(WithField(b, 1, 3, v), 4, 4) = Field(b, 4, 4)
  BY SMTT(30)
<1>3. ASSUME NEW v \in 0 .. 15
      PROVE  /\ WithField(b, 4, 4, v) \in Byte
             /\ Field(WithField(b, 4, 4, v), 0, 1) = Field(b, 0, 1)
             /\ Field(WithField(b, 4, 4, v), 1, 3) = Field(b, 1, 3)
             /\ Field(WithField(b, 4, 4, v), 4, 4) = v
  BY SMTT(30)
<1> QED
  BY <1>1, <1>2, <1>3

\* Spreading factor and CRC share MODEM_CONFIG_2.
LEMMA FieldsOfConfig2 ==
  ASSUME NEW b \in Byte
  PROVE  /\ \A v \in 0 .. 15 :
              /\ WithField(b, 4, 4, v) \in Byte
              /\ Field(WithField(b, 4, 4, v), 4, 4) = v
              /\ Field(WithField(b, 4, 4, v), 2, 1) = Field(b, 2, 1)
         /\ \A v \in 0 .. 1 :
              /\ WithField(b, 2, 1, v) \in Byte
              /\ Field(WithField(b, 2, 1, v), 4, 4) = Field(b, 4, 4)
              /\ Field(WithField(b, 2, 1, v), 2, 1) = v
<1> USE Powers DEF Byte, Field, WithField
<1>1. ASSUME NEW v \in 0 .. 15
      PROVE  /\ WithField(b, 4, 4, v) \in Byte
             /\ Field(WithField(b, 4, 4, v), 4, 4) = v
             /\ Field(WithField(b, 4, 4, v), 2, 1) = Field(b, 2, 1)
  BY SMTT(30)
<1>2. ASSUME NEW v \in 0 .. 1
      PROVE  /\ WithField(b, 2, 1, v) \in Byte
             /\ Field(WithField(b, 2, 1, v), 4, 4) = Field(b, 4, 4)
             /\ Field(WithField(b, 2, 1, v), 2, 1) = v
  BY SMTT(30)
<1> QED
  BY <1>1, <1>2

\* Gain control and low data rate share MODEM_CONFIG_3.
LEMMA FieldsOfConfig3 ==
  ASSUME NEW b \in Byte, NEW v \in 0 .. 1
  PROVE  /\ v * 4 \in Byte /\ Field(v * 4, 2, 1) = v
         /\ WithField(b, 3, 1, v) \in Byte
         /\ Field(WithField(b, 3, 1, v), 2, 1) = Field(b, 2, 1)
         /\ Field(WithField(b, 3, 1, v), 3, 1) = v
  BY Powers, SMTT(30) DEF Byte, Field, WithField

\* The pins keep the four bits of the power free.
LEMMA FieldsOfPower ==
  ASSUME NEW pin \in {RFO, PA_BOOST}, NEW power \in 0 .. 15
  PROVE  /\ PaConfig(pin, power) \in Byte
         /\ Field(PaConfig(pin, power), 7, 1) = IF pin = PA_BOOST THEN 1 ELSE 0
         /\ Field(PaConfig(pin, power), 0, 4) = power
  BY Powers, SMTT(30) DEF PaConfig, Byte, Field, RFO, PA_BOOST

LEMMA ByteIsSmall == \A n \in Nat : n < 256 <=> n \in Byte
  BY DEF Byte

\* Numbers kept in two and in three registers.
LEMMA TwoBytes ==
  ASSUME NEW n \in Nat, n < 65536
  PROVE  /\ n \div 256 \in Byte /\ n % 256 \in Byte
         /\ (n \div 256) * 256 + (n % 256) = n
<1>1. /\ n \div 256 \in Nat /\ n \div 256 < 256
      /\ n % 256 \in Nat /\ n % 256 < 256
      /\ (n \div 256) * 256 + (n % 256) = n
  BY SMT
<1> QED
  BY <1>1, ByteIsSmall

LEMMA ThreeBytes ==
  ASSUME NEW n \in Nat, n < 256 * 65536
  PROVE  /\ (n \div 65536) % 256 \in Byte /\ (n \div 256) % 256 \in Byte
         /\ n % 256 \in Byte
         /\ ((n \div 65536) % 256) * 65536 + ((n \div 256) % 256) * 256 + (n % 256) = n
<1>1. /\ (n \div 65536) % 256 \in Nat /\ (n \div 65536) % 256 < 256
      /\ (n \div 256) % 256 \in Nat /\ (n \div 256) % 256 < 256
      /\ n % 256 \in Nat /\ n % 256 < 256
  BY SMT
<1>2. ((n \div 65536) % 256) * 65536 + ((n \div 256) % 256) * 256 + (n % 256) = n
  BY SMT
<1> QED
  BY <1>1, <1>2, ByteIsSmall

LEMMA BitIsBit == \A b \in BOOLEAN : Bit(b) \in 0 .. 1
  BY DEF Bit

-----------------------------------------------------------------------------
(* The calls of LoRa_begin.                                                *)

LEMMA OrderedCalls ==
  /\ Len(Order) = 13
  /\ Order[1] = "header" /\ Order[2] = "errorcr" /\ Order[3] = "bandwidth"
  /\ Order[4] = "sf" /\ Order[5] = "crc" /\ Order[6] = "tx_power"
  /\ Order[7] = "syncw" /\ Order[8] = "preamble" /\ Order[9] = "agc"
  /\ Order[10] = "lna" /\ Order[11] = "ocp" /\ Order[12] = "detect"
  /\ Order[13] = "freq"
  BY DEF Order

\* What has been called before a call, and after it.
LEMMA CallIsNext ==
  ASSUME TypeOK, NEW name, Call(name)
  PROVE  /\ step \in 1 .. 13 /\ Order[step] = name /\ step' = step + 1
         /\ \A other : Done(other)' <=> Done(other) \/ other = name
<1> USE OrderedCalls DEF TypeOK, Call, Done
<1>1. step \in 1 .. 13 /\ Order[step] = name /\ step' = step + 1
  OBVIOUS
<1>2. \A i : i \in 1 .. step' - 1 <=> i \in 1 .. step - 1 \/ i = step
  BY <1>1
<1> QED
  BY <1>1, <1>2

\* The power is set before the limit.
LEMMA PowerFirst == TypeOK /\ Call("tx_power") => ~Done("ocp")
<1> SUFFICES ASSUME TypeOK, Call("tx_power"), NEW i \in 1 .. step - 1
             PROVE  Order[i] # "ocp"
  BY DEF Done
<1>1. step \in 1 .. 13 /\ Order[step] = "tx_power"
  BY CallIsNext
<1>2. step = 6
  BY <1>1, OrderedCalls
<1> QED
  BY <1>2, OrderedCalls

LEMMA AllDone ==
  TypeOK /\ Begun =>
    /\ Done("header") /\ Done("errorcr") /\ Done("bandwidth") /\ Done("sf")
    /\ Done("crc") /\ Done("tx_power") /\ Done("preamble") /\ Done("agc")
    /\ Done("ocp") /\ Done("freq")
<1> SUFFICES ASSUME TypeOK, Begun, NEW i \in 1 .. 13 PROVE Done(Order[i])
  BY OrderedCalls
<1> QED
  BY OrderedCalls DEF TypeOK, Begun, Done

\* Between the first call and the last nothing has been sent.
LEMMA CallsBeforeSending == ReadyToSend /\ TypeOK /\ LoRa_begin => ~ready
  BY OrderedCalls
  DEF ReadyToSend, Begun, TypeOK, LoRa_begin, Call, lora_set_header,
      lora_set_errorcr, lora_set_bandwidth, lora_set_sf, lora_set_crc,
      lora_set_tx_power, lora_set_syncw, lora_set_preamble, lora_set_agc,
      lora_set_lna, lora_set_ocp, SetDetection, lora_set_freq

-----------------------------------------------------------------------------
(* Every call keeps what the calls before it have set.                     *)

LEMMA Asked ==
  TypeOK =>
    /\ eth.bw \in 0 .. 9 /\ eth.sf \in 7 .. 12 /\ eth.ecr \in 1 .. 4
    /\ eth.CRC \in BOOLEAN /\ eth.implicitHeader \in BOOLEAN /\ eth.AGC \in BOOLEAN
    /\ eth.payloadLen \in Byte /\ eth.size \in Byte /\ eth.OCP \in Byte
    /\ eth.outPower \in (0 .. 17) \cup {20} /\ eth.powerOutPin \in {RFO, PA_BOOST}
    /\ eth.syncWord \in Byte /\ eth.preambleLen \in Nat
    /\ eth.freq \in Nat /\ eth.freq < 10240
<1> HAVE TypeOK
<1> eth \in ConfigType
  BY ConfigsAssumption DEF TypeOK
<1>1. eth.bw \in BandWidths /\ eth.sf \in SpreadingFactors /\ eth.ecr \in ErrorCodingRates
  BY DEF ConfigType
<1>2. eth.CRC \in BOOLEAN /\ eth.implicitHeader \in BOOLEAN /\ eth.AGC \in BOOLEAN
  BY Zenon DEF ConfigType
<1>3. /\ eth.payloadLen \in Byte /\ eth.size \in Byte /\ eth.OCP \in Byte
      /\ eth.syncWord \in Byte
  BY DEF ConfigType
<1>4. /\ eth.outPower \in OutputPowers /\ eth.powerOutPin \in {RFO, PA_BOOST}
      /\ eth.preambleLen \in Nat /\ eth.freq \in Carriers
  BY DEF ConfigType
<1> QED
  BY <1>1, <1>2, <1>3, <1>4
  DEF BandWidths, SpreadingFactors, ErrorCodingRates, OutputPowers, Carriers

SoFar == TypeOK /\ SettingsSoFar /\ PowerSoFar

LEMMA StepType ==
  ASSUME TypeOK, NEW name, Call(name), reg' \in [Registers -> Byte]
  PROVE  TypeOK'
<1>1. step \in 1 .. 13 /\ step' = step + 1 /\ UNCHANGED <<eth, ready>>
  BY CallIsNext DEF Call
<1> QED
  BY <1>1, OrderedCalls DEF TypeOK

USE DEF Header, CodingRate, Bandwidth, SpreadingFactor, CrcOn, Frf, Preamble,
        OnBoost, Dbm, OcpOn, Imax, SettingsSoFar, PowerSoFar, SoFar, Write

LEMMA HeaderSoFar == SoFar /\ lora_set_header => SoFar'
<1> SUFFICES ASSUME SoFar, lora_set_header PROVE SoFar'
  OBVIOUS
<1> DEFINE byte == WithField(reg["MODEM_CONFIG_1"], 0, 1, Bit(eth.implicitHeader))
<1>1. /\ Call("header") /\ UNCHANGED eth
      /\ \A other : Done(other)' <=> Done(other) \/ other = "header"
  BY CallIsNext DEF lora_set_header, Call
<1>2. /\ reg["MODEM_CONFIG_1"] \in Byte
      /\ Bit(eth.implicitHeader) \in 0 .. 1
  BY Asked, BitIsBit DEF TypeOK, Registers
<1>3. /\ byte \in Byte
      /\ Field(byte, 0, 1) = Bit(eth.implicitHeader)
      /\ Field(byte, 1, 3) = CodingRate /\ Field(byte, 4, 4) = Bandwidth
  BY <1>2, FieldsOfConfig1
<1>4. /\ reg'["MODEM_CONFIG_1"] = byte
      /\ reg'["PAYLOAD_LENGTH"] =
           IF eth.implicitHeader THEN eth.payloadLen ELSE reg["PAYLOAD_LENGTH"]
      /\ \A r \in Registers \ {"MODEM_CONFIG_1", "PAYLOAD_LENGTH"} : reg'[r] = reg[r]
      /\ reg' \in [Registers -> Byte]
  BY <1>3, Asked DEF lora_set_header, TypeOK, Registers
<1>5. TypeOK'
  BY <1>1, <1>4, StepType
<1> HIDE DEF byte
<1> QED
  BY <1>1, <1>3, <1>4, <1>5 DEF Registers

LEMMA ErrorcrSoFar == SoFar /\ lora_set_errorcr => SoFar'
<1> SUFFICES ASSUME SoFar, lora_set_errorcr PROVE SoFar'
  OBVIOUS
<1> DEFINE byte == WithField(reg["MODEM_CONFIG_1"], 1, 3, eth.ecr)
<1>1. /\ Call("errorcr") /\ UNCHANGED eth
      /\ \A other : Done(other)' <=> Done(other) \/ other = "errorcr"
  BY CallIsNext DEF lora_set_errorcr, Call
<1>2. reg["MODEM_CONFIG_1"] \in Byte /\ eth.ecr \in 0 .. 7
  BY Asked DEF TypeOK, Registers
<1>3. /\ byte \in Byte
      /\ Field(byte, 0, 1) = Header /\ Field(byte, 1, 3) = eth.ecr
      /\ Field(byte, 4, 4) = Bandwidth
  BY <1>2, FieldsOfConfig1
<1>4. /\ reg'["MODEM_CONFIG_1"] = byte
      /\ \A r \in Registers \ {"MODEM_CONFIG_1"} : reg'[r] = reg[r]
      /\ reg' \in [Registers -> Byte]
  BY <1>3 DEF lora_set_errorcr, TypeOK, Registers
<1>5. TypeOK'
  BY <1>1, <1>4, StepType
<1> HIDE DEF byte
<1> QED
  BY <1>1, <1>3, <1>4, <1>5 DEF Registers

LEMMA BandwidthSoFar == SoFar /\ lora_set_bandwidth => SoFar'
<1> SUFFICES ASSUME SoFar, lora_set_bandwidth PROVE SoFar'
  OBVIOUS
<1> DEFINE byte == WithField(reg["MODEM_CONFIG_1"], 4, 4, eth.bw)
<1>1. /\ Call("bandwidth") /\ UNCHANGED eth
      /\ \A other : Done(other)' <=> Done(other) \/ other = "bandwidth"
  BY CallIsNext DEF lora_set_bandwidth, Call
<1>2. reg["MODEM_CONFIG_1"] \in Byte /\ eth.bw \in 0 .. 15
  BY Asked, BitIsBit DEF TypeOK, Registers
<1>3. /\ byte \in Byte
      /\ Field(byte, 0, 1) = Header /\ Field(byte, 1, 3) = CodingRate
      /\ Field(byte, 4, 4) = eth.bw
  BY <1>2, FieldsOfConfig1
<1>4. /\ reg'["MODEM_CONFIG_1"] = byte
      /\ \A r \in Registers \ {"MODEM_CONFIG_1"} : reg'[r] = reg[r]
      /\ reg' \in [Registers -> Byte]
  BY <1>3 DEF lora_set_bandwidth, TypeOK, Registers
<1>5. TypeOK'
  BY <1>1, <1>4, StepType
<1> HIDE DEF byte
<1> QED
  BY <1>1, <1>3, <1>4, <1>5 DEF Registers

LEMMA SfSoFar == SoFar /\ lora_set_sf => SoFar'
<1> SUFFICES ASSUME SoFar, lora_set_sf PROVE SoFar'
  OBVIOUS
<1> DEFINE byte == WithField(reg["MODEM_CONFIG_2"], 4, 4, eth.sf)
<1>1. /\ Call("sf") /\ UNCHANGED eth
      /\ \A other : Done(other)' <=> Done(other) \/ other = "sf"
  BY CallIsNext DEF lora_set_sf, Call
<1>2. reg["MODEM_CONFIG_2"] \in Byte /\ eth.sf \in 0 .. 15
  BY Asked, BitIsBit DEF TypeOK, Registers
<1>3. /\ byte \in Byte
      /\ Field(byte, 4, 4) = eth.sf /\ Field(byte, 2, 1) = CrcOn
  BY <1>2, FieldsOfConfig2
<1>4. /\ reg'["MODEM_CONFIG_2"] = byte
      /\ \A r \in Registers \ {"MODEM_CONFIG_2"} : reg'[r] = reg[r]
      /\ reg' \in [Registers -> Byte]
  BY <1>3 DEF lora_set_sf, TypeOK, Registers
<1>5. TypeOK'
  BY <1>1, <1>4, StepType
<1> HIDE DEF byte
<1> QED
  BY <1>1, <1>3, <1>4, <1>5 DEF Registers

LEMMA CrcSoFar == SoFar /\ lora_set_crc => SoFar'
<1> SUFFICES ASSUME SoFar, lora_set_crc PROVE SoFar'
  OBVIOUS
<1> DEFINE byte == WithField(reg["MODEM_CONFIG_2"], 2, 1, Bit(eth.CRC))
<1>1. /\ Call("crc") /\ UNCHANGED eth
      /\ \A other : Done(other)' <=> Done(other) \/ other = "crc"
  BY CallIsNext DEF lora_set_crc, Call
<1>2. reg["MODEM_CONFIG_2"] \in Byte /\ Bit(eth.CRC) \in 0 .. 1
  BY Asked, BitIsBit DEF TypeOK, Registers
<1>3. /\ byte \in Byte
      /\ Field(byte, 4, 4) = SpreadingFactor /\ Field(byte, 2, 1) = Bit(eth.CRC)
  BY <1>2, FieldsOfConfig2
<1>4. /\ reg'["MODEM_CONFIG_2"] = byte
      /\ \A r \in Registers \ {"MODEM_CONFIG_2"} : reg'[r] = reg[r]
      /\ reg' \in [Registers -> Byte]
  BY <1>3 DEF lora_set_crc, TypeOK, Registers
<1>5. TypeOK'
  BY <1>1, <1>4, StepType
<1> HIDE DEF byte
<1> QED
  BY <1>1, <1>3, <1>4, <1>5 DEF Registers

LEMMA AgcSoFar == SoFar /\ lora_set_agc => SoFar'
<1> SUFFICES ASSUME SoFar, lora_set_agc PROVE SoFar'
  OBVIOUS
<1> DEFINE byte == Bit(eth.AGC) * 4
<1>1. /\ Call("agc") /\ UNCHANGED eth
      /\ \A other : Done(other)' <=> Done(other) \/ other = "agc"
  BY CallIsNext DEF lora_set_agc, Call
<1>2. Bit(eth.AGC) \in 0 .. 1 /\ reg["MODEM_CONFIG_3"] \in Byte
  BY Asked, BitIsBit DEF TypeOK, Registers
<1>3. /\ byte \in Byte
      /\ Field(byte, 2, 1) = Bit(eth.AGC)
  BY <1>2, FieldsOfConfig3
<1>4. /\ reg'["MODEM_CONFIG_3"] = byte
      /\ \A r \in Registers \ {"MODEM_CONFIG_3"} : reg'[r] = reg[r]
      /\ reg' \in [Registers -> Byte]
  BY <1>3 DEF lora_set_agc, TypeOK, Registers
<1>5. TypeOK'
  BY <1>1, <1>4, StepType
<1> HIDE DEF byte
<1> QED
  BY <1>1, <1>3, <1>4, <1>5 DEF Registers

\* The power fits the bits its pin leaves it, and is read back with the pin's offset.
LEMMA PowerIsKept == SoFar /\ lora_set_tx_power => SoFar'
<1> SUFFICES ASSUME SoFar, lora_set_tx_power PROVE SoFar'
  OBVIOUS
<1> DEFINE full == eth.powerOutPin = PA_BOOST /\ eth.outPower = 20
           power == IF eth.powerOutPin = RFO THEN Clamp(eth.outPower, 0, 15)
                    ELSE IF full THEN 20 - 2
                    ELSE Clamp(eth.outPower, 2, 17) - 2
           low == power % 16
           byte == PaConfig(eth.powerOutPin, power)
           dac == IF full THEN 135 ELSE 132
<1>1. /\ Call("tx_power") /\ UNCHANGED eth
      /\ \A other : Done(other)' <=> Done(other) \/ other = "tx_power"
      /\ ~Done("ocp")
  BY CallIsNext, PowerFirst DEF lora_set_tx_power, Call
<1>2. /\ low \in 0 .. 15 /\ byte = PaConfig(eth.powerOutPin, low)
      /\ eth.outPower # 20 => low = power
  BY Asked DEF Clamp, PaConfig, RFO, PA_BOOST
<1>3. /\ byte \in Byte
      /\ Field(byte, 7, 1) = IF eth.powerOutPin = PA_BOOST THEN 1 ELSE 0
      /\ Field(byte, 0, 4) = low
  BY <1>2, Asked, FieldsOfPower
<1>4. /\ dac \in Byte /\ 31 \in Byte
      /\ eth.outPower # 20 => Field(dac, 0, 3) = 4
  BY Powers DEF Byte, Field
<1>5. /\ reg'["PA_CONFIG"] = byte /\ reg'["PA_DAC"] = dac
      /\ \A r \in Registers \ {"PA_CONFIG", "PA_DAC", "OCP"} : reg'[r] = reg[r]
      /\ reg' \in [Registers -> Byte]
  <2> reg' = [reg EXCEPT !["OCP"] = 31, !["PA_DAC"] = dac, !["PA_CONFIG"] = byte]
    BY DEF lora_set_tx_power
  <2> HIDE DEF byte, dac
  <2> QED
    BY <1>3, <1>4 DEF TypeOK, Registers
<1>6. TypeOK'
  BY <1>1, <1>5, StepType
<1>7. eth.outPower # 20 =>
        /\ OnBoost' <=> eth'.powerOutPin = PA_BOOST
        /\ Dbm' = IF OnBoost' THEN Clamp(eth'.outPower, 2, 17)
                  ELSE Clamp(eth'.outPower, 0, 15)
  <2> HIDE DEF byte, dac, low
  <2>1. eth.outPower # 20 /\ eth.powerOutPin = PA_BOOST =>
          low = Clamp(eth.outPower, 2, 17) - 2
    BY <1>2 DEF RFO, PA_BOOST
  <2>2. eth.powerOutPin # PA_BOOST => eth.powerOutPin = RFO
    BY Asked
  <2>3. eth.outPower # 20 /\ eth.powerOutPin = RFO => low = Clamp(eth.outPower, 0, 15)
    BY <1>2
  <2>4. Clamp(eth.outPower, 2, 17) \in 2 .. 17
    BY Asked DEF Clamp
  <2> QED
    BY <1>1, <1>3, <1>4, <1>5, <2>1, <2>2, <2>3, <2>4
<1> HIDE DEF byte, dac, low, power, full
<1> QED
  BY <1>1, <1>5, <1>6, <1>7 DEF Registers

\* The limit is set over what the power has left in the register.
LEMMA LimitSoFar == SoFar /\ lora_set_ocp => SoFar'
<1> SUFFICES ASSUME SoFar, lora_set_ocp PROVE SoFar'
  OBVIOUS
<1> DEFINE byte == IF eth.OCP = 0 THEN WithField(reg["OCP"], 5, 1, 0)
                   ELSE IF eth.OCP <= 120 THEN (Clamp(eth.OCP, 50, 120) - 45) \div 5 + 32
                   ELSE (Clamp(eth.OCP, 130, 255) + 30) \div 10 + 32
<1>1. /\ Call("ocp") /\ UNCHANGED eth
      /\ \A other : Done(other)' <=> Done(other) \/ other = "ocp"
  BY CallIsNext DEF lora_set_ocp, Call
<1>2. reg["OCP"] \in 0 .. 255 /\ eth.OCP \in 0 .. 255
  BY Asked DEF TypeOK, Registers, Byte
<1>3. /\ byte \in Byte
      /\ Field(byte, 5, 1) = IF eth.OCP = 0 THEN 0 ELSE 1
  BY <1>2, Powers DEF Byte, Field, WithField, Clamp
<1>4. eth.OCP \in 50 .. 120 => Field(byte, 0, 5) = (eth.OCP - 45) \div 5
  BY <1>2, Powers DEF Field, Clamp
<1>5. eth.OCP \in 121 .. 240 =>
        Field(byte, 0, 5) = (Clamp(eth.OCP, 130, 255) + 30) \div 10
  BY <1>2, Powers DEF Field, Clamp
<1>6. /\ reg'["OCP"] = byte
      /\ \A r \in Registers \ {"OCP"} : reg'[r] = reg[r]
      /\ reg' \in [Registers -> Byte]
  <2> reg' = [reg EXCEPT !["OCP"] = byte]
    BY DEF lora_set_ocp
  <2> HIDE DEF byte
  <2> QED
    BY <1>3 DEF TypeOK, Registers
<1>7. TypeOK'
  BY <1>1, <1>6, StepType
<1> HIDE DEF byte
<1>8. eth.OCP \in 50 .. 240 => Imax' - eth.OCP \in -9 .. 9
  BY <1>2, <1>4, <1>5, <1>6 DEF Clamp
<1> QED
  BY <1>1, <1>3, <1>6, <1>7, <1>8 DEF Registers

LEMMA PreambleSoFar == SoFar /\ lora_set_preamble => SoFar'
<1> SUFFICES ASSUME SoFar, lora_set_preamble PROVE SoFar'
  OBVIOUS
<1> DEFINE len == Clamp(eth.preambleLen, 6, 65535)
<1>1. /\ Call("preamble") /\ UNCHANGED eth
      /\ \A other : Done(other)' <=> Done(other) \/ other = "preamble"
  BY CallIsNext DEF lora_set_preamble, Call
<1>2. len \in Nat /\ len < 65536
  BY Asked DEF Clamp
<1> DEFINE msb == len \div 256
           lsb == len % 256
<1>3. msb \in Byte /\ lsb \in Byte /\ msb * 256 + lsb = len
  BY <1>2, TwoBytes
<1>4. /\ reg'["PREAMBLE_MSB"] = msb /\ reg'["PREAMBLE_LSB"] = lsb
      /\ \A r \in Registers \ {"PREAMBLE_MSB", "PREAMBLE_LSB"} : reg'[r] = reg[r]
      /\ reg' \in [Registers -> Byte]
  <2> reg' = [reg EXCEPT !["PREAMBLE_MSB"] = msb, !["PREAMBLE_LSB"] = lsb]
    BY DEF lora_set_preamble
  <2> HIDE DEF msb, lsb
  <2> QED
    BY <1>3 DEF TypeOK, Registers
<1>5. TypeOK'
  BY <1>1, <1>4, StepType
<1> HIDE DEF msb, lsb
<1>6. Preamble' = len
  BY <1>3, <1>4
<1>7. Preamble' = Clamp(eth'.preambleLen, 6, 65535)
  BY <1>1, <1>6
<1> HIDE DEF len
<1> QED
  BY <1>1, <1>4, <1>5, <1>7 DEF Registers

\* The carrier's three bytes make up the number again, for it is below 2^24.
LEMMA FreqSoFar == SoFar /\ lora_set_freq => SoFar'
<1> SUFFICES ASSUME SoFar, lora_set_freq PROVE SoFar'
  OBVIOUS
<1> DEFINE frf == (eth.freq * 16384 + 9) \div 10
           msb == (frf \div 65536) % 256
           dim == (frf \div 256) % 256
           lsb == frf % 256
<1>1. /\ Call("freq") /\ UNCHANGED eth
      /\ \A other : Done(other)' <=> Done(other) \/ other = "freq"
  BY CallIsNext DEF lora_set_freq, Call
<1>2. /\ frf \in Nat /\ frf < 256 * 65536
      /\ frf * 10 - eth.freq * 16384 >= 0 /\ frf * 10 - eth.freq * 16384 <= 9
  <2> eth.freq \in Nat /\ eth.freq < 10240
    BY Asked
  <2> QED
    BY SMT
<1> HIDE DEF frf
<1>3. /\ msb \in Byte /\ dim \in Byte /\ lsb \in Byte
      /\ msb * 65536 + dim * 256 + lsb = frf
  BY <1>2, ThreeBytes
<1>4. /\ reg'["FR_MSB"] = msb /\ reg'["FR_DIM"] = dim /\ reg'["FR_LSB"] = lsb
      /\ \A r \in Registers \ {"FR_MSB", "FR_DIM", "FR_LSB"} : reg'[r] = reg[r]
      /\ reg' \in [Registers -> Byte]
  <2> reg' = [reg EXCEPT !["FR_MSB"] = msb, !["FR_DIM"] = dim, !["FR_LSB"] = lsb]
    BY DEF lora_set_freq, frf
  <2> HIDE DEF msb, dim, lsb
  <2> QED
    BY <1>3 DEF TypeOK, Registers
<1>5. TypeOK'
  BY <1>1, <1>4, StepType
<1> HIDE DEF msb, dim, lsb
<1>6. Frf' = frf
  BY <1>3, <1>4
<1>7. Frf' * 10 - eth'.freq * 16384 \in 0 .. 9
  <2> DEFINE excess == frf * 10 - eth.freq * 16384
  <2>1. excess \in Int /\ excess >= 0 /\ excess <= 9
    BY <1>2, Asked
  <2>2. Frf' * 10 - eth'.freq * 16384 = excess
    BY <1>1, <1>6
  <2> HIDE DEF excess
  <2> QED
    BY <2>1, <2>2
<1> QED
  BY <1>1, <1>4, <1>5, <1>7 DEF Registers

\* The remaining calls write registers of their own.
LEMMA OthersSoFar == SoFar /\ (lora_set_syncw \/ lora_set_lna \/ SetDetection) => SoFar'
<1> SUFFICES ASSUME SoFar, lora_set_syncw \/ lora_set_lna \/ SetDetection
             PROVE  SoFar'
  OBVIOUS
<1>1. PICK name \in {"syncw", "lna", "detect"} : Call(name)
  BY DEF lora_set_syncw, lora_set_lna, SetDetection
<1>2. /\ \A r \in Registers \ {"SYNC_WORD", "LNA", "DETECT_OPTIMIZE",
                              "DETECTION_THRESHOLD"} : reg'[r] = reg[r]
      /\ reg' \in [Registers -> Byte]
  <2>1. CASE lora_set_syncw
    BY <2>1, Asked DEF lora_set_syncw, TypeOK, Registers
  <2>2. CASE lora_set_lna
    BY <2>2, ResetAssumption DEF lora_set_lna, TypeOK, Registers
  <2>3. CASE SetDetection
    <3> 195 \in Byte /\ 10 \in Byte
      BY DEF Byte
    <3> QED
      BY <2>3 DEF SetDetection, TypeOK, Registers
  <2> QED
    BY <2>1, <2>2, <2>3
<1>3. UNCHANGED eth /\ \A other : Done(other)' <=> Done(other) \/ other = name
  BY <1>1, CallIsNext DEF Call
<1>4. TypeOK'
  BY <1>1, <1>2, StepType
<1> QED
  BY <1>2, <1>3, <1>4 DEF Registers

HIDE DEF SoFar

LEMMA BeginSoFar == SoFar /\ LoRa_begin => SoFar'
  BY HeaderSoFar, ErrorcrSoFar, BandwidthSoFar, SfSoFar, CrcSoFar, PowerIsKept,
     PreambleSoFar, AgcSoFar, LimitSoFar, FreqSoFar, OthersSoFar, Zenon
  DEF LoRa_begin

-----------------------------------------------------------------------------
(* The frames.                                                             *)

LEMMA ReadyAfterSending ==
  ASSUME ready \in BOOLEAN, LoRa_send \/ LoRa_receive
  PROVE  ready' \in BOOLEAN /\ (ready' => LoRa_send \/ ready)
<1>1. CASE LoRa_send
  <2>1. ready' = TRUE
    BY <1>1 DEF LoRa_send
  <2> QED
    BY <1>1, <2>1
<1>2. CASE LoRa_receive
  <2>1. ready' = ready
    BY <1>2 DEF LoRa_receive
  <2> QED
    BY <2>1
<1> QED
  BY <1>1, <1>2

\* A frame changes the payload length only where the length is not fixed.
LEMMA FrameSoFar ==
  ConfigInv /\ (LoRa_send \/ LoRa_receive) => ConfigInv'
<1> SUFFICES ASSUME ConfigInv, LoRa_send \/ LoRa_receive PROVE ConfigInv'
  OBVIOUS
<1> USE DEF ConfigInv
<1>1. reg["MODEM_CONFIG_3"] \in Byte /\ Bit(lowDataRateOptimize) \in 0 .. 1
  BY DEF TypeOK, Registers, Bit
<1>2. /\ LowDataRate \in Byte
      /\ Field(LowDataRate, 2, 1) = Field(reg["MODEM_CONFIG_3"], 2, 1)
      /\ Field(LowDataRate, 3, 1) = Bit(lowDataRateOptimize)
  BY <1>1, FieldsOfConfig3 DEF LowDataRate
<1>3. SendLength \in Byte
  BY Asked DEF SendLength
<1>4. UNCHANGED <<eth, step>> /\ Begun /\ ready' \in BOOLEAN
  <2>1. UNCHANGED <<eth, step>> /\ Begun
    BY DEF LoRa_send, LoRa_receive, Begun
  <2>2. ready' \in BOOLEAN
    BY ReadyAfterSending DEF TypeOK
  <2> QED
    BY <2>1, <2>2
<1>5. /\ reg'["MODEM_CONFIG_3"] = LowDataRate
      /\ \A r \in Registers \ {"MODEM_CONFIG_3", "PAYLOAD_LENGTH"} : reg'[r] = reg[r]
      /\ reg' \in [Registers -> Byte]
      /\ LoRa_send => reg'["PAYLOAD_LENGTH"] = SendLength
      /\ LoRa_receive => reg'["PAYLOAD_LENGTH"] = reg["PAYLOAD_LENGTH"]
  BY <1>2, <1>3 DEF LoRa_send, LoRa_receive, TypeOK, Registers
<1>6. TypeOK'
  BY <1>4, <1>5 DEF TypeOK
<1>7. SettingsSoFar' /\ PowerSoFar'
  BY <1>2, <1>4, <1>5 DEF Registers, Done, SendLength
<1>8. ReadyToSend'
  <2>1. /\ lowDataRateOptimize' <=> lowDataRateOptimize
        /\ SendLength' = SendLength /\ Begun'
    BY <1>4 DEF lowDataRateOptimize, SendLength, Begun
  <2>2. LowRate' = Bit(lowDataRateOptimize')
    BY <1>2, <1>5, <2>1 DEF LowRate, Bit
  <2>3. ready' => reg'["PAYLOAD_LENGTH"] = SendLength
    <3>1. ready' => LoRa_send \/ ready
      BY ReadyAfterSending DEF TypeOK
    <3> QED
      BY <1>5, <3>1 DEF ReadyToSend
  <2> QED
    BY <2>1, <2>2, <2>3 DEF ReadyToSend
<1> QED
  BY <1>6, <1>7, <1>8

LEMMA InitConfig == Init => ConfigInv
<1> SUFFICES ASSUME Init PROVE ConfigInv
  OBVIOUS
<1>1. TypeOK
  <2>1. PICK b \in ResetBytes : reg = [r \in Registers |-> b]
    BY DEF Init
  <2>2. reg \in [Registers -> Byte]
    BY <2>1, ResetAssumption
  <2>3. ready \in BOOLEAN
    BY DEF Init
  <2> QED
    BY <2>2, <2>3, OrderedCalls DEF Init, TypeOK
<1>2. \A name : ~Done(name)
  BY DEF Init, Done
<1>3. ReadyToSend
  BY DEF Init, ReadyToSend
<1> QED
  BY <1>1, <1>2, <1>3 DEF ConfigInv

LEMMA NextConfig == ConfigInv /\ [Next]_vars => ConfigInv'
<1> SUFFICES ASSUME ConfigInv, [Next]_vars PROVE ConfigInv'
  OBVIOUS
<1>1. CASE LoRa_begin
  <2>1. SoFar'
    BY <1>1, BeginSoFar DEF ConfigInv, SoFar
  <2>2. ~ready
    BY <1>1, CallsBeforeSending DEF ConfigInv
  <2>3. ready' = ready
    BY <1>1
    DEF LoRa_begin, Call, lora_set_header, lora_set_errorcr, lora_set_bandwidth,
        lora_set_sf, lora_set_crc, lora_set_tx_power, lora_set_syncw,
        lora_set_preamble, lora_set_agc, lora_set_lna, lora_set_ocp, SetDetection,
        lora_set_freq
  <2> QED
    BY <2>1, <2>2, <2>3 DEF ConfigInv, SoFar, ReadyToSend
<1>2. CASE LoRa_send \/ LoRa_receive
  BY <1>2, FrameSoFar
<1>3. CASE UNCHANGED vars
  BY <1>3
  DEF vars, ConfigInv, TypeOK, Done, ReadyToSend, Begun, LowRate, SendLength,
      lowDataRateOptimize
<1> QED
  BY <1>1, <1>2, <1>3 DEF Next

\* The registers' invariant holds in every reachable state.
THEOREM ConfigInvariance == Spec => []ConfigInv
  BY InitConfig, NextConfig, PTL DEF Spec

\* Whatever a program asks for, no setter and no frame disturbs the setting of
\* another.
THEOREM SettingsAreAlwaysKept == Spec => []SettingsAreKept
<1>1. ConfigInv => SettingsAreKept
  BY AllDone DEF ConfigInv, SettingsAreKept
<1> QED
  BY <1>1, ConfigInvariance, PTL

\* The current limit asked for survives the setting of the power.
THEOREM LimitIsAlwaysHonoured == Spec => []LimitIsHonoured
<1>1. ConfigInv => LimitIsHonoured
  BY AllDone DEF ConfigInv, LimitIsHonoured
<1> QED
  BY <1>1, ConfigInvariance, PTL

\* Every power but the 20 dBm setting is radiated at the pin chosen.
THEOREM PowerIsAlwaysRight == Spec => []PowerUpTo17
<1>1. ConfigInv => PowerUpTo17
  BY AllDone DEF ConfigInv, PowerUpTo17
<1> QED
  BY <1>1, ConfigInvariance, PTL

-----------------------------------------------------------------------------
(* The symbols of a frame.                                                 *)

\* k blocks of 4 * bits bits are as many as n bits need.
IsBlocks(k, n, bits) == k * 4 * bits >= n /\ (k - 1) * 4 * bits < n

LEMMA BlocksExist ==
  ASSUME NEW n \in Int, -40 <= n, n <= 2100, NEW bits \in 5 .. 12
  PROVE  \E k \in -40 .. 200 : IsBlocks(k, n, bits)
<1> DEFINE k == (n + 4 * bits - 1) \div (4 * bits)
<1>1. k \in Int /\ k >= -40 /\ k <= 200 /\ IsBlocks(k, n, bits)
  BY SMTT(60) DEF IsBlocks
<1> QED
  BY <1>1

\* The quotient rounded up is that number; it is no smaller for p >= n bits.
LEMMA BlocksCompared ==
  ASSUME NEW n \in Int, NEW p \in Int, n <= p, NEW bits \in 5 .. 12,
         NEW k \in Int, IsBlocks(k, n, bits),
         NEW a, a = CeilDiv(IF p < 0 THEN 0 ELSE p, 4 * bits),
         NEW b, b = IF k < 0 THEN 0 ELSE k
  PROVE  a \in Nat /\ b \in Nat /\ b <= a /\ (p = n => b = a)
  BY SMTT(60) DEF IsBlocks, CeilDiv

LEMMA Scaled ==
  ASSUME NEW a \in Nat, NEW b \in Nat, b <= a, NEW c \in 1 .. 4
  PROVE  8 + a * (4 + c) >= 8 + b * (c + 4)
  BY SMT

\* The driver counts the CRC's symbols whether there is a CRC or not.
LEMMA SymbolsCompared ==
  ASSUME ConfigInv, ready
  PROVE  /\ payloadSymbNb >= DataSheetSymbols
         /\ eth.CRC => payloadSymbNb = DataSheetSymbols
<1> DEFINE payload == IF eth.implicitHeader THEN eth.payloadLen ELSE eth.size
           poly == 8 * payload - 4 * eth.sf + 28 + 16 - 20 * Bit(eth.implicitHeader)
           bits == eth.sf - 2 * Bit(lowDataRateOptimize)
           n == 8 * reg["PAYLOAD_LENGTH"] - 4 * SpreadingFactor + 28 + 16 * CrcOn
                - 20 * Header
           radioBits == SpreadingFactor - 2 * LowRate
           blocks == CHOOSE k \in -40 .. 200 :
                       k * 4 * radioBits >= n /\ (k - 1) * 4 * radioBits < n
           a == CeilDiv(IF poly < 0 THEN 0 ELSE poly, 4 * bits)
           b == IF blocks < 0 THEN 0 ELSE blocks
<1>1. Begun /\ TypeOK
  BY DEF ConfigInv, ReadyToSend
<1>2. /\ SpreadingFactor = eth.sf /\ CrcOn = Bit(eth.CRC) /\ CodingRate = eth.ecr
      /\ Header = Bit(eth.implicitHeader) /\ LowRate = Bit(lowDataRateOptimize)
      /\ reg["PAYLOAD_LENGTH"] = payload
  BY <1>1, AllDone DEF ConfigInv, ReadyToSend, SendLength
<1>3. payloadSymbNb = 8 + a * (4 + eth.ecr)
  BY DEF payloadSymbNb
<1>4. DataSheetSymbols = 8 + b * (CodingRate + 4)
  BY DEF DataSheetSymbols
<1>5. /\ payload \in Nat /\ payload <= 255 /\ eth.sf \in 7 .. 12 /\ eth.ecr \in 1 .. 4
      /\ Bit(eth.CRC) \in 0 .. 1 /\ Bit(eth.implicitHeader) \in 0 .. 1
      /\ Bit(lowDataRateOptimize) \in 0 .. 1
      /\ (eth.CRC => Bit(eth.CRC) = 1)
  BY <1>1, Asked DEF Bit, Byte
<1> HIDE DEF payload, SpreadingFactor, CrcOn, CodingRate, Header, LowRate
<1>6. /\ n \in Int /\ -40 <= n /\ n <= 2100 /\ bits \in 5 .. 12 /\ radioBits = bits
      /\ poly \in Int /\ n <= poly /\ (eth.CRC => poly = n)
  BY <1>2, <1>5
<1> HIDE DEF poly, n, bits, radioBits
<1>7. blocks \in -40 .. 200 /\ IsBlocks(blocks, n, radioBits)
  <2>1. \E k \in -40 .. 200 : k * 4 * radioBits >= n /\ (k - 1) * 4 * radioBits < n
    BY <1>6, BlocksExist DEF IsBlocks
  <2> QED
    BY <2>1, Zenon DEF IsBlocks
<1> HIDE DEF blocks
<1>8. a \in Nat /\ b \in Nat /\ b <= a /\ (poly = n => b = a)
  <2>1. blocks \in Int
    BY <1>7
  <2> QED
    BY <1>6, <1>7, <2>1, BlocksCompared
<1> HIDE DEF a, b
<1>9. 8 + a * (4 + eth.ecr) >= 8 + b * (eth.ecr + 4)
  BY <1>5, <1>8, Scaled
<1>10. eth.CRC => 8 + a * (4 + eth.ecr) = 8 + b * (eth.ecr + 4)
  BY <1>5, <1>6, <1>8
<1> QED
  BY <1>2, <1>3, <1>4, <1>9, <1>10

\* The programs never sleep for fewer symbols than the radio sends, and the
\* preamble they count is the radio's where the radio has one of that length.
THEOREM AirtimeIsAlwaysEnough == Spec => []AirtimeIsEnough
<1>1. ASSUME ConfigInv, ready, 6 <= eth.preambleLen, eth.preambleLen <= 65535
      PROVE  Preamble = eth.preambleLen
  <2>1. Preamble = Clamp(eth.preambleLen, 6, 65535)
    BY <1>1, AllDone DEF ConfigInv, ReadyToSend
  <2>2. eth.preambleLen \in Nat
    BY <1>1, Asked DEF ConfigInv
  <2> HIDE DEF Preamble
  <2> QED
    BY <1>1, <2>1, <2>2 DEF Clamp
<1>2. ConfigInv => AirtimeIsEnough
  BY <1>1, SymbolsCompared DEF AirtimeIsEnough
<1> QED
  BY <1>2, ConfigInvariance, PTL
=============================================================================
