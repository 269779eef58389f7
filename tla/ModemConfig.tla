---------------------------- MODULE ModemConfig -----------------------------
(***************************************************************************)
(* How LoRa_begin turns a Modem_cfg into the radio's registers, setter by  *)
(* setter, and how LoRa_send and LoRa_receive adjust them before a frame.  *)
(* Several settings share a register: MODEM_CONFIG_1 holds bandwidth, error *)
(* coding and header, MODEM_CONFIG_2 spreading factor and CRC,             *)
(* MODEM_CONFIG_3 gain control and low data rate, and two setters write    *)
(* REG_OCP.  A register is a byte, a mask one of its bit fields.           *)
(*                                                                         *)
(* Powers and currents are read back the way the SX1278 data sheet defines *)
(* the registers.  Frequencies are in units of 100 kHz.                    *)
(***************************************************************************)
EXTENDS Integers, Sequences

CONSTANTS
  Configs,    \* the values of Modem_cfg a program may ask for
  ResetBytes  \* what a register may hold after lora_reset

Byte == 0 .. 255

BandWidths == 0 .. 9          \* BandWidth >> 4: BW7_8 .. BW500
SpreadingFactors == 7 .. 12   \* SpreadingFactor >> 4
ErrorCodingRates == 1 .. 4    \* ErrorCodingRate >> 1: CR5 .. CR8
OutputPowers == (0 .. 17) \cup {20}
RFO == 112                    \* 0x70
PA_BOOST == 240               \* 0xf0

Carriers == {f \in Nat : f < 10240}  \* 1024 MHz: what three registers hold

ConfigType ==
  [bw : BandWidths, sf : SpreadingFactors, ecr : ErrorCodingRates,
   CRC : BOOLEAN, implicitHeader : BOOLEAN, payloadLen : Byte, size : Byte,
   outPower : OutputPowers, powerOutPin : {RFO, PA_BOOST}, OCP : Byte,
   AGC : BOOLEAN, syncWord : Byte, preambleLen : Nat, freq : Carriers]

ASSUME ConfigsAssumption == Configs \subseteq ConfigType
ASSUME ResetAssumption == ResetBytes \subseteq Byte

\* (mutant) The current limit is set before the power.
OrderOcpFirst == <<"header", "errorcr", "bandwidth", "sf", "crc", "ocp",
                   "tx_power", "syncw", "preamble", "agc", "lna", "detect", "freq">>

\* The calls of LoRa_begin, in their order.
Order == <<"header", "errorcr", "bandwidth", "sf", "crc", "tx_power", "syncw",
           "preamble", "agc", "lna", "ocp", "detect", "freq">>

Registers == {"MODEM_CONFIG_1", "MODEM_CONFIG_2", "MODEM_CONFIG_3", "OCP",
              "PA_DAC", "PA_CONFIG", "SYNC_WORD", "PAYLOAD_LENGTH",
              "PREAMBLE_MSB", "PREAMBLE_LSB", "FR_MSB", "FR_DIM", "FR_LSB",
              "LNA", "DETECT_OPTIMIZE", "DETECTION_THRESHOLD"}

VARIABLES
  eth,   \* modem->eth, and tx.data.size
  reg,   \* the registers
  step,  \* the next call of LoRa_begin
  ready  \* LoRa_send has been called

vars == <<eth, reg, step, ready>>

TypeOK ==
  /\ eth \in Configs
  /\ reg \in [Registers -> Byte]
  /\ step \in 1 .. Len(Order) + 1
  /\ ready \in BOOLEAN

Init ==
  /\ eth \in Configs
  /\ \E b \in ResetBytes : reg = [r \in Registers |-> b]
  /\ step = 1 /\ ready = FALSE

Bit(b) == IF b THEN 1 ELSE 0
Clamp(n, low, high) == IF n < low THEN low ELSE IF n > high THEN high ELSE n

\* The field of `width' bits from bit `low' up, and the byte with that field
\* replaced: (byte & ~mask) | value.
Field(byte, low, width) == (byte \div 2^low) % 2^width
WithField(byte, low, width, value) ==
  byte + (value - Field(byte, low, width)) * 2^low

-----------------------------------------------------------------------------
(* LoRa_begin.                                                             *)

Call(name) ==
  /\ step <= Len(Order) /\ Order[step] = name
  /\ step' = step + 1
  /\ UNCHANGED <<eth, ready>>

Write(r, byte) == reg' = [reg EXCEPT ![r] = byte]

\* The implicit header comes with a fixed payload length.
lora_set_header ==
  /\ Call("header")
  /\ reg' = [reg EXCEPT
       !["MODEM_CONFIG_1"] = WithField(@, 0, 1, Bit(eth.implicitHeader)),
       !["PAYLOAD_LENGTH"] = IF eth.implicitHeader THEN eth.payloadLen ELSE @]

lora_set_errorcr ==
  /\ Call("errorcr")
  /\ Write("MODEM_CONFIG_1", WithField(reg["MODEM_CONFIG_1"], 1, 3, eth.ecr))

lora_set_bandwidth ==
  /\ Call("bandwidth")
  /\ Write("MODEM_CONFIG_1", WithField(reg["MODEM_CONFIG_1"], 4, 4, eth.bw))

lora_set_sf ==
  /\ Call("sf")
  /\ Write("MODEM_CONFIG_2", WithField(reg["MODEM_CONFIG_2"], 4, 4, eth.sf))

lora_set_crc ==
  /\ Call("crc")
  /\ Write("MODEM_CONFIG_2", WithField(reg["MODEM_CONFIG_2"], 2, 1, Bit(eth.CRC)))

\* pa_pin | power: the lowest four bits of a pin are zero, its next three ones.
PaConfig(pin, power) == pin + (power % 16)

\* (mutant) The pin's own offset of the output power is forgotten.
lora_set_tx_powerNoOffset ==
  /\ Call("tx_power")
  /\ reg' = [reg EXCEPT
       !["OCP"] = 31, !["PA_DAC"] = 132,
       !["PA_CONFIG"] = PaConfig(eth.powerOutPin, Clamp(eth.outPower, 2, 17))]

\* It switches the over current protection off.
lora_set_tx_power ==
  /\ Call("tx_power")
  /\ LET full == eth.powerOutPin = PA_BOOST /\ eth.outPower = 20
         power == IF eth.powerOutPin = RFO THEN Clamp(eth.outPower, 0, 15)
                  ELSE IF full THEN 20 - 2
                  ELSE Clamp(eth.outPower, 2, 17) - 2
     IN  reg' = [reg EXCEPT
           !["OCP"] = 31,
           !["PA_DAC"] = IF full THEN 135 ELSE 132,
           !["PA_CONFIG"] = PaConfig(eth.powerOutPin, power)]

lora_set_syncw == Call("syncw") /\ Write("SYNC_WORD", eth.syncWord)

lora_set_preamble ==
  /\ Call("preamble")
  /\ LET len == Clamp(eth.preambleLen, 6, 65535)
     IN  reg' = [reg EXCEPT !["PREAMBLE_MSB"] = len \div 256,
                            !["PREAMBLE_LSB"] = len % 256]

lora_set_agc == Call("agc") /\ Write("MODEM_CONFIG_3", Bit(eth.AGC) * 4)

\* No program sets lnaGain or lnaBoost: whatever the stack held is written.
lora_set_lna == Call("lna") /\ \E byte \in ResetBytes : Write("LNA", byte)

lora_set_ocp ==
  /\ Call("ocp")
  /\ Write("OCP",
       IF eth.OCP = 0 THEN WithField(reg["OCP"], 5, 1, 0)
       ELSE IF eth.OCP <= 120 THEN (Clamp(eth.OCP, 50, 120) - 45) \div 5 + 32
       ELSE (Clamp(eth.OCP, 130, 255) + 30) \div 10 + 32)

\* The detection settings for spreading factors above 6.
SetDetection ==
  /\ Call("detect")
  /\ reg' = [reg EXCEPT !["DETECT_OPTIMIZE"] = 195, !["DETECTION_THRESHOLD"] = 10]

\* (mutant) The bytes are not cut out of the number.
lora_set_freqUnsplit ==
  /\ Call("freq")
  /\ LET frf == (eth.freq * 16384 + 9) \div 10
     IN  reg' = [reg EXCEPT !["FR_MSB"] = frf \div 65536,
                            !["FR_DIM"] = frf \div 256, !["FR_LSB"] = frf]

\* The frequency in steps of 32 MHz / 2^19, rounded up, most significant byte
\* first.
lora_set_freq ==
  /\ Call("freq")
  /\ LET frf == (eth.freq * 16384 + 9) \div 10
     IN  reg' = [reg EXCEPT !["FR_MSB"] = (frf \div 65536) % 256,
                            !["FR_DIM"] = (frf \div 256) % 256,
                            !["FR_LSB"] = frf % 256]

LoRa_begin ==
  \/ lora_set_header \/ lora_set_errorcr \/ lora_set_bandwidth \/ lora_set_sf
  \/ lora_set_crc \/ lora_set_tx_power \/ lora_set_syncw \/ lora_set_preamble
  \/ lora_set_agc \/ lora_set_lna \/ lora_set_ocp \/ SetDetection \/ lora_set_freq

-----------------------------------------------------------------------------
(* LoRa_send and LoRa_receive.                                             *)

BW_VAL == <<7800, 10400, 15600, 20800, 31250, 41700, 62500, 125000, 250000,
            500000>>

\* LoRa_calculate_packet_t: Tsym > 16, Tsym being 2^sf / bw * 1000.
lowDataRateOptimize == 2^eth.sf * 1000 > 16 * BW_VAL[eth.bw + 1]

CeilDiv(a, b) == (a + b - 1) \div b

\* (mutant) Optimized symbols are taken to carry sf bits, not sf - 2.
payloadSymbNbUnoptimized ==
  LET payload == IF eth.implicitHeader THEN eth.payloadLen ELSE eth.size
      poly == 8 * payload - 4 * eth.sf + 28 + 16 - 20 * Bit(eth.implicitHeader)
  IN  8 + CeilDiv(IF poly < 0 THEN 0 ELSE poly, 4 * eth.sf) * (4 + eth.ecr)

payloadSymbNb ==
  LET payload == IF eth.implicitHeader THEN eth.payloadLen ELSE eth.size
      poly == 8 * payload - 4 * eth.sf + 28 + 16 - 20 * Bit(eth.implicitHeader)
      bits == eth.sf - 2 * Bit(lowDataRateOptimize)
  IN  8 + CeilDiv(IF poly < 0 THEN 0 ELSE poly, 4 * bits) * (4 + eth.ecr)

\* (mutant) The write forgets the rest of the register.
LowDataRateAlone == Bit(lowDataRateOptimize) * 8

\* lora_set_lowdatarateoptimize_on or _off: MODEM_CONFIG_3 as it is left.
LowDataRate ==
  WithField(reg["MODEM_CONFIG_3"], 3, 1, Bit(lowDataRateOptimize))

\* The bytes LoRa_send hands to lora_write_fifo.
SendLength == IF eth.implicitHeader THEN eth.payloadLen ELSE eth.size

\* lora_write_fifo sets the payload length, whatever it was.
LoRa_send ==
  /\ step > Len(Order)
  /\ ready' = TRUE
  /\ reg' = [reg EXCEPT !["MODEM_CONFIG_3"] = LowDataRate,
                        !["PAYLOAD_LENGTH"] = SendLength]
  /\ UNCHANGED <<eth, step>>

LoRa_receive ==
  /\ step > Len(Order)
  /\ Write("MODEM_CONFIG_3", LowDataRate)
  /\ UNCHANGED <<eth, step, ready>>

Next == LoRa_begin \/ LoRa_send \/ LoRa_receive

Spec == Init /\ [][Next]_vars

-----------------------------------------------------------------------------
(* The registers read back, as the data sheet defines them.                *)

\* REG_OCP: bit 5 switches the limit on, the rest gives it in mA.
OcpOn == Field(reg["OCP"], 5, 1) = 1
Imax ==
  LET trim == Field(reg["OCP"], 0, 5)
  IN  IF trim <= 15 THEN 45 + 5 * trim
      ELSE IF trim <= 27 THEN 10 * trim - 30
      ELSE 240

\* REG_PA_CONFIG and REG_PA_DAC: dBm at the pin the power goes to.
OnBoost == Field(reg["PA_CONFIG"], 7, 1) = 1
Dbm ==
  LET power == Field(reg["PA_CONFIG"], 0, 4)
  IN  IF ~OnBoost THEN power
      ELSE IF Field(reg["PA_DAC"], 0, 3) = 7 THEN 5 + power
      ELSE 2 + power

Bandwidth == Field(reg["MODEM_CONFIG_1"], 4, 4)
SpreadingFactor == Field(reg["MODEM_CONFIG_2"], 4, 4)
CodingRate == Field(reg["MODEM_CONFIG_1"], 1, 3)
Header == Field(reg["MODEM_CONFIG_1"], 0, 1)
CrcOn == Field(reg["MODEM_CONFIG_2"], 2, 1)
LowRate == Field(reg["MODEM_CONFIG_3"], 3, 1)
Preamble == reg["PREAMBLE_MSB"] * 256 + reg["PREAMBLE_LSB"]
Frf == reg["FR_MSB"] * 65536 + reg["FR_DIM"] * 256 + reg["FR_LSB"]

\* The symbols of a payload by the data sheet's formula, from the registers.
DataSheetSymbols ==
  LET n == 8 * reg["PAYLOAD_LENGTH"] - 4 * SpreadingFactor + 28 + 16 * CrcOn
           - 20 * Header
      blocks == CHOOSE k \in -40 .. 200 :
                  /\ k * 4 * (SpreadingFactor - 2 * LowRate) >= n
                  /\ (k - 1) * 4 * (SpreadingFactor - 2 * LowRate) < n
  IN  8 + (IF blocks < 0 THEN 0 ELSE blocks) * (CodingRate + 4)

Begun == step > Len(Order)

\* After LoRa_begin, and after any number of frames, the settings that share
\* registers are all what the program asked for: no setter, and neither LoRa_send
\* nor LoRa_receive, disturbs another's field.  The carrier, kept in three
\* registers, is less than one step (61 Hz) above the one asked for.
SettingsAreKept ==
  Begun =>
    /\ Bandwidth = eth.bw /\ CodingRate = eth.ecr
    /\ Header = Bit(eth.implicitHeader)
    /\ SpreadingFactor = eth.sf /\ CrcOn = Bit(eth.CRC)
    /\ Field(reg["MODEM_CONFIG_3"], 2, 1) = Bit(eth.AGC)
    /\ eth.implicitHeader => reg["PAYLOAD_LENGTH"] = eth.payloadLen
    /\ Frf * 10 - eth.freq * 16384 \in 0 .. 9

\* The current limit is on exactly if one was asked for, although setting the
\* power switches it off, and is within 10 mA of the one asked for where the
\* radio has one (50 mA to 240 mA).
LimitIsHonoured ==
  Begun =>
    /\ OcpOn <=> eth.OCP # 0
    /\ eth.OCP \in 50 .. 240 => Imax - eth.OCP \in -9 .. 9

\* Short of the 20 dBm setting, the power radiated at the chosen pin is the one
\* asked for, or the nearest the pin has.
PowerUpTo17 ==
  Begun /\ eth.outPower # 20 =>
    /\ OnBoost <=> eth.powerOutPin = PA_BOOST
    /\ Dbm = IF OnBoost THEN Clamp(eth.outPower, 2, 17) ELSE Clamp(eth.outPower, 0, 15)

\* The time the programs sleep for a frame is computed from as many symbols as
\* the radio sends with what is in its registers, or more if the CRC is off; and
\* from the preamble in its registers, or less if a shorter one was asked for than
\* the radio has.
AirtimeIsEnough ==
  ready =>
    /\ payloadSymbNb >= DataSheetSymbols
    /\ eth.CRC => payloadSymbNb = DataSheetSymbols
    /\ 6 <= eth.preambleLen /\ eth.preambleLen <= 65535 =>
         Preamble = eth.preambleLen

\* The parts that make these inductive: a setting keeps to its field from its
\* call on, whatever the calls after it write to the same register.
Done(name) == \E i \in 1 .. step - 1 : Order[i] = name

SettingsSoFar ==
  /\ Done("header") =>
       /\ Header = Bit(eth.implicitHeader)
       /\ eth.implicitHeader => reg["PAYLOAD_LENGTH"] = eth.payloadLen
  /\ Done("errorcr") => CodingRate = eth.ecr
  /\ Done("bandwidth") => Bandwidth = eth.bw
  /\ Done("sf") => SpreadingFactor = eth.sf
  /\ Done("crc") => CrcOn = Bit(eth.CRC)
  /\ Done("agc") => Field(reg["MODEM_CONFIG_3"], 2, 1) = Bit(eth.AGC)
  /\ Done("freq") => Frf * 10 - eth.freq * 16384 \in 0 .. 9
  /\ Done("preamble") => Preamble = Clamp(eth.preambleLen, 6, 65535)

PowerSoFar ==
  /\ Done("tx_power") /\ eth.outPower # 20 =>
       /\ OnBoost <=> eth.powerOutPin = PA_BOOST
       /\ Dbm = IF OnBoost THEN Clamp(eth.outPower, 2, 17)
                ELSE Clamp(eth.outPower, 0, 15)
  /\ Done("ocp") =>
       /\ OcpOn <=> eth.OCP # 0
       /\ eth.OCP \in 50 .. 240 => Imax - eth.OCP \in -9 .. 9

\* Once LoRa_send has been called the radio knows the frame's length and rate.
ReadyToSend ==
  ready =>
    /\ Begun
    /\ LowRate = Bit(lowDataRateOptimize)
    /\ reg["PAYLOAD_LENGTH"] = SendLength

\* The inductive invariant of the registers.
ConfigInv == TypeOK /\ SettingsSoFar /\ PowerSoFar /\ ReadyToSend

\* "Max 20dBm power": the OP20 setting radiates 20 dBm.
FullPowerIs20 ==
  Begun /\ eth.powerOutPin = PA_BOOST /\ eth.outPower = 20 => Dbm = 20
=============================================================================
