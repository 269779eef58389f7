# Verification of the sx1278 LoRa access point

The repository holds a driver for the SX1278 radio (`LoRa.c`), an access point
built on it (`tx_explicit_example.c`, the program `lora`), the MQTT helper both
programs use (`common.c`), a 4G dial-up program (`4gconnect.c`) and three
example programs.  The access point broadcasts, listens a few seconds for a
mobile unit's report, stores the report in a local sqlite table, acknowledges
it by radio, and a second thread hands the stored reports to an MQTT server.

This directory models the parts of it in which something can go wrong between
two threads, between the program and the radio, or between two lives of the
process; checks them with TLC on small instances; and proves with TLAPS, for
every value of the constants, each safety property that the passing runs check,
and the refinements between the modules.

## Inventory

| Component | State it keeps | Operations | Talks to | What makes it correct |
|---|---|---|---|---|
| Radio and driver: `LoRa.c`, `LoRa.h` | the chip's mode, interrupt flags, DIO mapping, FIFO and pointer; `LoRa_ctl`; the registered handler | `LoRa_send`, `LoRa_receive`, `rxDoneISRf`, `txDoneISRf` | SPI to the chip; pigpio's interrupt thread calls the handlers, they call the program's callbacks | mode, mapping, handler and antenna agree; TxDone is reported only for a frame that has left; no interrupt is lost |
| Access point loop: `main` of `tx_explicit_example.c` | `lora_tx_done`, `lora_rx_done`, `rxbuf`, the packets | broadcast, wait, window, checks, INSERT, acknowledge | the driver, the callbacks (shared flags and `rxbuf`, no lock), the database | what is stored is what was received; every wait ends |
| Store and forward: `thread_pub_db`, `threadUpdate`, `callbackSelect`, the INSERT of `main` | the table `rawdata`, the connection's mutex | create, INSERT, SELECT/UPDATE, DELETE | both threads through the table and the mutex; MQTT | no stored report is lost, order is kept, each is handed over |
| MQTT helper: `common.c` | the library's client and loop thread, one call long | `mqtt_publish_message`, its callbacks | the mosquitto library's loop thread; `exit()` | a call returns, and returns 0 only if the message was written |
| Modem configuration and airtime: `LoRa.c` | the configuration registers | `LoRa_begin`'s setters, `LoRa_calculate_packet_t`, the writes of `LoRa_send` and `LoRa_receive` | registers shared by several setters | the registers say what was asked for, after any number of frames; a computed airtime is long enough |
| 4G dial-up: `www_connect` of `4gconnect.c` | the serial port, the retry counter | open, AT commands, report loop | a modem that answers late or not at all; the MQTT helper | dialling ends; success means connected |
| Examples: `rx_explicit_example.c`, `tx_implicit_example.c`, `rx_implicit_example.c` | two flags and two buffers | send once, receive once or for ever, `LoRa_end` | the driver | the driver's discipline; frames are printed in order, none more than twice, and whole if no other comes meanwhile; the end leaves radio and interrupt quiet |

Hard behaviours: the main thread and pigpio's interrupt thread share the radio
and `rxbuf` and interleave between any two SPI transfers; both write the mode
register and reset all interrupt flags; the FIFO pointer is one register for
both; the loop waits for `lora_tx_done` without a limit; the process ends by
`exit()` inside MQTT callbacks, with rows half handed over; the publisher holds
the database mutex across a network exchange that a second thread carries out;
the radio refills `rxbuf` while the loop waits for that mutex; an example takes
the handler away while it may be at work; answers of the 4G modem are not tied
to their commands.  `PROJECT.json` lists each hazard at its line.

## Modules

| Module | Models | Uses |
|---|---|---|
| `Sx1278` | the chip as the driver sees it: the registers the data path uses, one action or operator per SPI transfer, and the two things it does alone (finish a transmission, hear a frame). External: the chip is not in the repository | |
| `LoRa` | `LoRa_send`, `LoRa_receive` (step by step, `op` is the program counter of the call), `rxDoneISRf`, `txDoneISRf` (`isr`), pigpio's edge latch and dispatch; what every program on the driver relies on (`RadioIsWired`, `NeverDeaf`) | `Sx1278` |
| `Gateway` | `main`'s loop (`pc`), `rx_f`, `tx_f`, and the properties | `LoRa` |
| `PromptGateway` | `Gateway`, and in half of its behaviours (`prompt`) a handler always finishes before the loop's next step | `Gateway` |
| `Examples` | the four example programs and `LoRa_end` | `LoRa` |
| `ReportQueue` | abstract: what the database promises about reports | |
| `Outbox` | `thread_pub_db`, the INSERT, `threadUpdate`, `callbackSelect`, crash, restart; `mqtt_publish_message` as a step that writes and returns, fails, or hangs | instance of `ReportQueue` |
| `Mqtt` | `mqtt_publish_message` call by call, the library's loop thread, the callbacks | |
| `Uplink` | `Outbox` with its publish step replaced by `Mqtt`; implements `Outbox` through a refinement mapping | `Outbox`, `Mqtt`, instance of `Outbox` |
| `System` | the whole access point: `Gateway` storing into `Outbox`, crashes that reset the radio and keep the table | `Gateway`, instance of `Outbox` |
| `Dialer` | `www_connect`, the 4G modem behind the serial port, and the report loop around `Mqtt` | `Mqtt` |
| `ModemConfig` | `LoRa_begin`'s setters on register bytes, the registers `LoRa_send` and `LoRa_receive` write, the symbol count; the data sheet's reading of the registers | |
| `LoRaProofs` | lemmas: every step of the driver and of the radio keeps their types, whatever program runs on them | `LoRa` |
| `GatewayProofs` | theorems about `Gateway` and `PromptGateway` | both, `LoRaProofs` |
| `OutboxProofs` | theorems about `Outbox` | `Outbox` |
| `UplinkProofs` | theorems about `Uplink`, and that it implements `Outbox` | `Uplink`, `OutboxProofs` and an instance of it |
| `SystemProofs` | theorems about the composition, from those of its parts | `System`, `GatewayProofs`, instance of `OutboxProofs` |
| `ExamplesProofs` | theorems about `Examples` | `Examples`, `LoRaProofs` |
| `DialerProofs`, `ModemConfigProofs` | theorems about `Dialer` and `ModemConfig` | these |
| `MCGateway`, `MCOutbox`, `MCSystem`, `MCExamples`, `MCModemConfig`, `MCDialer` | instances for TLC | |

Three layers say the same of the reports: `ReportQueue` is the promise,
`Outbox` the table and its two threads, `Uplink` the table with the network
call in full.  `Uplink` implements `Outbox` and `Outbox` implements
`ReportQueue`, so that `System`, which composes `Gateway` with `Outbox`, need
not carry the call's own threads.

### How state and actions correspond to the code

*Radio.*  One SPI transfer is one step.  A read-modify-write of `REG_OP_MODE` is
one step placed at its write: the bits it preserves never change after
`LoRa_begin`.  A frame fills one FIFO cell whatever its length, `FifoCells`
stands for the 256 bytes.  Sleep loses the FIFO, and a sleeping chip ignores
FIFO accesses.  `REG_FIFO_RX_CURRENT_ADDR` (`rxCurrent`) keeps its value when
reception is entered again, the modem's own write position (`rxNext`) does not.
The modem configuration written by each call is in `ModemConfig` and not
repeated here.

*Interrupts.*  pigpio watches for rising edges once a handler is registered and
calls the handler that is registered when it gets to run; edges during a
handler are one pending edge (`edge`).  `lora_reg_read_bytes` clears the buffer,
runs the transfer and copies it out; the copy is two steps (head, tail),
because the loop can see it half done.  A frame is represented by its identity
in both halves, so that a torn buffer is one with different halves.

*Loop.*  `pc` has one place per wait, check or copy of the loop body.  The loop
moves only when it is in no driver call (`op = "idle"`).  Three groups of
statements are merged into one step: clearing a flag and the first statement of
the driver call (`Send`); `memset`, clearing `lora_rx_done` and entering
`LoRa_receive` (`StartReceive`).  The interrupt thread could only observe the
difference if it were still working on a frame there; `WindowStartsEmpty`
states that it never is (at `pc = "listen"`, too), so the merge loses nothing.
The flags are plain `bool`s: a data race, which on this target can only delay
the loop, because the flags' addresses are reachable from the callbacks and
every poll calls a library function in between.  The packets' fields are
abstracted to the sets `Reports`, `EventOne` and `Reserved`; the additive
checksum is whatever it may be (`SumsToZero`) unless the frame is whole,
undamaged and summed by its sender.

*Examples.*  One program runs at a time, chosen in `Init`; all four share the
module because they share flags, callbacks and the end.  `rx_main` clears its
flag and calls `LoRa_receive` with the radio still listening, so the calls of
the driver meet an interrupt thread at any place of its handler.  An intact frame is
printed by many calls of `printf`, of which the model has two steps, the first
and the rest, between which the handler may refill the buffer.  Each frame on
the air is a frame of its own (`air` is its place among the heard), so that
`shown`, the frames printed in order, tells a repeat from a like frame.  `air`,
`shown` and `alone` are histories that no guard reads.  Removing the
handler cancels pigpio's thread at a cancellation point: between two handlers,
or in a callback, which prints; a transfer under way is finished.

*Store and forward.*  Both opens of `thread_pub_db` may fail in every life,
whether the file is there or not: the rest of that life has neither publisher
nor table (`NoPublisher`, `Usable`).  If only the first fails the table is
created, or found, once more (`OpenAgain`).  `unsent` and `sent` are the IDs with
`LOCAL=1` and `LOCAL=0`.  A statement of sqlite is atomic and durable.  `handed` records every
write to an MQTT connection.  The age of a row is abstracted: `DeleteOld`
removes any set of sent rows.  The callback runs inside the SELECT with the
recursive mutex held, so publish, UPDATE and DELETE belong to one critical
section.

*MQTT.*  `call` is the calling thread's place, one per library call in which it
can fail or wait; `thread` is the library's loop thread; `out` what is queued
for the connection.  The library is external: that a QoS 0 message is followed
by the publish callback once it is written, that a DISCONNECT is followed by
the disconnect callback, and that the loop thread ends only then, is taken from
the calls made here and from the log in the comment above
`mqtt_publish_message`.  In `Uplink` the variable `pub` stays at `"publish"`
during the call; `pubSeen` is what `Outbox` sees of it: `"publish"` until the
PUBLISH is written, `"written"` after it, `"stuck"` once the call hangs.

*Composition.*  `System` lets `main` set the database up before it begins with
the radio.  The message is formatted (`FormatMessage`) before the mutex is asked
for, and the loop stands at its INSERT until it has it, while the interrupt
thread goes on refilling `rxbuf`; `content` keeps the message of each row.  A
crash takes the radio's state, the buffers and the threads, and leaves the
table.  Steps of the loop and of the publisher are taken between two handlers
(`Calm`): the races of the loop with the handlers are the subject of `Gateway`,
and the publisher shares no state with them.

*Dial-up.*  `requests` are the commands the modem has and has not executed,
`input` the answers the port holds.  `WriteCommand` has the outcome in which
`tcflush(TCOFLUSH)` discards what was just written.  The retry limits are the
code's own.  A USB reset may take the modem's connection down.  After the
dialling each report reads the interface's address and makes the call of `Mqtt`;
a refused or lost connection ends the process.  `reported` is a history: the loop
thread of the call has written the report in turn.

*Configuration.*  One action per setter of `LoRa_begin`, in the code's order,
each on the bits of its register; `ResetBytes` are the bytes the registers hold
after a reset.  `lnaGain` and `lnaBoost` are set by no program: the byte written
to `REG_LNA` is any of them.

## Runs

All constants not named are as in the `.cfg` files.

| Run | Question | Bounds |
|---|---|---|
| `gateway_races` | Does the discipline between loop and interrupt thread hold in every interleaving?  Is a stored report one of this window, and the one received?  Does every window close?  And with a prompt interrupt thread: do transmissions complete, does the radio listen while the loop waits, is the requested frame on the air, is a report answered? | 4 frames (ordinary report, other event type, stray frame, damaged report), 2 FIFO cells, 1 poll, 2 frames per window |
| `transmit_completes`, `listens_while_waiting` | Two of these promises without that assumption: each is violated | 1 good frame, 1 frame per window |
| `crc_error_is_discarded` | Is a frame with a CRC error never stored?  Violated when a second frame comes in the window | 2 frames per window |
| `outbox` | Is the database a queue that loses nothing, under crashes and failures?  Does the call in full implement the publish step?  Is everything handed over, unless a call hangs or the last life cannot open the file, and does the loop get the mutex, unless a call hangs? | 3 rows, 3 faults |
| `opened_has_table` | Does a life that finds the file and starts the publisher have a table?  Violated after a crash between file and table | 1 row, 1 fault |
| `failed_publish_returns` | Does a failed publish come back to its caller?  Violated: `mosquitto_loop_stop` waits for a thread nobody ends | 1 row, 1 fault |
| `system` | Is an acknowledged report stored, unless something failed on the way, and forwarded whatever fails later, unless a call hangs or the last life cannot open the file?  Is what is stored genuine although the buffer is refilled behind the mutex?  Is the report answered while the publisher holds the mutex? | 1 good and 1 damaged frame, 1 FIFO cell, no poll that finds nothing, 2 frames per window, 2 rows, 2 faults |
| `examples` | Does the discipline hold when reception is started again under the handler?  Are frames printed in order, none more than twice, and whole if no other comes meanwhile, and does one wake the loop?  Do the other programs end, with the radio asleep and the frame sent? | 2 good frames and 1 damaged one, each heard once, 2 FIFO cells |
| `modem_config` | Do the registers say what `Modem_cfg` asked for, also after frames?  Is the computed airtime long enough? | the programs' settings, each varied over its values or extremes; reset values 0 and 255 |
| `full_power_is_20` | Does OP20 radiate 20 dBm?  Violated: 0xf2 is 7 dBm | the same |
| `dialer` | Does dialling end, and does success mean connected?  Is a report written before the next one, and does it end? | none: the retry limits are the code's |

Seven of the invariants the runs name are the inductive invariants of the proofs
(see below), conjunctions of named parts that begin with the types.  `TimedInv`
holds `IInv` of `Gateway`, and so `RadioIsWired`, `WindowStartsEmpty` and
`NeverDeaf`; `QueueInv` holds `NoUnsentLoss` and `HandedInOrder`; `UplinkInv` what
the call of MQTT keeps; `SystemInv` joins `IInv` and `QueueInv`; `ExamplesInv`
holds `DisciplineUntilEnd`, which is `WiredUntilEnd` and `NeverDeafUntilEnd`;
`DialInv` and `ConfigInv` are those of `Dialer` and `ModemConfig`.

Why the bounds are enough.  `WaitCount` is 40 in the code; the loop only
compares it with a counter, and 1 already gives a poll that finds nothing, one
that finds the flag and a time-out.  Two frames per window are the least with
which one overtakes another, two FIFO cells the least in which the receive
pointer moves away from the transmit base; three frames in `examples` let one be
heard while `rx_main` arms the radio after another.  Three rows and three faults
allow a failed publish, a failed UPDATE and a crash, with a row before and a row
behind the one concerned.

`System` is the product of the two, and smaller bounds keep it within reach:
frames are heard where the loop stands still, the first of a window while it polls
and the second while it waits for the mutex, and only while there is room for a
row (`HearReport`).  Frames between two other
steps of the loop are in `gateway_races`, three rows in `outbox`; what only the
composition shows, a buffer refilled behind the mutex, a fault between the
INSERT and the acknowledgement, an old row ahead of the new one, a crash
followed by a failed open, fits into two rows, two frames and two faults.

The counters `heard` and `faults` and the bounds `MaxHeard`, `MaxRows` and
`MaxFaults` exist only to keep TLC's runs finite; the theorems hold for every
value of them.  `air`, `shown` and `alone` (`Examples`) and `reported`
(`Dialer`) are histories that the properties read and no guard does.

`CHECK_DEADLOCK FALSE` is used where the system may stop: in `dialer` the
process ends, in `examples` three of the programs do and `rx_main` waits for
ever, and in `outbox`, `failed_publish_returns` and `system` everything stops
once a publish hangs and the radio loop waits for the mutex.

### Fairness

`Gateway`, `PromptGateway`, `Examples`: weak fairness of the program, of the
interrupt thread and of the end of a transmission.  Both threads are ordinary
threads, and the chip ends a transmission by itself.  Nothing forces a frame to
be heard.  `prompt` restricts the loop instead of adding fairness.

`Uplink`: weak fairness of the set-up, the restart, the INSERT, the publisher,
the calling thread and the loop thread; strong fairness of the two entries to
the mutex, because the publisher sleeps for three seconds in each round and the
loop is on the radio for seconds, both with the mutex free.  Nothing is asked of
the server.  That somebody restarts the process is an assumption about the
installation; the repository does not say who.

`System`: as in these two; strong where a handler at work (`Calm`) disables a
thread again and again that in truth stays ready.

`Dialer`: weak fairness of the program and of the loop thread; the modem owes
nothing.

## Findings

* `LoRa.c:240`: `rxDoneISRf` resets all interrupt flags.  A handler that runs late, after
  `LoRa_send` has begun, takes TxDone with it, and the loop waits for
  `lora_tx_done` for ever.
* `LoRa.c:252`: `txDoneISRf` puts the radio to sleep after its callback has
  released the loop; the window that `LoRa_receive` has opened meanwhile is
  spent asleep.
* `tx_explicit_example.c:898`: the radio keeps receiving while the loop looks at
  the CRC flag and then copies `rxbuf`; a second, damaged frame is stored.
* `tx_explicit_example.c:616`: a file that opens is taken for the database.  If a
  life ends between the creation of the file and that of the table (the run), or
  its CREATE TABLE fails, every later life starts a publisher that has nothing to
  query; reports are acknowledged and lost.
* `common.c:157`: after a failed `mosquitto_publish` nothing disconnects, and
  `mosquitto_loop_stop(mosq, false)` waits for ever: the publisher with the mutex
  the radio loop needs, or the dial-up program with the modem left as it is.
  `StoredIsHanded`, `LoopGetsMutex`, `StoringEnds`, `AckedIsForwarded` and
  `ReportEnds` hold up to this hang and say so.
* `LoRa.c:109`: the OP20 setting programs 7 dBm.

Some limits of the code are not runs of their own, because no line of the
repository says otherwise; the properties they bear on say what they leave out.

* The receive handler and `lora_write_fifo` share the FIFO pointer
  (`LoRa.c:226`): without a prompt interrupt thread a broadcast or an
  acknowledgement may go out with wrong contents, so `PromptOnAir` is stated
  with one.
* A report is acknowledged although its INSERT failed, or the life has no
  database (`tx_explicit_example.c:1037`, `743`): `AckedIsStored` and
  `AckedIsForwarded` speak of lives with a table, and of reports after whose
  formatting nothing has failed.
* `rx_main` clears its flag where the handler may set it again for a frame that
  has just been printed: that frame is printed a second time, and the one before
  it, whose flag woke the loop, may never be (`rx_explicit_example.c:195`).
  `PrintedInOrder` bounds this: no third time, and never after a later frame.
* What `rx_main` prints may begin with one frame and end with another
  (`rx_explicit_example.c:212`): `PrintedIsWhole` is stated for a frame on whose
  heels no other comes.
* An answer of the 4G modem that comes late is taken for the next command's
  (`4gconnect.c:551`): `ConnectedUnlessLate`.
* A QoS 0 message may be lost after it was written (`common.c:153`), or written
  to a connection whose refusal is never read (`common.c:43`): `handed` means
  written, and no property claims more.

## Proofs

Every safety property that a passing run checks, invariant or action property or
refinement, is also a theorem, for every value of the constants that the
modules' assumptions admit: the kinds of frames are distinct, the FIFO has a
cell, the bounds are natural numbers, what `Configs` holds are configurations.
One of these is narrower than the code: `Carriers` are frequencies below
1024 MHz, which is what the three frequency registers hold, while `lora_set_freq`
would cut off a larger one silently (the radio ends at 525 MHz, the programs use
434.8 MHz).

*`GatewayProofs`: the discipline.*  `Spec => []IInv` for every set of frames, FIFO
size, poll count and number of frames per window, and from it `TypeOK`,
`TxDoneIsGenuine`, `RadioIsWired`, `WindowStartsEmpty` and `NeverDeaf`.  None of
the last four is inductive alone.  `TxDoneIsGenuine` needs to know that no
transmission is under way, nor its handler past the flag test, when a call clears
the flag (`TransmitWaits`); `RadioIsWired` needs where in a call mapping and
handler have been set (`CallInPlace`) and that nobody else is in receive mode
(`ListensInPlace`); `WindowStartsEmpty` needs that a completed transmission
implies that nothing received earlier is left, which is true because `txDoneISRf`
runs in the same thread as `rxDoneISRf` and resets all flags (`SentMeansQuiet`).
Their conjunction, `Discipline`, is inductive; the proof has one step per action
and under it one per part the action can disturb.  `FreshReport` follows from
`OfThisWindow`: flag, handler and interrupt flag, while a window is open, imply
that the radio has heard something in this window.

*`GatewayProofs`: the report.*  `GenuineReport` and `HonestVerdict` follow the one
frame of a window (`OneFrame`, the last part of `IInv`): in the radio it lies in
the cell that the handler will address, with its CRC flag (`FrameInRadio`); in
the handler pointer, data and buffer are of that frame (`FrameInHandler`); in the
loop the copy agrees with the buffer as far as it has been made (`FrameInLoop`).
The parts hold together because the loop looks only at a frame whose handler has
finished, and they are claimed while `heard <= 1`: a second frame breaks them,
which is the finding at line 898.

*`GatewayProofs`: promptness.*  `TimedInv` adds to `IInv` what holds if the
interrupt thread is prompt: the handler's sleep comes while the loop still waits
(`SleepsInTime`), and no handler moves the FIFO pointer while `LoRa_send` loads a
frame (`LoadsUndisturbed`).  `PromptListens` and `PromptOnAir` are parts of it.

*`OutboxProofs`.*  `Spec => []QueueInv` for any number of rows and faults: the row
the publisher works on is the oldest unsent one (`RowIsOldest`), IDs are in use
up to the counter (`IdsInUse`), and what has been handed over is not younger than
anything unsent (`UnsentComeLater`).  `NoUnsentLoss` and `HandedInOrder` follow.
`RepeatsNeedFaults`, whose bound counts all failures so far and not only those
between the repeats, needs `RetriesCost`, which says of every hand-over whose row
is still unsent how many failures have been paid since, and that a further one is
due unless the UPDATE is still to come.  The refinement maps INSERT to `Store`,
the write to MQTT to `HandOver`, the UPDATE to `Settle`, everything else to a
stutter; `Spec => Queue!Spec`.

*`UplinkProofs`.*  The refinement of the call, `UplinkSpec => Abstract!Spec`, that
is `ImplementsOutbox`.  The invariant behind it, `CallInv`, says where the loop
thread may be at each place of the caller (`CallInPlace`), that the two threads of
the program are never both inside the mutex (`MutexInPlace`) and what
`mosquitto_loop_stop` can find (`ZeroMeansWritten`): a 0 is returned only by way
of a DISCONNECT, which only the publish callback queues.  Every step of the call
then is a step of `Outbox` seen through `pubSeen`, or changes nothing of it.
Three steps are none of `Outbox` with `pub` itself in place of `pubSeen`
(`PublishError`, `Return`, `Transmit`); with `WrittenIsHanded`, that what was
written is in `handed`, `FullInv` is inductive, and the table's invariant and its
refinement of the queue hold of the call in full, too (`UplinkKeepsTheQueue`,
`UplinkRefinement`).  `RepeatsNeedFaults` carries over by the refinement itself:
an instance of `OutboxProofs` with `pubSeen` for `pub` (`UplinkRepeatsNeedFaults`).

*`SystemProofs`.*  Nothing of the parts is proved again.  Every step of the
composition is a step of the radio loop, leaves it alone, or starts it anew after
a crash (`Init` of `Gateway`); and it is a step of `Outbox` or a stutter of it.
So `IInv` and `QueueInv` come from the two step lemmas of `GatewayProofs` and
`OutboxProofs`, and `SystemSpec => Db!Spec`.  What is new ties the two sides:
while the loop stands at its INSERT the message is that of the report it will
acknowledge, and genuine, and knows no more failures than there have been
(`InsertPending`); and there is a table unless something has failed
(`TableIsThere`).  `AckedIsStored` and `StoredIsGenuine` are inductive with these:
whether the INSERT made a row depends on the table and on a failure of its own,
which are the two exceptions of `AckedIsStored` (`Undisturbed`).

*`ExamplesProofs`.*  `rx_main` starts reception again under a handler that may be
anywhere, so `IInv` of the access point does not carry over.  `ExamplesInv` says
instead that a sender's radio never meets a receiver's steps (`SenderInPlace`),
that a call sets everything before it starts the transmitter (`SendInOrder`), that
a receiver's mapping and handler, once set, stay (`ReceiverInPlace`), and that a
flagged frame has its interrupt pending or its handler at work in whatever mode
the radio is (`FlagIsServed`).  `EndsAsleep` and `SentWhole` follow.

The prints need the way of a frame in full.  `FramesAccounted` counts: a frame
heard is flagged, in the callback, waited for, looked at or printed, one of them
at most.  Every frame held anywhere has a place among the heard (`AirInOrder`); the
handler takes the newest one, which is newer than what it took before, and
nothing shown is newer than what was taken last (`TakenInOrder`), so the order of
the prints follows.  That a frame is not shown a third time is
`ShownTwiceAtMost`: what can still show the frame taken last are the wake under
way, the flag and the callback to come, two of them at most.  For
`PrintedIsWhole` the CRC error of a damaged frame is followed from the radio to
`rxCRC` (`DamageIsFlagged`), and while no other frame is on its way the handler
has nothing to do (`AloneIsQuiet`).

*`DialerProofs`.*  `ConnectedUnlessLate` needs that, as long as nothing was late, the
line holds nothing of an earlier command and an OK in it belongs to the command
being waited for (`AnswersMatch`).  `NextReportAfterThis` is an action property: the loop thread sets
`reported` where it writes the PUBLISH, and the calling thread looks at nothing
but the end of that thread; `StopsOrHangs` ties the two, as a thread that is about
to end, or has ended, after a successful `mosquitto_publish` has written it.

*`ModemConfigProofs`.*  The settings are proved for every configuration of
`ConfigType` and every value the registers may hold before, where the run takes
the programs' own and two reset values.  A setting keeps to its field from its
call on, whatever the later calls write to the same register (`SettingsSoFar`,
`PowerSoFar`), which rests on lemmas that say of each field of a byte that
writing it leaves the others alone.  `AirtimeIsEnough` compares the code's
quotient, rounded up and clamped at zero, with the data sheet's least number of
blocks, for each spreading factor with and without the low data rate setting.

Only model-checked: the liveness properties (`WindowCloses`, `PromptCompletes`,
`PromptAnswers`, `StoredIsHanded`, `LoopGetsMutex`, `AckedIsForwarded`,
`StoringEnds`, `ProgramEnds`, `FrameWakesLoop`, `DialingEnds`, `ReportEnds`):
liveness under fairness and `ENABLED` are out of the prover's reach.

## Not modelled

* RSSI and SNR: read from two more registers, and only the log sees them.
* A failing `LoRa_begin`: the access point ends, which is a crash with nothing
  heard; the examples go on without an SPI channel.  Failures of single SPI
  transfers, whose results the code ignores.
* The milliseconds of `LoRa_calculate_packet_t`: floating point; the number of
  symbols and the low data rate decision they are computed from are modelled.
* The mobile unit and the MQTT server: no code of them is in the repository;
  `Hear` and the written packets stand for them.
* `LoRa_check_conn`, `lora_get_rssi_cur`, `time_test`: never called.
* `threadInsert`, and in `4gconnect.c` `mqtt_test`, `threadFun1`, `threadFun2`
  and `callbackSelect`: never started or behind a `return`.
* Text: the MQTT message's wording, logging, the SQL strings' layout.
* Build rules and the image configuration (`Makefile`, `pi.conf`).

## Plan

All modules of the plan are written, and the safety properties of all passing runs
are proved.  What would add to them: an abstract specification of the driver (a
frame is sent once and reported once, a received frame is delivered once) that
`Gateway` and `Examples` both implement; an action property of the table that says
which step may remove a row; the RSSI registers, should anything but the log come
to depend on them.
