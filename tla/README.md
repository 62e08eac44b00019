# A TLA+ verification of the ESP32 LoRaWAN device stack and gateway

This directory holds TLA+ modules for the program in `src/`: models of its own
logic, TLC configurations that check them on small instances, and theorems with
proofs for TLAPS. Paths below are relative to `src/`; the stack is
`libraries/ESP32_LoRaWAN/src/`, and a bare file name is a file of that directory.

## 1. Inventory

| Component | State it keeps | Operations | Status |
|---|---|---|---|
| MLME confirm queue (`LoRaMacConfirmQueue.c`) | ring of five elements, two pointers, a counter, the common status | init, add, remove first / last, set and get a status, common status, `HandleCb` | modelled, proved |
| MAC layer (`LoRaMac.c`), procedures | `LoRaMacState` bits, `LoRaMacFlags`, five timers, `McpsConfirm`, `MlmeConfirm`, counters of retries, repetitions, join trials and frames, the transmit buffer, the datarate | MLME and MCPS requests, radio events, timer events, the state check | modelled, proved in part |
| MAC layer, what frames carry | `DownLinkCounter`, `SrvAckRequested`, the MAC command buffer and the one to repeat | receive, build a frame, store a command, the three places where commands are dropped, joins | modelled, proved |
| Application layer (`ESP32_LoRaWAN.cpp`) | `deviceState`, `NextTx`, the send timer | init, join, send, cycle, sleep, MAC callbacks | modelled |
| Sketches (`OTAA_MAKE_SURE/`, `OTAA_SURE_LED_D/`) | the loop over `deviceState` | `setup()`, `loop()` | modelled |
| Timers, RTC, MCU (`timer.S`, `rtc-board.S`, `Mcu.S`) | the sorted timer list, the alarm, the count of sleeps | set, start, stop, interrupt handler, sleep and deep sleep | modelled from the assembly |
| Radio driver (`sx1276.c`) | mode of the radio, two timeout timers | send, receive, sleep, standby, continuous wave; `RadioIrqProcess` | its mode and events are part of the MAC's model |
| Regions (`region/`) | channels, masks, bands with their time off and stamps | next channel, back-off, add and remove channels, the channel commands of the server, CFList, next lower datarate | EU868 modelled, proved |
| Single-channel gateway (`ESP-sc-gway-heltec/`) | radio state machine, `_event`, the modem's flags and mask, spreading factor | scan, detect, receive, forward, quiet reset, buttons, PULL_DATA, PULL_RESP | modelled without hopping, proved in part |
| Cryptography (`LoRaMacCrypto.c`, `aes.c`, `cmac.c`) | none | pure functions | an input of the models: a frame is valid or not |
| Gateway web pages, WiFi, OTA; raw LoRa, MQTT and LMIC sketches; displays | little | I/O | not modelled |
| Vendored libraries (the rest of `libraries/`), ChirpStack set-up | - | - | third party, not modelled |

How the parts interact. The sketch's loop calls `LoRaWanClass`, which calls
`LoRaMacMlmeRequest` and `LoRaMacMcpsRequest`. These build a frame, hand it to
the radio or arm the duty-cycle timer, and return. Everything later happens in
callbacks: the interrupt routines only set `Irq0Fired` and `Irq1Fired`,
`RadioIrqProcess` turns them into `OnRadioTxDone`, `OnRadioRxDone` and the like,
and the timer list calls the `On...TimerEvent` functions. Both are called from
`LoRaWAN.sleep` alone, so callbacks run one at a time, to the end, and only while
the sketch is in its SLEEP state. They communicate by shared statics.
`OnMacStateCheckTimerEvent`, armed by a transmission and called directly by some
receive paths, looks at those statics once `MacDone` is set, decides whether the
procedure is over, sends again, and reports to the application through
`MacMcpsConfirm`, `MacMlmeConfirm` (from the confirm queue) and
`MacMcpsIndication`. The hard part is the *order* of callbacks, in which any
request, timer or radio event may come between two others.

The gateway is a program of its own: `loop()` polls the modem's interrupt flags
through `stateMachine()`, runs the web server and the UDP exchange, and shares
`_event` with two interrupt handlers; the modem runs beside it.

What makes the parts correct:

* confirm queue: it is a FIFO queue; a status reaches the oldest element of its
  type; nothing is lost or reported twice while `HandleCb` rotates the ring;
* MAC procedures: a request is carried until it is confirmed, and is confirmed in
  the end; an acknowledgement is awaited, and reported, for the right request;
  frame counters follow requests; retries follow the documented table; a join is
  reported iff the device has joined; a session ends only on request; the state
  bits, the timers and the flags agree; a transmission is not cut short; a class
  C device listens when it is idle;
* duty cycle: a band rests after each transmission; the search for a channel ends;
  a frame that is put off goes out in the end;
* frames: no downlink is delivered twice or missed; each confirmed downlink is
  acknowledged once; commands fit their buffers, and sticky answers are repeated;
* device: timers fire at their times; a sleeping device wakes up, is never
  blocked by a request that is over, and goes on for ever;
* gateway: what it forwards was received well; it goes on asking its server.

The hazards at their lines are in `PROJECT.json`.

## 2. Modules

| Module | What it is |
|---|---|
| `ConfirmQueueOps` | the confirm queue as a record and its C functions as operators |
| `ConfirmQueue` | the queue as a component: each function called by the MAC is an action |
| `MlmeQueue` | abstract: a bounded FIFO sequence of marked requests; `ConfirmQueue` implements it |
| `LoRaMac` | the procedures of the MAC in class A or C over the radio's mode and the set of armed timers; composed with the queue (`ConfirmQueueOps`) |
| `DataFrames` | counters, acknowledgements and MAC commands of data frames, over an air that loses, repeats and reorders |
| `DutyCycle` | `ScheduleTx` with the channels and bands of EU868: when a frame goes out, and where |
| `TimerList` | the list of software timers, its C functions as operators |
| `LoRaWanApp` | a whole device: the sketch's loop, the application layer, `Mcu.sleep` and `TimerList`, over an abstract MAC |
| `Gateway` | the single-channel gateway and its modem |
| `MCConfirmQueue`, `MCLoRaMac`, `MCDataFrames`, `MCDutyCycle`, `MCLoRaWanApp` | values for TLC |
| `ConfirmQueueOpsProofs`, `ConfirmQueueProofs`, `LoRaMacProofs`, `LoRaMacClassAProofs`, `DataFramesProofs`, `DutyCycleProofs`, `LoRaWanAppProofs`, `GatewayProofs` | lemmas and theorems |

**Confirm queue.** `queue` is a record: `buf`, `start`, `end`, `cnt`, `cmn` are
the array, `BufferStart`, `BufferEnd`, `MlmeConfirmQueueCnt` and `CommonStatus`;
pointers are indices. `GetElement` is the do-while search, as the set of at most
one slot it returns: a do-while visits the whole ring when both pointers are
equal. A slot keeps its contents when it is freed, as in the code. `HandleCb`
is written as five passes (the length the header fixes), because a recursive
operator is out of the prover's reach. In `ConfirmQueue`, `calls` holds the
callbacks the last operation made. The refinement maps the live slots, oldest
first, to `items`.

**MAC procedures.** `mac` is one record of the statics. `state` is the set of
bits of `LoRaMacState` in use, `flags` that of `LoRaMacFlags`, `timers` the
running timers, `radio` the driver's mode, `slot` is `RxSlot`, `upCnt` is
`UpLinkCounter`, `nodeAck` is `NodeAckRequested`, `retry`, `ackCnt` and
`ackRetries` are `AckTimeoutRetry`, `AckTimeoutRetriesCounter` and
`AckTimeoutRetries`, `nbRep` is `ChannelsNbRepCounter`, `off` is
`MaxDCycle = 255`, `frame` is what identifies the transmit buffer's contents,
`confirm` and `mlme` are `McpsConfirm` and `MlmeConfirm`, and `queue` is the
confirm queue. `cut` is history: a transmission was left by another radio
command. `hist` is history only: the data frames that went on the air with
session, counter and request, the datarates of the current request, and whether
an ACK arrived. No guard reads `hist` except the bounds and the server's
behaviour.

A C function, or a block of a long one, is an operator from the record it finds
to the one it leaves, composed in the order of the code; `OnMacStateCheck` is
`AbortBlock`, `TxTimeoutBlock`, `UnacknowledgedBlock`, `ReceivedBlock`,
`RetryBlock`, `EventBlock`, `IndicationBlock`, and `OnRadioRxDone` calls it where
the code does. Each handler is one action.

The constants are the device class, the region's datarates, the limits of
retries, repetitions and join trials, the services the application uses and the
downlinks the radio may receive. The result of `RegionNextChannel` (now or
later) and of `RegionAlternateDr` is a choice `c`. When one callback schedules
twice, one choice serves both. A class C device starts after `SwitchClass`, with
its window open.

`OnRadioRxDone` leaves the end of a procedure to the acknowledgement timer if
`AckTimeoutTimer.IsRunning` says that it runs (`LoRaMac.c:1101`). `timer.h:31` calls
that flag "Is the timer currently running", and `timer.S` makes two things of it.
Of the timers in the list only the head has it set, so a timer that waits behind
another seems not to run. And `TimerStop` leaves it set in a head that is alone in the
list: it only clears `TimerListHead` (`timer.S:1035`), so a timer that is stopped seems
to run until it is started again. The place of the timer is the choice `c.ackAt`: `ALONE`,
`FIRST` of several or `LATER`; timers of the application or the radio driver, which
are not in `mac.timers`, may always stand beside it, while `ALONE` needs that the
MAC has no other (`AckAlone`). `mac.ackStale` is the flag that was left set, and
`AckTimeoutIsRunning` is what line 1101 reads. A timer that expires is taken off with
its flag cleared.

Abstractions of data:

* the payload is long or short: `LongDr` is the least datarate at which a long
  one fits; with a long payload the length check may fail, as in `ScheduleTx`;
* a downlink is a record that says how `OnRadioRxDone` judges it: a join accept
  with a good or a bad MIC, data, a repetition, a frame that fails the size,
  address, MIC or gap check, a proprietary frame, an unknown type; with its ACK
  bit, whether its indication is suppressed, port 0 with FOpts, and one MAC
  command of those that touch the modelled state (link check answer, duty cycle
  255, an ADR request);
* receive errors and receive timeouts are one event with one status;
* `MLME_TXCW_1` behaves like `MLME_TXCW` but for the frequency;
* the MAC command buffer is a choice whether a command finds room;
* ADR backoff in `RegionAdrNext` (its limit of unanswered uplinks is not
  reached), the loop that sets the default datarate when no channel fits, port
  validation, `MlmeInd` and the sticky command indication, multicast and the
  test switches (`IsRxWindowsEnabled`, `IsUpLinkCounterFixed`, both at their
  defaults) are left out.

Timing is kept only where the code relies on it: the first window's timer fires
before the second's, and both before the acknowledgement timeout, which
`OnRadioTxDone` starts with longer delays; `late` tells whether
`RxWindow2Delay` has elapsed at the end of the first window. A valid data
downlink comes only from a server the device has joined (`ServerMayAnswer`), and
to a class A device only in the windows of a data frame.

**Data frames.** `DataFrames` has the part of the same C functions that `LoRaMac`
leaves as a choice. The variables have the names of the statics; `cmds` is the
two command buffers, counted in bytes and split into sticky and other answers
(`rep` is `MacCommandsBufferToRepeatIndex`, `inNext` is `MacCommandsInNextTx`).
A downlink is its 32-bit counter; the device sees the low 16 bits, extends them
as `OnRadioRxDone` does, and the MIC is right iff the extension is the counter
the server used. Any frame of the session whose keys the device holds may arrive
at any time, so loss, repetition and reordering are all there, and a device may
be switched on again. A procedure is only running or not; where the end of one
drops the waiting commands, an action does. What the model keeps of the code
that a reader may not expect:

* the roll-over branch of the counter (a difference of 2^15 or more) never
  leads to an accepted frame: the gap test that follows aborts each of them;
* `JoinAccept` does not reset the counter, only the join *request* does, while
  the old keys stay: a frame of the old session taken between the two spoils the
  counter of the new one (`stale`);
* `AddMacCommand` makes sure of one byte for `DL_CHANNEL_ANS` and stores two, so
  a byte may be stored past the buffer. What C does then is undefined, so the
  model stops there but for a power-up (`InBounds`); `BuffersFit` says exactly
  how far it can go;
* `ValidatePayloadLength` lets a payload of any length through when commands
  wait with it (`LoRaMac.c:1635`);
* a frame aborted on reception keeps the commands just sent, so sticky bytes are
  doubled in the next uplink, until they outgrow FOpts and take the place of the
  application's payload on port 0;
* answers that a downlink without ACK asks for during a confirmed procedure are
  lost when that procedure ends.

**Duty cycle.** `DutyCycle` models `ScheduleTx` and what it calls, whose result
`LoRaMac` leaves as a choice. `d` has the statics: channels, mask, each band's
`TimeOff`, the datarate, `Channel` and `LastTxChannel`, `TxTimeOnAir`, and the
stamps (`LastTxDoneTime` and `LastJoinTxDoneTime` of a band, and
`AggregatedLastTxDoneTime`) as the time that has passed since, because the code
only ever reads a stamp through `TimerGetElapsedTime`. The MAC around it is a
procedure that sends, waits and sends again or ends. `owed` is history: what a
band still has to rest since its last transmission. The code does not compute
that when a transmission ends but when the next frame is scheduled, from the last
channel and the last time on air; `Forget` marks, with the action that does it,
where it loses a rest:

* a join request out of a session, as `ResetMacParameters` clears
  `LastTxChannel` and out of a session the older join stamp counts as well;
* a TX timeout, after which the time on air is that of a frame that was not sent;
* a `NewChannelReq` that removes the last channel or moves it to another band;
* deep sleep, which restarts the clock: a stamp ahead of it gives an elapsed time
  near 2^64 (`TimerComputeElapsedTime`).

`SEARCHING` is the loop of `ScheduleTx` that would never end; the third look of
the loop would be like the second. A stamp of 0 means that no time has passed,
so a band that never sent, and that is told to rest since the first frame timed
out, rests for ever (`Dead`). Two more things seen in the code are outside the
model: `1 << MaxDCycle` is 0 in 16 bits for the values 16 to 254, which the
protocol does not define; and the join duty cycles of `RegionCommon.c:37` are 1,
2 and 3 (100 to 10000 in `LoRaMac.c:55`), so they never restrict more than the
band does, which `TimeAssumption` states.

**Device.** `LoRaWanApp` has one thread, and `pc` tells how far a call of
`LoRaWAN.sleep` has come. `node` holds `deviceState`, `NextTx`, the timers and
what the others see of the MAC: busy or idle, joined, the flags of the open
requests and whether a join request is in the confirm queue. `MayReport` says
which results a state check may have. A deep sleep comes when the send timer of
a joined class A device is alone in the list, after `CALLS` calls that return at
once; it restarts the program, keeping the RTC variables and losing the confirm
queue and the timers. `TimerList` is translated from the assembly: the list
keeps differences of times, the head alone is marked running, and there is no
interrupt, the alarm is polled. Time passes in ticks, also while the loop works,
so a timer may be started while others are overdue by up to `MaxLate`.

**Gateway.** `gw` holds the statics (`_state`, `_event`, `sf`, `_cad`) and the
modem: its mode, `RegIrqFlags`, the mask, whether a frame is coming in, and the
CRC results of the frames in the FIFO. The modem's events are actions of their
own, so they come between any two steps of the loop, whose progress is `pc`.
Clearing flags just after a CAD was started may clear its result, if the loop is
late; `late` is that race. `stateMachine()` never finds `S_INIT`, `S_TXDONE` or a
state of the default label. A downlink never goes out: with the ArduinoJson of
the repository, `to<JsonObject>()` empties the document before `sendPacket`
reads it, `sendPacket` fails after `readUdp` has set `S_TX`, and that state sends
through a null pointer, which restarts the chip (`Restart`). The buttons change
`_cad` and `sf` without touching the modem. `CRCCHECK` is not defined, so
the only CRC check is that of `receivePkt`.

## 3. Runs

| Run | Result | States | What it shows |
|---|---|---|---|
| `ConfirmQueue` | pass | 105,386 | types, pointers and counter, the search, and the refinement of `MlmeQueue` |
| `ClassASafety` | pass | 345,813 | all safety and action properties of a class A device |
| `ClassCSafety` | pass | 581,794 | those that hold in class C under a server that sends at any time; a device at rest listens |
| `AllServices` | pass | 521,244 | every service, with TX timeouts and delays: bits, timers, flags and queue agree, and every request is confirmed |
| `DataFrames` | pass | 406,939 | counters, acknowledgements, command buffers under any order of downlinks |
| `DutyCycle` | pass | 602,306 | the search ends, bands rest, a frame that is put off goes out |
| `LoRaWanApp` | pass | 172,918 | timers, sleep and wake-up of a whole device, and that it goes on for ever |
| `Gateway` | pass | 31,470 | what is forwarded was received well; the server is asked for ever |
| `ClassAHang` | violation | - | finding 1 |
| `LinkCheckRejoin` | violation | - | finding 2 |
| `CounterReuse` | violation | - | finding 3 |
| `LateJoinAccept` | violation | - | finding 4 |

### Bounds and why they are enough

The ring has three slots: it can be empty, partly filled, full and wrapped, and
hold two entries of a type with one of another between; the proofs cover every
length up to five. MAC runs use two slots, as the modelled services seldom queue
more, and the interplay with a full queue still occurs. `MaxRequests = 2` lets a
request meet what its predecessor left behind; `NbTrials = 7` in `ClassASafety`
walks through every datarate and tries again at the lowest; `NbRep = 2` separates
the first transmission from a repetition; `MaxJoinTrials = 2` does so for joins;
`MaxSessions = 2` lets a device join again. `MaxUpLink` ends reception and
continuous waves at a counter no bounded history of accepted requests needs to
pass. `WithinBounds` restricts the delay timer in `AllServices` only (in the
other runs it is always true there): a stale `MacDone` can make the state check
repeat a frame that waits for the duty cycle, for ever. As fairness asks that the
delay timer fires, liveness says nothing of a behaviour that stops at the bound.

`DutyCycle` has a default channel and one the server may remove, redefine and
move between two bands, with duty cycles of one part in two and one in three
(one in ten to one in a thousand in the code), times on air of one and two
units, so that the later frame may be the shorter or the longer, an aggregated
duty cycle that may exceed that of a band, and a datarate that only a redefined
channel has. Two bands suffice for a delay that counts an unused band and for
one free band beside one at rest. No time off exceeds `Horizon`, so older stamps
are alike. The proofs cover all plans of channels, duty cycles and times.

`DataFrames` has seven counters from 0 to 65536, chosen so that neighbours are
less than, exactly and more than `MAX_FCNT_GAP` apart, on both sides of 2^15 and
of the 16-bit roll-over; the proofs cover every set of counters. A buffer of six
bytes with two for FOpts fills and overflows within a few downlinks; the loads
are nothing, a plain answer, a sticky one, and the pair whose second ends past
the buffer.

`LoRaWanApp` has two duty cycles, shorter and longer than `RejoinDelay`, two
delays, a loop that may come two ticks late, and one short sleep before a deep
one (`CALLS = 1`, five in the code: the number only repeats a state). Time needs
no bound: an idle list does not tick, and all its values are bounded by what
timers are started with.

In `Gateway`, two frames in the FIFO are enough to have a bad one behind a good
one and the other way round; the proofs cover any depth. The spreading factors
are those of the code.

Runs of the MAC set `CHECK_DEADLOCK FALSE` because the bounds end every
behaviour, and because a device that is left alone stops: an idle MAC has no
timer. The other runs check that there is no deadlock.

### What is restricted

Where a property is not checked in a run, it does not hold there. With TX
timeouts of data frames `AckAwaited` and `CountersFollowRequests` fail in class A;
with a downlink whose LinkADRReq lowers the datarate between two retries
`RetryTable` does too (the code takes the new datarate for the rest of the retries);
with all services `JoinReported`, `SessionKept` and `CountersFollowRequests`
do; in class C `NothingCut` fails (the first window's timer is not stopped by
a downlink), `RetryTable` fails when a downlink in the continuous window meets a
retry or a repetition, and with duty-cycle delays `RequestCarried`,
`AckAwaited`, `AckReported`, `ListensAtRest` and `SessionKept` fail, as a downlink in
the continuous window is judged against a frame that still waits, or a stale
acknowledgement timer ends its procedure.
(`CountersFollowRequests` holds in the class C run too; it is checked once, in
class A.) `McpsConfirmed` holds in class A only if no downlink reaches the
application without an ACK: that restriction on the server (`ServiceFrames`) is in
the configuration, and `ClassAHang` shows what happens without it. Frames of unknown
type, which run the state check twice, are in the class C run only: in class A
the second check may act on the frame the first has sent, and a procedure may then
go on for ever.
`RequestCarried` and `AckAwaited` are checked in class C and proved for both classes;
frames that are delayed are covered by `RequestAlwaysCarried`, in class A. `LookupInv`
is about a queue that holds something; the search of an empty one is finding 4. What a
`MaxDCycle` from 16 to 254 does (section 2) has no property.

Some properties name their exceptions, which are behaviours of the code:
`DeliveredOnce` the counter 0, which is never taken for a repetition;
`NoFreshMissed` a session whose counter a frame of the old one has spoilt;
`AckCarried` a frame that was built and then refused; `StickyRepeated` commands
given up because they outgrew the datarate; `BuffersFit` the byte that
`DL_CHANNEL_ANS` stores past the buffer; `KeepsPolling` a CAD result lost in
`S_CAD`, after which `_event` stays 1 until a packet is heard or a button is
pressed; `ListensAtRest` the time from a join accept to the first data frame (nothing but a
transmission opens the continuous window of a new session), and an indication that is
still due because `TimerStop` left `IsRunning` set (section 4);
`BandsRest` the rests that section 2 lists under `Forget`; `DelayEnds` a frame all
of whose bands are `Dead`. `DutyCycle` takes a deep sleep for granted in which the
clock stays behind the stamps it left: when it comes past them later, a frame may be
put off once more.

### Fairness

`LoRaMac`: a transmission ends by `TxDone` or by the radio's timeout timer, a
single receive window ends, and an armed timer fires. The delay timer is one
timer: each firing may ask for another delay, so its fairness says that
`RegionNextChannel` does not put a frame off for ever, which `DelayEnds` of
`DutyCycle` shows, with its exception. Requests and downlinks are not fair. Two of the conjuncts are weak
fairness with the enabling condition written out.

`DutyCycle`: time passes as long as a stamp, a delay or a rest depends on it, and a
delay timer that has run down fires. Both are weak fairness with the enabling
condition written out. Transmissions, requests and the server are not fair.

`LoRaWanApp`: the loop runs and time passes (weak fairness). A procedure that is
checked again and again ends, which `McpsConfirmed` and `MlmeConfirmed` say of the
MAC, and a frame that is put off again and again goes out (strong fairness).

`Gateway`: the loop runs and a CAD ends (weak). A CAD takes milliseconds and a
frame more, while WiFi and the passing of 55 s and 15 s do not depend on the
modem; so a pass of the loop that meets no interrupt and no button, a pass with
WiFi, and the two periods come again and again if they can (strong).

Each property of a passing run has a mutant of the model, defined next to the
operator it replaces, that breaks it.

## 4. Findings

1. `ClassAHang`: after a valid downlink without ACK, a class A device waits for
   the acknowledgement timer, whose handler sets `MacDone` only in class C
   (`LoRaMac.c:1548`). Nothing wakes the state check: the request is never
   confirmed and the MAC stays busy. (This takes an acknowledgement timer that
   heads the timer list when the downlink ends.)
2. `LinkCheckRejoin`: `MlmeConfirm.MlmeRequest` is written only when a request is
   reported. After a join it says `MLME_JOIN` while a link check is open, and
   the state check starts a join procedure that ends the session
   (`LoRaMac.c:1258`, `1432`).
3. `CounterReuse`: a TX timeout ends a request without moving the frame counter
   (`LoRaMac.c:1247`), also after an earlier transmission of the same frame, so
   two different frames share a counter.
4. `LateJoinAccept`: `IsCmdActive` finds a request that has left an empty queue
   (`LoRaMacConfirmQueue.c:235`), so a class C device accepts a join accept after
   the join was reported as failed, and does not report it.

The exception of `ListensAtRest` is a defect too. TLC finds it when the exception is left
out of the property: a class C device sends an unconfirmed frame, a frame of another
device ends the procedure and leaves the acknowledgement timer running, the first window
passes, and a downlink with data comes while that timer is alone in the list.
`CheckToDisableAckTimeout` stops it, `IsRunning` stays set, and line 1101 does not call
the state check, although line 1102 says that the "Procedure is completed when the
AckTimeoutTimer is not running anymore". The radio sleeps, the downlink is not reported,
and nothing is armed: the device is deaf until it sends again. A device with another
timer in the list, such as the send timer of the two sketches, is safe, because stopping
the head of several clears the flag.

Other things the models made visible, which no line of the repository
contradicts, are told with the modules in section 2 and in the hazards.

## 5. Proofs

The theorems hold for every value of the constants that the `ASSUME`s of the
modules allow: a queue of one to five slots, any region, class A or C, any
number of requests, any set of downlinks and counters, any size of the command
buffer and of FOpts, any plan of channels and bands and all times on air, any range
of spreading factors, any depth of the FIFO, either sketch with any duty
cycle, delays and lateness of its loop.

`ConfirmQueue`: the inductive invariant is `TypeOK /\ RingInv`. `RingInv` is
needed because the counter and the end pointer are updated apart, and an element
added to a ring whose pointers had drifted would overwrite a live one.
`LookupInv` follows from it: `VisitedAreLive` shows that the do-while visits
exactly the live slots of a non-empty contiguous ring, and `OldestFound` that the
slot found is that of the oldest entry. `Implementation` proves the refinement of
`MlmeQueue`: `InitRefines`, and `NextRefines` with one step per function, from what
each function does to the live elements (`LiveAdd`, `LiveRemoveFirst`,
`LiveSetStatus` and so on, which rest on `RingInv`: the slot added to is none of the
live ones). `HandleCb` re-adds to the ring it is reading, so its loop has an invariant
of its own, `Handled`: after `n` passes the ring holds the elements not yet handled,
then those kept of the first `n`, and the callbacks are the confirms of the others.
`MlmeQueue` says which are kept with recursive functions (`Kept`, `Reported`); as
the queue has at most five elements, their values are written out to show that the
recursion has a solution.

`LoRaMac`: the inductive invariant is `Settled(mac) /\ hist \in HistTypes`.
`Settled` has three parts. `Sound`: the types, the contiguous ring, `MlmeReq`
iff the queue is not empty, `TX_DELAYED` iff the delay timer runs. `Calm`: no
`RX_ABORT`. `Watched`: a running transmission has the state check timer. They
are kept apart because they break and mend within a callback: the state check
begins by stopping its timer (only `Sound` survives) and ends `Watched`;
`PrepareRxDoneAbort` breaks `Calm` and relies on the state check it calls. The
proof follows the composition of the operators: each block has a lemma on what
it preserves (`...Sound`, `...Mild`, `...Alike`: which parts of the record it
leaves as they were), each action one lemma `...Settled`, and `Invariance`
combines them. It covers the nested cases: a state check inside `OnRadioRxDone`,
twice for an unknown frame, with a send inside.

For a device whose frames are sent at once (`SentAtOnce`: no duty-cycle delay, and
each transmission ends by `TxDone`; the class C run is one), `LoRaMacProofs` proves
four more properties, in either class, with every service and every downlink:
`RequestCarried`, `AckAwaited`, `AckReported` and, in class C, `ListensAtRest`. The
inductive invariant adds `Prompt`. Its `Held` says that between two callbacks an open
data request keeps `LORAMAC_TX_RUNNING` set, and that a confirmed one is the frame in
the buffer, unacknowledged, with no timeout noted in the confirms, which would have
the next state check end it unheard. Its last part, `Listening`, is weaker than the
property: a downlink that comes while its request goes on leaves the radio idle with
`McpsInd` set, and the indication that is due opens the window. With an idle MAC this
happens only when `IsRunning` was left set, the exception of `ListensAtRest`. The proof
therefore keeps track of that flag: while a data request is open or an
acknowledgement awaited, the state check is armed beside the acknowledgement timer, so
stopping that timer clears the flag (`StopAckStill`). It can be left set only in class C,
with no window to come and no request open (`Still`; between two callbacks `Fresh`,
which allows the frame of a new request on the air, whose `TxDone` starts the timer
again). So no request is held up by it, only an indication. Within a callback an
ACK may have been seen (`Hearing`), and the state check must then end the request
(`Checkable`, `Owed`, `Ruled`); `Drift` says that no block of it raises a flag or
takes up an acknowledgement. `ListensThroughout` shows that each of the ends of a
procedure named in the hazards opens the window again, or leaves the indication that
the flag holds up. With delays all four fail in class C (section 3), and the
hypothesis cannot be dropped.

`LoRaMacClassAProofs` proves eight more properties of the MAC, four of them under
`ClassAOnly`: class A, transmissions that end by `TxDone`, no continuous wave, no frame of an
unknown type. (Without these they fail, or are open: see section 3.) Its
inductive invariant adds `Between(mac)`, four facts about the time between two
callbacks. `Aired`: while the radio sends no window is to come, and an open window
is the last one armed or the first of two. `InTurn`: the state check has something
to do, a frame waits or nothing is sent only when the windows are over.
`NoTimeout`. `Owned`: an awaited acknowledgement is that of the open confirmed
request. They support one another (a retransmission is safe because the windows
are over, the windows are over because only their end sets `MacDone`), so none is
inductive alone. `InvarianceB` adds that an open confirmed request has not been
acknowledged, which makes the report right. `IsRunning` is never left set in class A
(`~mac.ackStale`, part of `InvA`): a window hears a frame only while the procedure runs,
so the state check timer is in the list beside the acknowledgement timer, and no
callback but `OnRadioRxDone` stops the latter (`StepUnmarked`).

The fifth, `CountersFollowRequests`, also needs that the device asks for no link
check (`CountersApply`; with one it fails, see section 3). `InvarianceC` adds
`Counting` and `Chronicle`. `Counting` describes the open request: there is one at
most, of the application or a join; a join keeps the MAC busy with a join frame; the
frame of a data request was built with a counter that is not above `UpLinkCounter`;
and the one element of the confirm queue has its status, or will get it with the
frame that waits (`Served`), which is why a state check that ends the procedure ends
the join too. `Chronicle` places the frames sent in the session: below
`UpLinkCounter` when no request is open, else below the counter of its frame, or at
it when they are of this request. `UpLinkCounter` moves in five places of the state
check and a request ends in a sixth, and retries, repetitions and join trials send
in between, so the proof follows one state check from the record it finds: each
block keeps `Carried` and `Closed` (a request that is no longer carried has moved the
counter on), and `Concluded`, what the last block leaves, gives the two back.

The sixth, `RetryTable`, needs besides that the server does not set the datarate
(`RetryApplies`; `LinkADRReq` moves it between two retries, which the table of
`LoRaMac.h` does not foresee). `InvarianceD` adds `Tries`, which ties the
transmissions in the history to the counters in the record. For an open confirmed
request there have been `AckTimeoutRetriesCounter` of them, one less while the next
is scheduled or on the air (`AwaitsAir`), at the datarate that the table gives that
number; for an unconfirmed one, not more than `NbRep`, and fewer while one is to
come. The counters move in three blocks of the state check and at `TxDone`, so the
invariant is stated for a record within a callback too, where a request may be open
only because its retry is asked for (`Open`), and every block keeps it.

The last two, `SessionKept` and `JoinReported`, hold under `CountersApply` as well.
What could end a session is a join trial: the state check prepares one with
`ResetMacParameters` while `MlmeReq` is set and `MlmeConfirm` names the join, which
it does long after the join is over. `InvarianceJ` therefore adds `Welcomed`: no join
request waits in a session (`Unjoined`), and the one that waits has the status `OK`
exactly when the device has joined (`Matched`). Within `OnRadioRxDone` neither need
hold with the request still open (`Underway`): a join accept opens the session and
writes the status, and the state check that the handler calls must close the request
in the same callback. A running acknowledgement timer would prevent it, so that
`Clocked` is needed: the timer runs only for an acknowledgement that is awaited. A
link check keeps `MlmeReq` set in a session and breaks it (`LinkCheckRejoin`).
`Advanced` is what every callback but the join request then does to the session and
to a request it closes, and both properties follow from it.

`DataFrames`: the inductive invariant is `Types /\ WellKept(cmds) /\ Counted /\
AckKnown /\ Repeatable`. `Counted` says that `DownLinkCounter` is the highest
counter taken in the session, unless a stale frame came; arithmetic lemmas on
`% 65536` show that a valid frame lies above it, within the gap, and extends to
its own counter whatever the roll-over. `WellKept` is stronger than `BuffersFit`:
`DL_CHANNEL_ANS` can exceed the buffer only when nothing is to be repeated, which
every downlink ensures. `AckKnown` ties the flag to what is owed, `Repeatable` the
unheard sticky bytes to those to repeat.

`DutyCycle`: the inductive invariant is `Settled(d, owed)` with the type of `owed`.
`Rested` is its heart: what a band owes is at most `Known(d, b)` less the time
since its last transmission, where `Known` is the band's `TimeOff`, or, for the
band of the last channel, what `CalculateBackOff` will compute at the next
scheduling; a frame on the air has already overwritten the time on air, but then
`TimeOff` is known. `Homed` says that out of a session only default channels are
in use, all of one band, so a reset of `LastTxChannel` between two join requests
loses nothing. `Defaults` says that each default channel stays, with DR_0 and its
band, whatever the server sends; so the second look of the search, at DR_0 with
the default channels enabled, finds a channel or a delay. The lemmas follow
`ScheduleTx` (`BackOffTells`, `UpdateTells`, `LookTells`, `SearchTells`,
`ScheduleSettles`), then each action has one.

`LoRaWanApp`: the inductive invariant is `Running`. Its `Sound(node)` holds at every
step: the types; `Good(timers)`; a request that is open keeps the MAC busy, a busy
MAC has a timer, and a sketch that sleeps has its send timer or an open join. Its
second part, `Ticking`, says that the head of the list runs, and breaks inside
`TimerIrqHandler`, which takes expired timers off before it starts the next one.
The third says that a device is in `INIT` only as `setup()` leaves it, with `NextTx`
set: `LoRaMacInitialization` then clears the MAC's flags, and a sketch that waited
for `NextTx` would wait for a confirm that never comes. `Good` is `OnTime` without the
alarm (each timer is in the list once, and the sum of the timestamps up to it is
the time it has left, late by no more than the loop is), with what the alarm needs:
a running head expires when the alarm rings. Each C function on the list has
lemmas on what it keeps. A timer stores the time after the one before, so an
insertion or a removal moves one difference between two neighbours and leaves
every sum as it was. There are four timers, so a list has at most four
(`Once` makes the identifiers an injection), the sum is written out, and the proofs
go by the place in the list, an induction unrolled to four steps (`InductionToFour`).

`Gateway`: the inductive invariant is `Sound(gw)` with the types of `heard` and
`pc`. Besides types it has `Unmasked` (the mask never hides the result of what
runs) and `Told`: in `S_RX` the flags tell of every frame in the FIFO. `Told` is
what `receivePkt` relies on, and it breaks and mends within the functions that
restart the receiver, so each of these has a lemma.

| Theorem | Property |
|---|---|
| `ConfirmQueueProofs!TypeCorrect`, `RingKept`, `LookupCorrect` | `TypeOK`, `RingInv`, `LookupInv` |
| `ConfirmQueueProofs!Implementation` | `ImplementsMlmeQueue` |
| `LoRaMacProofs!TypeCorrect`, `StateCheckKept`, `DelayKept` | `TypeOK`, `StateChecked`, `DelayTimed` |
| `LoRaMacProofs!AbortNeverLeft`, `PendingKept` | `AbortCleared`, `ConfirmsPending` |
| `LoRaMacProofs!ListensThroughout`, `RequestCarriedAtOnce` | `ListensAtRest`, `RequestCarried` |
| `LoRaMacProofs!AckAwaitedAtOnce`, `AckToldAtOnce` | `AckAwaited`, `AckReported` |
| `DataFramesProofs!TypeCorrect`, `OnlyFirstAgain`, `FreshTaken` | `TypeOK`, `DeliveredOnce`, `NoFreshMissed` |
| `DataFramesProofs!BuffersKept`, `AcksAreTrue`, `StickyKept` | `BuffersFit`, `AckCarried`, `StickyRepeated` |
| `GatewayProofs!TypeCorrect`, `OnlyGoodForwarded` | `TypeOK`, `ForwardsGood` |
| `LoRaMacClassAProofs!NeverCut`, `RequestAlwaysCarried` | `NothingCut`, `RequestCarried` |
| `LoRaMacClassAProofs!AckAwaitedRightly`, `AckToldRightly` | `AckAwaited`, `AckReported` |
| `LoRaMacClassAProofs!CountersGrow`, `RetriesAsTabled` | `CountersFollowRequests`, `RetryTable` |
| `LoRaMacClassAProofs!SessionEndsOnRequest`, `JoinToldRightly` | `SessionKept`, `JoinReported` |
| `DutyCycleProofs!TypeCorrect`, `SearchesEnd`, `RestsKept` | `TypeOK`, `SearchEnds`, `BandsRest` |
| `LoRaWanAppProofs!TypesKept`, `TimersOnTime` | `TypeOK`, `OnTime` |
| `LoRaWanAppProofs!SleeperWakes`, `NeverBlocked`, `DeepSleepAtRest` | `Wakes`, `Unblocked`, `SleepsAtRest` |

Only model-checked: liveness, which is out of the prover's reach. There is no theorem
about `JoinedOnRequest` of `LoRaMac`, which the code violates (section 4). Every other
invariant and action property of a passing run is stated by a theorem above, those of
`LoRaMac` under the hypotheses named there; section 3 tells which properties fail
without them.

## 6. Not modelled

Most lines of the repository are third-party code it ships (display fonts and
drivers, Firebase, WiFiManager, LMIC, ArduinoJson and some ninety more); they
have their own projects and are not modelled. Of the program's own code:

* MAC layer: the MIB and channel API, the parameters that MAC commands change
  (windows, powers, channels), `MlmeInd`, multicast, ADR backoff, switching
  classes, the beacon and ping-slot services, which are stubs;
* regions: receive windows, powers and `RegionEU868AdrNext`'s back-off; the other
  ten regions, of which those with 16 channels repeat the code of EU868 with other
  numbers, while US915 (and its hybrid), AU915, LA915 and CN470 have fixed plans;
* radio driver: register accesses, FSK, CAD, calibration: input and output;
* timers: the licence check of the assembly, the calibration of the RTC, and
  functions that nothing calls;
* gateway: frequency hopping (off in `loraModem.h` and called experimental), the
  contents of packets, statistics, files, and what is compiled out (the repeater
  and the sensor node); the web pages but for the buttons that change the radio;
  WiFi and OTA set-up;
* the raw LoRa and MQTT sketches, which copy a packet from one side to the other
  without acknowledgement or retry; the LMIC and radio test sketches; displays;
* AES and CMAC: pure functions on bytes.

## 7. Plan

Done: the confirm queue, the MAC's procedures, data frames, the duty cycle and
channels of EU868, the device, the gateway, and the proofs above. Next:

1. A region with a fixed channel plan (US915: sub-bands, `LinkAdrReq` by blocks),
   for the same properties as `DutyCycle`.
2. `MacService`, the abstract MAC inside `LoRaWanApp`, as a module of its own,
   refined by `LoRaMac` in class A.
3. The counters and the session of a class C device whose frames are sent at once,
   proved so far in class A only.
