# Formal models of ESP32-MIDI-WIFI

The firmware bridges a USB MIDI device to an RTP-MIDI (AppleMIDI) session over
WiFi on a dual-core ESP32-S3. This directory holds TLA+ models of its core
logic, configurations that model-check them with TLC, and proofs that TLAPS
checks. Paths such as `midi_bridge.cpp:446` are of `src/src/`.

1. [The system](#1-the-system)
2. [Modules and how they correspond to the code](#2-modules-and-how-they-correspond-to-the-code)
3. [Runs, bounds and fairness](#3-runs-bounds-and-fairness)
4. [Where the code does not do what it says](#4-where-the-code-does-not-do-what-it-says)
5. [What is proved](#5-what-is-proved)
6. [What is not modelled](#6-what-is-not-modelled)
7. [Plan](#7-plan)

## 1. The system

### Tasks

| Task | Core, priority | What it runs |
|---|---|---|
| receive task (`udp_rx`) | 0, 20 | `BufferedUDP::rxTask`: lwIP's datagrams into rings |
| USB daemon, USB client | 1, 5 | the host stack; `clientPass`: attach, detach, transfers, recovery |
| MIDI task | 1, 4 | drain the session, forward USB input, the device edge, the snapshot |
| loop task | 1, 1 | WiFi, web server, boot guard, reset button, recorder tick, log, LED |
| WiFi event task | 0 | `onWifiEvent` |

They share state under spinlocks (receive ring, recorder), through FreeRTOS
queues (USB in, USB out, log) and through volatile flags
(`s_connected`, `s_staUp`, `s_pendingGone`).

A pass of the MIDI task is always: drain the session (at most 128 messages or
5 ms, with the library's callbacks, `RtpMidi::tick`), then forward what the
device sent (`MidiBridge::tick`), then look at the device's edge
(`healthTick`), then publish a snapshot. The USB client task may run before any
blocking write in it. That order is where most of the bridge's difficult
behaviour comes from.

### Components

| Component | State | Operations | What is hard | What makes it correct |
|---|---|---|---|---|
| UDP receive queue (`buffered_udp`) | ring, `s_open`, `s_pumping` | begin, stop, pump, parsePacket, read | two cores copy outside the lock; stop against a running pump | a FIFO of whole datagrams; no pump on a closed socket |
| RTP-MIDI session (`rtp_midi`) | peer table, invitation timer, event log | callbacks, tick, send | callbacks repeated or missing; two callbacks in a drain | the table is the set of sessions; the last one's end is noticed |
| Bridge, host to device (`midi_bridge`) | `s_sx*`, `s_returned`, device edge | SysEx pieces, messages, blanking | pieces, real-time bytes inside them, a device that changes in between | one SysEx per message; nothing outlives its session or device |
| Bridge, device to host | `s_sysex*`, `s_tickPeer`, device marker | tick, sysexByte, healthTick | segments against session, device and marker edges | the host's message is the device's; no marker inside one |
| Uplink pacing | `s_upTokens`, `s_upRefillMs` | uplinkReady | wrap of `millis()`, unsigned tokens | a bound on every window, and on every wait |
| USB host, device-bound | TX queue, one OUT transfer, `s_connected` | writePacket, serviceTx, onTxDone | errors, halts, resets and detach with a writer blocked | every packet accounted for, in order, to its own device |
| USB host, receive and recovery | 4 IN transfers, error window, reset backoff | onTransferDone, recoverRx, escalate | errors during a reset, backoff, parking | input resumes; resets are neither lost nor a storm |
| Enumeration watchdog | timers, port power | enumWatchdog | a device mid-enumeration, a hub | a stuck port is power-cycled, a working one is not |
| Flight recorder (`recorder`) | ring, epochs, freeze | put, trigger, tick, arm, read, seqAt | any task puts; the clock's low half wraps; freeze against put | newest records, recoverable times, a freeze that holds |
| Recorder download (`web_ui`) | one download | raw, text, chunks | the ring moves under it | nothing mixed; what is lost is marked |
| WiFi station and setup AP (`wifi_net`) | link flags, retry and kick timers, AP | onWifiEvent, tick | events between two steps of a tick; attempts that never report | backoff, recovery, the AP follows the link |
| Configuration store (`config`) | NVS keys, running values | load, save, wipeAll | puts that fail, resets between two keys | what was reported is what the next boot loads |
| Boot guard (`boot_guard`) | tally of crashed boots, OTA slots | begin, tick, markStable | cuts between steps, tally writes that fail | only crashes roll back; a crash loop ends |
| Web interface (`web_ui`) | upload, import and download state | pages, forms, uploads | one server, requests inside one pass | settings all or none; see the above |
| Log queue, status LED, main loop | small | | | |

`PROJECT.json` lists each with its status, and under `hazards` what in this
code is hard to test, at its line, with the properties that would catch it.

## 2. Modules and how they correspond to the code

`PROJECT.json` maps every definition to its lines. Flags are strings ("yes",
"up") because the proofs go through more easily than with booleans. Variables
marked "history", "for the properties" or "external" are no state of the
program.

**`DatagramFifo`** is what the receive queue promises; **`BufferedUdp`** is the
code: one action per critical section or per copy between two of them. `rxPc`
and `pumpPc` are where the receive task is, `midiPc` the MIDI task. The numbers
of datagrams stand for their contents, and `data`/`from` are written by separate
steps, so that a torn read would show. If the receive task cannot be created,
the MIDI task pumps itself. `MCBufferedUdp` instantiates it;
**`BufferedUdpProofs`** proves about it.

**`UsbTx`** has `writePacket()` (MIDI task), the queue, `serviceTx()`,
`onTxDone()`, `attachDevice()`, `detachDevice()` and the part of `escalate()`
that resets the port. The client task outranks the MIDI task on one core, so
the code between two places where it waits is one action. A packet goes through
the queue, a transfer (`flight`), or what a refused submit held back (`held`).
**`UsbTxProofs`** proves about it.

**`UsbRecovery`** is the other half of the USB host: the IN transfers with their
errors, parking and resubmission, the OUT transfer as far as it can fail or
stick, the error window and `escalate()` with its backoff, `detachDevice()` and
`attachDevice()`, and `enumWatchdog()` on the same port. The stack, the port and
the device (`plug`, `enabled`, `dev`, `inPipe`) are external. Every time stamp is
an age, kept as far as a threshold tells it apart, so that nothing but the
constants bounds the model; a unit of time is longer than a pass, and `looked`
says whether the watchdog, which runs once a second, has looked in it. Transfers
come back with errors also after DEV_GONE was told and in the drain of
`detachDevice()`, where they still count toward a reset.
**`UsbRecoveryProofs`** proves about it.

**`BridgeDown`** takes the AppleMIDI library's callbacks as its input: peers
come and go, also repeatedly for one SSRC; SysEx arrives whole or in F0..F0,
F7..F0, F7..F7, F7..F4 pieces. The callbacks of messages look at no peer table
(`midi_bridge.cpp:319`, 363, 406), and the library hands over what arrives behind
a BY or from an SSRC it does not know: messages come with a session and without
one. A write is a step of its own, since attach and detach fall between writes.
`parser` is what a device has understood, `expected` what the sender's message
says it should have, `ended` whether the last session ended and no SysEx began
since (histories). **`BridgeDownProofs`** proves about it.

**`BridgeUp`** takes USB packets of several cables as input and has the host's
RFC 6295 reassembly as an external party (`host`). `s_tickPeer`, the last peer
and device states and the marker are the code's own variables. An end packet of
one byte (CIN 5) ends a SysEx only if the byte is F7; another one is a tune
request or is dropped, and the SysEx stays open (`midi_bridge.cpp:218-229`).
`stream` is what the bridge has read of each cable. A packet that the full IN
queue refuses (`usb_midi_host.cpp:466-472`) is never read: it leaves a hole in the
message that only a counter shows, and no property here speaks of it. `unseen` is
"yes" for a session that began in the drain that ended the one before (histories).
**`BridgeUpProofs`** proves about it.

**`UplinkPacing`** is the token bucket, with `millis()` modulo `Wrap`, one turn
of the refill loop per step.

**`MidiTask`** EXTENDS it with the pass around it: the wait or the pass without
one, `applyReset()`, the session, `MidiBridge::tick()`, `healthTick()`'s
heartbeat, and the snapshot for the page, which asks for a reset at any moment
the MIDI task waits. The totals are one value, "stale" if they hold anything
from before the last reset asked for. Its specification implements that of
`UplinkPacing`, whose variables it has; **`MidiTaskProofs`** proves that, the
bounds of `UplinkPacing`, and the rest.

**`Recorder`** is the ring. What runs under the lock in one go is one action; a
task's preparation of a record (its clock reading) and its storing are two.
`log` remembers every record with its full time. **`RecorderDownload`** EXTENDS
`Recorder` and composes it with the downloads of the web page and with the
decoder's time reconstruction (`tools/decode_recorder.py`). **`RecorderProofs`**
proves about both.

**`WifiNet`** has the event handler, and `tick()` step by step: events may fall
between its reading of `s_staUp` and what it does about it. The driver is the
environment: it may join, fail, hang without ever reporting, drop, lose its
address. Time stamps are ages, counted as far as the code compares them. What is
proved of it is in `DeviceProofs`, beside the other parts of the loop task.

**`Config`** and **`BootGuard`** are the two users of the flash, **`Device`**
composes them over the loop task: `setup()` counts the boot before the settings
are loaded; a save, a factory reset, a firmware upload run one at a time; power
cuts and crashes fall between any two steps. A put or an erase of one key, the
tally's write, and the selection of a slot are atomic (NVS and `esp_ota` give
that), and each may fail. **`DeviceProofs`** proves about it.

`MC<Module>` modules hold the small instances.

## 3. Runs, bounds and fairness

| Run | Properties | What it shows, and its bounds |
|---|---|---|
| `udp` | SlotNotShared NeverPumpsAClosedSocket ImplementsFifo EventuallyDelivered | 3 slots, 2 in lwIP's mailbox, 5 datagrams: the ring is full, wraps, and is stopped at every step, with the receive task and without. One socket; the proofs cover every set of sockets |
| `usb_tx` | Accounted InOrder OnlyToItsDevice EventuallyResolved | a queue of 2, transfers of 2, 5 packets, 2 attachments: full queue, held and in-flight packets at once at a detach |
| `usb_recovery` | NothingHeldAgainstTheNext ResetsBackOff BlipForgivesNothing InputResumes TroubleEnds NotGivenUp | 2 IN transfers, 2 errors to a reset; the thresholds are small and keep the code's order. No other bound: devices come and go for ever |
| `bridge_down` | PeersAgree Stitched SessionEndsClosed CountedWhole | 2 peers, all piece forms, with a session and without, messages of up to 6 bytes (two USB packets), 2 attachments, writes that are dropped |
| `bridge_down_tail` | TailNotToNextDevice (violated) | see section 4 |
| `bridge_up` | HostInStep HostKnowsDevice WholeMessages | 2 merged cables, 5 packets of 9 kinds, a queue of 2, segments of 7 bytes, batches of 2, 2 sessions and 2 session edges in a drain, 2 attachments |
| `bridge_up_session` | FirstPeerTold (violated) | see section 4 |
| `midi_task` | PacingBound WaitBound ResetShown StopsFreezeOnce | 9 units over a clock of 8: more than a wrap; burst 2, a token every 2, heartbeats every unit and passes of up to 3, longer than HEARTBEAT_STOP_MS |
| `recorder_download` | RingHoldsNewest TimesRise NothingAfterFreeze FreezeRecordTells FrozenUntilArmed RawWhole TimesDecoded TextTrue SearchExact | 3 slots, 6 records, a clock of 2 over 3 units: ring and clock wrap; trigger, freeze now, arm, tick; one download in chunks of 1 or 2 while all of that goes on |
| `recorder_newest` | SearchNewest (violated) | see section 4 |
| `wifi` | RetryBackedOff Recovers PortalFollows | the delays keep the code's order (first < ceiling < portal's); one untold event |
| `device` | KeepsPromise RollbackEarned CrashLoopEnds | 2 settings of 2 values and an obsolete one, 2 crashes to a rollback, a tally that saturates at 3 |

The type invariants of `BufferedUdp`, `UsbTx`, `Recorder`, `UplinkPacing` and
`Device` are theorems (section 5), and so is `CurWhole`. Those of the other
modules document the types (the proofs have invariants of their own for them);
adding one to a configuration's INVARIANTS checks it.

Bounds that cut off behaviour are constants named in the modules:

- `PassMoves = 1`: at most one attach or detach between two looks of the MIDI
  task. With two device edges in a drain `healthTick()` would see none, and
  `CountedWhole` would fail. An attach takes over 100 ms of enumeration, so two of
  them in a 5 ms drain do not happen in practice. Two session edges may: in
  `bridge_up` `PassSessions` is 2, an end and a beginning (section 4), and the
  proofs hold for any number of them.
- `recorder_download`'s bounds leave two cases to the proofs: a gap in the middle
  of a text download takes 7 records, and a miss of `seqAt()` that leaves more than
  the oldest record behind takes 4 slots. Its one download (`MaxDownloads`) cannot
  be mixed with the next; `RawIsWhole` and `TextIsTrue` cover successive ones.
- `HostInStep` needs `SYSEX_SEG` to exceed what one batch can collect (in the
  code 512 > 3 * 128), or a SysEx the host has a segment of could be abandoned
  with nothing to tell it: the configuration keeps that relation (7 > 3 * 2).
- `MaxGap` bounds the time between two passes below the clock's range, which is
  49 days in the code.
- `Recorder` assumes `TIME_EVERY + LateBy < WRAP`: TIME records come once a
  minute, the low half wraps in 71 minutes.
- `BufferedUdp`'s `MaxEmpty` bounds the empty datagrams, of which an endless
  flood would starve the others.
- `FAIL_CAP` stands for 255; the run shows that the tally saturates there.

Deadlock is checked in `udp`, `usb_tx`, `usb_recovery`, `wifi` and `device`. The other models
end when their bounds on packets, records or time are used up.

Fairness, and what in the code justifies it:

- `BufferedUdp!FairSpec`: both tasks are scheduled; the session polls both
  sockets in each `available()` (strong fairness of reading a socket, since the
  other socket's turn comes in between).
- `UsbTx!FairSpec`: the tasks run. Nothing is assumed of a device that stops
  taking packets. `escalate()` retries its reset for ever, so a reset that works
  some time, and a pipe that can be cleared some time, are strong fairness.
  `NewDevEvent` takes enumeration to outlast a blocked write (100 ms against
  20 ms).
- `UsbRecovery!FairSpec`: the client task runs and time passes. The stack returns
  the transfers it has canceled and those of a gone device, and reports the
  device gone. Strong fairness of a clear that lifts a halt, and of a reset that
  takes hold, stands for "not every time, but some time"; without the former a
  broken device stays deaf, without the latter stuck, whatever the code does.
- `WifiNet!WifiFairSpec`: the event task and the loop run and time passes. That an
  attempt made again and again succeeds some time is the premise of `Recovers`
  only.
- `Device!FairSpec`: a device left on goes through its boot, and a bad image
  does crash. The power is not cut, and the tally's write does not fail, at the
  same step of each boot for ever: strong fairness of counting, clearing and
  switching.

What some properties leave open:

- `WholeMessages` compares with what the bridge read of the IN queue, not with
  what the device sent before it (section 2).
- `ResetShown` speaks of the totals between publications. The longest period,
  `s_periodMaxUs`, of the pass that applies a reset still spans time from before it
  (`midi_task.cpp:149`, 161); the model has no value for it.
- `RetryBackedOff` counts the attempts that the backoff books, not the kicks of an
  association that hangs (`WifiNet::tick()`'s own, every 15 s), and the ceiling it
  knows is `RETRY_MAX`.
- `PortalFollows` says where the setup AP ends up, not when it opens: see section 4
  for one that opens early.
- `KeepsPromise` promises nothing while keys are written or erased, nor after a way
  back that failed. "Settings erased" is answered before the erase
  (`web_ui.cpp:1664-1666`), so a cut in it leaves settings behind an answer that
  said otherwise; no property speaks of that.
- `TimesDecoded` speaks of the records from the first anchor on (section 4).

`PROJECT.json` pairs each property of each passing run with a plausible bug (a
dropped guard, a ring index not wrapped, a read-back that is skipped, a crash
test that also counts power cuts) under which TLC finds it violated.

## 4. Where the code does not do what it says

Three runs check what a comment says and find it violated.

- `bridge_down_tail`: the device edge is noticed only in `healthTick()`, after a
  drain of up to 128 messages. A device that attaches during the drain gets the
  rest of the SysEx meant for the one before, against `midi_bridge.cpp:446-448`.
- `recorder_newest`: after a miss `seqAt()` goes on behind the oldest record
  still held without comparing it, and so may answer with its predecessor,
  against `recorder.h:157-158`. The view then starts one record early.
  `SearchExact` shows that it is never more: of the records there were at the
  request at most the oldest still held is missed, and that only after an
  overwrite.
- `bridge_up_session`: `tick()` and `healthTick()` compare `hasPeer()` with its last
  value, so when the last peer leaves and a new one connects in one drain there is
  no edge (`midi_bridge.cpp:164`). The new session's first peer gets no marker,
  against `midi_bridge.h:33-37`, and the rest of a message collected for the old
  session goes out into it, against `midi_bridge.cpp:161-162`. `HostInStep` and
  `HostKnowsDevice` show that nothing worse follows: the host drops a rest without
  a start, and what it is told later is right.

Seen while modelling, with no run of their own:

- An IN transfer that is refused in `attachDevice()` (`usb_midi_host.cpp:877-883`)
  is not parked, so nothing submits it until the next attach; the others go on.
- While a reset is pending a stuck transfer does not count as trouble, so the
  backoff may be forgiven up to `RESET_GONE_TIMEOUT_MS` early.
- A transfer that the stack held past the second `detachDevice()` waits is leaked
  (909-917); when it did come back, `onTxDone()` would take it for the next
  device's. The comment says that it was never seen, and the models leave it out.
- `s_lastInviteMs` of 0 means "never", so an invitation made as `millis()` wraps
  to 0 is repeated at once (`rtp_midi.cpp:214`).
- With `CABLE_ALL` the segments of one cable's SysEx may have another cable's
  short messages between them, and two peers that send SysEx at the same time
  share one `s_sx*`.
- The header of a raw download may name a record that is overwritten before the
  first chunk, which a full ring that is still recording makes the usual case. If
  the low half has wrapped meanwhile, `full_times()` gives the file's first records
  wrong times, until a BOOT, TIME, FREEZE or ARM record sets it right
  (`tools/decode_recorder.py:145-162`): within a minute, as TIME comes so often.
- A link that comes and goes between two passes of `WifiNet::tick()` is not seen,
  so the setup AP may open early.
- A crash between `Update.end()` and `markStable()` boots a new image with the old
  one's tally, which is the device's and not the image's.

## 5. What is proved

TLAPS checks these for every value of the constants that satisfies the modules'
`ASSUME`s. Nothing is omitted or taken on trust.

Every invariant and action property that the passing runs check is also a
theorem.

**`BufferedUdpProofs`** (any sockets, any ring): `TypeCorrect`,
`SlotsDisjoint`, `NoPumpOnClosed`. The invariant says what each program counter
has claimed: a pump under way owns `pumping`, its slot is the tail of a ring
that is not full, the MIDI task's is the head of one that is not empty. The two
properties alone are not inductive: that the slots differ needs count's range
and that only one task moves each end. `ReadsWholeDatagrams` and `RingIsFifo`,
i.e. `Spec => Fifo!Spec`: the invariant says that the ring's slots from head on,
followed by the slot being filled and by lwIP's mailbox, are the datagrams
`next .. acc` in order; each step maps to a step of `DatagramFifo` or stutters.

**`BridgeDownProofs`** (any peers and table, any pieces and data):
`PeersFollow`, `EndsClosed`, `StitchedWhole`, `ReturnedWhole`. The invariant for
the first two says what is under way between callbacks: a piece is streamed only
with its message open, single packets are written only with none open, and a
message that is open began after the last session's end (`Fresh`), because the
peer that leaves last closes it. For the other two, while `s_sxOk` holds and the
device stays, what the device has understood, what is pending and what is left of
the piece add up to the message its sender has sent so far. They assume
`PassMoves \in {0, 1}`, as the run does: `healthTick()` sees an edge by comparing
with the state before the drain, and two edges in one would cancel out
(section 3).

**`BridgeUpProofs`** (any device, cables, segment, batch and session edges):
`HostWaits`, `HostTold`, `HostGetsWhole`. One invariant serves all three: at each
place of the pass, the host waits for the rest of a message iff a segment of the
one being collected has left, or its session began unseen and it has nothing
(`Lost`); what it has followed by what is collected is the stream of the
collecting cable; and the two memories of the peer state (`s_tickPeer` and
`healthTick()`'s) differ only by what this drain did. It needs
`SYSEX_SEG > 3 * USB_BATCH` (512 > 384 in the code).

**`MidiTaskProofs`** (any rate, burst, clock width, period, limit and pass): of
`UplinkPacing` `TypeCorrect`, `Paced`, `WaitBounded`. `refillAt` relates the
stored, wrapped time to real time; the invariant of the bound is that tokens in
the bucket plus datagrams sent are covered by burst and elapsed time since the
mark, and that of the wait is that the remainder the refill keeps is never lost.
Of `MidiTask` `Refines`, that every step of the task is one of `UplinkPacing` or
leaves its variables alone, and so `TaskPaced` and `TaskWaitBounded`;
`StopsFreeze` and `ResetIsShown`. The invariant says what `lastBeat`, `beaten`
and `stopped` have to do with the time of the last heartbeat in full: their
difference modulo the wrap is the real one because `healthTick()` looks at least
every `MaxGap` and stops looking at the age once the stop was seen.

**`UsbTxProofs`** (any queue, transfer and number of packets): `TypeCorrect`,
`EachAccounted`, `OrderKept`, `NoneForTheNext`. One invariant serves all of them:
what is held back, in flight and queued are rising runs of numbers, one below the
other, above the last packet delivered and the last one written for an earlier
device, and together with the counters they add up to the packets that have
passed `writePacket()`. Order alone is not inductive: that a packet being written
is above the queue's needs the bound of all of them, and that nothing of an
earlier device survives an attach needs `Attaching`: no writer is blocked and
nothing is in flight then. `serviceTx()` is proved once (`ServiceMoves`) for its
three callers.

**`UsbRecoveryProofs`** (any number of transfers, thresholds and backoff):
`NothingHeld`, inductive as it stands: errors count up to the end of the drain,
detaching clears what they asked for last, and until the next attach no transfer
is out that could come back with one. `BackedOffResets`:
the streak that the gap is computed from is never less than the resets of the
spell, because it is forgiven only after `RESET_CALM` without trouble, which ends
the spell too (`SpellCounted`); and the gaps grow with the streak (`GapsGrow`).
`BlipsForgiveNothing`: a port that reads as empty with a device in it is one that
is being recovered, and an absence that is seen then has only begun, too young
to be settled (`AbsenceBegins`).

**`RecorderProofs`** (any ring, clock, triggers, tasks): `TypeCorrect`,
`RingHolds`, `TimesRiseWithSeq`, `FreezeHolds`, `RecordTells`, `FrozenStays`.
The log's last time bounds the clock reading of whatever is stored next because
the reading is taken again under the lock; a due freeze is completed by
whichever of put, trigger or tick comes first. Then of the reading side:

- `FullTimes`: the remembered epochs rise in high half, each begins at its first
  record, and those held cover the records since the oldest of them (`EInv`), so
  that `fullTime()` is right for every record whose epoch is remembered. With
  `MaxTime < EPOCHS * WRAP` that is every record there is; past it "the oldest
  records' times are a guess" (`recorder.cpp:27`: 256 epochs, 12.7 days), and the
  theorems that depend on times assume it.
- `RawIsWhole`, without that assumption: a copy starts at the oldest record if
  the ring has moved past the one wanted, and is cut at the download's end.
- `SearchIsExact`: between two turns of `seqAt()`'s search the record `found` is
  gone or at or before its time, every record past `hi` is later, and `found` is
  `lo - 1` or, after a miss, `lo` is at most one past the oldest (`SearchKnows`).
- `TextIsTrue`: before its end the last line of a download is that of the record
  before `next`, which makes the lines of a chunk, and the gap in front of them,
  join those before (`TextSent`); a gap in front of the first line carries what was
  overwritten since the search (`LeadMarked`).
- `TimesAreDecoded`: from the first BOOT, TIME, FREEZE or ARM record of the file on
  (or from its first record, if the header tells its high half), up to a gap of
  `WRAP` or more; of the records outside it says nothing. An EVENT follows the
  record before it by less than `WRAP` (`Anchored`: while nothing is frozen TIME
  records come often enough, and after a freeze ARM is first), so a low half that
  falls is exactly one wrap (`HighCarried`). `full_times()` is a recursive function;
  what it computes is proved from the least record at which it would be wrong
  (`HighsDecoded`), and that the function exists at all from the least length at
  which it would not (`HighsOfAll`).

**`DeviceProofs`** (any keys, values, limit): `DeviceTypeCorrect`,
`PromiseKept`, `RollbacksAreEarned`. `KeepsPromise` becomes inductive with: a
store being written promises nothing, and the keys before `key` hold what they
are to, if no write failed. `RollbackEarned` does with: the crashes since the
tally was cleared cover the tally in the flash, and one more where a crash is
still to be counted. Of `WifiNet`, for any delays, `RetriesBackOff`: the age of
an attempt and the time to the next one booked add up to what the backoff asks
for, since time takes from the one what it adds to the other (`Booked`).

Model-checked only: all liveness (`EventuallyDelivered`, `EventuallyResolved`,
`InputResumes`, `TroubleEnds`, `NotGivenUp`, `Recovers`, `PortalFollows`,
`CrashLoopEnds`), since fairness and ENABLED are beyond the prover. The library's
induction theorems are too, as they take an operator for a parameter; where a
proof is about a recursive function it goes by the least counterexample instead
(`LeastOf`, from the well-foundedness of `<` on the naturals).

## 6. What is not modelled

- Sending: `BufferedUDP`'s write side (a buffer and `sendto`), the encoding of
  channel messages, statistics counters.
- `rtp_midi`: invitations, the session event log; the library's clock sync.
- `usb_midi_host`: parsing of descriptors and the dump of them for the page; the
  leak of a transfer that the stack never returns.
- `midi_task`: the timing diagnostics and the snapshot's generation count (its
  reader runs on the same core at a lower priority); why a pass goes without a
  wait is left open.
- `recorder`: counts of refused and per-second records.
- `wifi_net`: static address, mDNS, RSSI, the text ring of events.
- `boot_guard`: loop statistics; a crash inside `begin()` itself. `config`: what
  each setting means; a default that differs between two firmware versions.
- `web_ui`: HTML, JSON, UTF-8 and base64, authentication, the pacing of a
  download against MIDI.
- `log_queue`, `status_led`: a bounded queue that drops and counts, and a table of
  the link's state; nothing else depends on them.
- `tools/`: build-time patches of libraries, whose effect appears as the
  environment's behaviour.

## 7. Plan

Done: the data path (receive queue, both directions of the bridge, USB
transmission, reception and recovery, the MIDI task with its pacing), the
recorder with its downloads, WiFi, settings and firmware over resets; proofs of
all the safety properties that the passing runs check.

Next, in order:

1. An abstract specification of the device-bound path (each packet delivered in
   order, lost or dropped), with `UsbTx` as its implementation.
2. `RtpMidi`'s invitations over the station's link: a bridge whose network comes
   back has its session again.
3. The reset button's hold time, and the loop statistics of the boot guard.
