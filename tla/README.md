# Verification of J2534-PassThru-Logger

The repository builds four Windows DLLs that export the J2534 0404 API, and a
C# viewer. `PassThruLogger` sits between an application and a vendor's driver
and reports every call. `KvaserDirect`, `ElmJ2534` and `ReplayJ2534` are drivers
themselves: over a Kvaser CAN interface, over an ELM327 Bluetooth adapter, and
over a recorded log. `PassThruLoggerControl` shows what the logger reports.

This directory holds TLA+ models of the parts where order matters (threads,
locks released in the middle of an operation, deadlines, an adapter that
forgets), TLC configurations that check them on small instances, and TLAPS
proofs of the properties that matter most. `PROJECT.json` maps every definition
to the lines it models and lists components, runs, mutations, findings,
hazards and theorems.

    cd tla
    tlc -workers 2 -config MCIsoTpTx.cfg MCIsoTpEngine
    tlapm IsoTpProofs.tla

## 1. Inventory

Each entry gives state, operations, interactions, what is hard, and what makes
the component correct.

### KvaserDirect

**ISO-TP engine** (`IsoTpEngine.cpp`, `.h`).
State: sixteen sessions (filter id, CAN id pair, a transmit and a receive half),
BS_TX, a ring of 64 received messages; all under one critical section `lock_`.
Operations: `addSession`, `removeSession`, `setConfig`, `shutdown`, `transmit`
(application threads; it polls every millisecond for flow control and *releases
the lock around every `canWrite()`*), `processFrame` (the channel's receive
thread), `receive` (application threads). Hard: flow control that arrives
between a written frame and the relocking that accounts for it; a session slot
reused while a `transmit()` still points to it; two copies of one deadline;
block counting on both sides. Correct if: two writers never share a
transmission; success means that every byte went out; no more frames than
granted; every received message is one that was sent, whole and in order; every
call returns; the two sides never wait for each other.

**Handles and threads** (`HandleManager.cpp`).
State: device and channel slots, a receive thread per channel, filters,
periodic messages, last error. Operations: open/close device and channel, add
and remove filter, start and stop periodic messages. Interacts with the API
(which reads the slots without a lock) and owns the engines. Hard: `closeChannel`
waits two seconds for the receive thread and then deletes engine and lock;
`closeDevice` leaves the channels' threads and engines; a filter and its
session are removed by different rules. Correct if: no thread touches a
deleted engine, filters and sessions correspond, no handle is used after close.

**J2534 API** (`J2534Api.cpp`). Translates calls to the handle manager, CANlib
and the engine; state of its own: none. Hard: slots can change between lookup
and use; `SET_CONFIG` stops in the middle of its list.

**DLL entry, CANlib loader, log**: function tables, registry, text.

### ElmJ2534

**Threaded port open** (`ElmLink.cpp`).
State: `handle_`, and per `open()` a reference-counted `OpenCtx` shared with a
worker thread. `CreateFileA` on a dead RFCOMM port may block for ever, so
`open()` waits up to a deadline and leaves the worker behind. Hard: the worker
finishes exactly when the deadline strikes. Correct if: no handle leaks or is
closed twice, each context is freed once and last, `open()` always returns.

**Session** (`ElmSession.cpp`, plans and tokens in `ElmProto.cpp`).
State: a memory of the adapter (`addressed_`, request and response id,
`craSet_`). Operations: initialise, set target, request, voltage, recover,
shut down; each is a chain of exchanges "write a command, read up to the
prompt". Hard: the adapter forgets its header and filters at a reset the
session may not see, a command may be rejected, an answer may come late.
Correct if: frames carry the id they were asked for, no stale filter hides
replies, replies belong to their request, every call ends.

**Protocol text** (`ElmProto.cpp`): splitting lines, classifying tokens,
assembling ISO-TP frames from text. **Device** (`ElmDevice*.cpp`): channels,
filters, receive queues with one condition variable for all channels, writes
with one recovery and one retry, shutdown while another thread holds the lock.
**API, port scan, log**: forwarding, enumeration, text.
Hard about the device: a write keeps the lock through an exchange while a reader
waits for it; a reader wakes for another channel's message, or after its channel
is gone; the unload does not wait. Correct if: nobody sleeps on a queue that
nothing will fill, a write keeps what it works with, readers are woken for
their messages.

### ReplayJ2534

**Simulator** (device state, channels, filters, queues, replies chosen by a
scenario file), **scheduler** (a thread that delivers messages when due, with a
lock of its own), **replay engine** (sequential matching of a recorded log; it and the
log's parser are kept as sources and linked into no DLL), **configuration and
log parsing**, **API and tools**. Hard: a message leaves the scheduler's lock
before it takes the simulator's; shutdown joins the scheduler's thread while it
holds the lock that thread needs; readers keep a pointer into a map over a
wait; one wake-up for many readers. Correct if: nothing is delivered to a
channel that was closed, replies keep their order, readers are served or time
out, shutdown ends.

### PassThruLogger

**Call wrappers** (write each call, field by field, to a socket), **network
writer** (a 512-byte buffer over a socket that may break), **retry thread**
(`dllmain.cpp`), **auto-connect** (channels opened on behalf of a client that
does not open them itself), **event ring** (recent events with repetition
counts, read by index), **file log and registry**. Hard: two wrappers, or a
wrapper and the retry thread's handshake, on one stream; a connection lost in
the middle of a message; injected channels closed by one thread and used by
another; ring indices that a reader holds while the ring turns. Correct if: the
stream is a sequence of whole messages, injected channels are closed exactly
once, a reader of the ring gets every event or learns that it lost some.

### PassThruLoggerControl, tools, vendor code

**Connections** (`ConnectionInfo.cs`: one thread per logger reads the stream,
gives up at the first value it does not know, merges calls whose text is equal
and saves them as JSON, which is what `ReplayJ2534`'s parser reads). **Window**, **sample client**,
**scripts**: interface and examples. **CANlib headers**: third party;
`canWrite()` is modelled from its use.

## 2. What is modelled

### IsoTpEngine

One action is one critical section of `lock_`, or one access the code makes
outside it. `sess`, `tx` and `rx` are three faces of `sessions_[]`; `rxq` is
the receive ring, oldest first; `txq` the frames the driver has accepted. A
`transmit()` call is a thread with a program counter:

| pc | where the thread is in `IsoTpEngine.cpp` |
|----|------------------------------------------|
| `found` | after `findSessionByTxId` (103), before the lock (107): `TransmitBusy`, `TransmitSingle`, `TransmitFirst` |
| `single` | the single frame is built, the lock released (`WriteSingle`) |
| `poll`, `look` | the loop at 157: deadline test, then the state read under the lock (`PollTurn`, then `PollWaiting`, `PollIdle` or `PollSending`) |
| `burst`, `cf`, `sent` | relocked; a frame is built and the lock released; `canWrite()` has returned: `StartBurst`, `WriteConsecutive`, `ContinueBurst` |
| `renew` | a block is complete; the deadline is read again, outside the lock (`RenewDeadline`, 215) |
| `expired`, `abort` | deadline passed or frame refused; the slot is set idle (`GiveUp`) |

`BurstHead` is the body of the inner loop under the lock. `ReceiveFlowControl`,
`ReceiveSingle`, `ReceiveFirst` and `ReceiveConsecutive` are `processFrame()`;
`StartReceive`, `ReceiveOne`, `FinishReceive` are `receive()`. Deadlines are
ticks left, counted down by `Tick`. Payload is abstract: a frame carries the
name of its writer, its offset and its length, enough to tell a lost, repeated
or foreign chunk. `forced[s]` is history: it says whether the slot was reset
under a writer by an overflow frame or by `addSession` on a freed slot, the two
cases in which the ownership of a transmission is given up by the code itself.

`EngineSpec` lets an unrestricted ECU send any frame at any time; it is the
specification that the proofs are about.

### IsoTpLink

`IsoTpEngine` with an ECU that follows ISO 15765-2 behind each address pair
(external code, modelled from the frames the engine exchanges with it): `ear`
reassembles what `transmit()` sends and owes flow control, `mouth` sends
messages in blocks. The bus keeps order; `MaxLost` consecutive frames of the
ECU may vanish; a frame that finds no session is dropped.

### ElmOpen

`caller` and `worker[a]` are the two threads of attempt `a`; `ctx[a]` their
`OpenCtx`; `live` the handles the operating system holds open. `Decide` and
`Publish` are the two critical sections of the context, `Opened` the return of
`CreateFileA` (success, failure, or never), `CallerRelease` and `WorkerRelease`
the two calls of `ctxRelease()`. `configure()` is one step that succeeds or
closes the port. The calls that reach `open()` and `close()` hold the device lock,
so there is one caller and any number of left-behind workers. The unload is the
exception: `ElmDevice::shutdown()` without the lock, and the destructors after it,
call `close()` at any moment, so that `close()` is three steps on both sides, test
(`Close`, `UnloadTest`), `CloseHandle` (`CloseOld`, `UnloadClose`) and reset
(`ClearOld`, `UnloadClear`); between them the handle may be the one tested or one
read again. `raced` remembers the handles that both had in hand at once, `twice` those closed
when they were closed already. A context that is
freed stays in the model with count 0: the proofs show that nobody touches it.

### ElmSession

`s` is the session's memory, `d` the call in progress, `chip` what the adapter
really holds, `pipe` and `air` the two directions of the link. A call is a chain of
*phases* (`reset`, `setup`, `address`, `close`, `protocol`, `warm`, `request`,
`volt`, `sleep`), each a list of commands from `Plans`; every command is an
exchange of `Send`, then `Receive` or `Silence`. `Noted`, `Learnt` and `Doubted`
are what the code assigns to its memory when a phase starts, succeeds or fails.
`PhaseDone`, `PhaseFails` and `Answered` are the control of `open`, `runExchange`
and the recoveries. The adapter is external, modelled from the comments and
code that rely on it: it obeys in order (`ChipObeys`), rejects what is in
`Rejects`, resets itself silently or with `LVRESET` (`ChipResets`), or loses the
link (`LinkDrops`). `Faults` says what may go wrong over which command,
`MaxFaults` how often. An adapter reset in `OpenDevice` stands for a power cycle
while the port was closed.

`frame` and `reply` record the last frame on the bus with the ids it was asked
for, and the last data queued with the write it answers. `lost` says that since
the open a call gave up on the adapter with an error.

### ElmDevice

The device above the session, for threads that make any call at any time. Every
call holds `lock_` from end to end, and is one action, but two. A write keeps the
lock through one exchange per message: `WriteMsgs` begins it, `WriteOne` is one
message with everything it queues and wakes, and while a thread is `writing`
no other call starts (`Unlocked`). A read that finds nothing releases the lock
(`ReadMsgs` leaves the thread `asleep`) and goes on with `Resume` when it is woken,
when its time is over, or for nothing. `enqueueRx()` wakes one sleeping thread per
message, whichever channel it waits for (`Woken`). `Shutdown` is the unload, the
one operation that does not wait for the lock. What happens inside an exchange
is `ElmSession`'s; here it has one of the results in `Outcomes`. `crossed`
is history: the channels one of whose wake-ups went to another channel's reader.

### KvaserHandles

`ch` is the memory of the channel slots: it keeps what the code does not reset,
because a receive thread reads `ch[s].handle` and its event without a lock. The
n-th channel opened gives its number to its CANlib handle, engine, stop event
and thread, so that a thread that outlives its channel can be seen. `call` is
the call that holds `lock_` over several steps: `OpenChannel` then
`StartReceiver`, `CloseChannel` then `JoinEnds`; in between the receive threads
run (`CheckStop`, `ReadWait`, `Feed`). Filters and periodic messages are removed
the way the code does it (`RemoveFilter`, `StopPeriodic`: the first active one goes,
whatever the id says). `wanted` and `agreed` are history: the filters the client
started and has not stopped, and whether its last `SET_CONFIG` was accepted.
`Careful` and `Orphaning` say what kind of client it is; see section 3.

### EventLog and EventRing

`EventLog` is what `EventRingBuffer.h` promises, with an unbounded log and no ring:
a call that repeats the last one raises its count, a reader gets the entries
from its index on, or from the oldest one kept. `EventRing` is the code, with
the wrapping index, the copy of the newest entry, the entry before the head
and the clamped reads. `Log == INSTANCE EventLog WITH Keep <- Capacity, log <- hist`
maps the one to the other; `hist`, the entries ever written, is history.

### WireTap (extends EventRing)

A J2534 call on its way to the window. `Params` has the fields of the 14
wrappers for every combination of null pointers and array lengths; `Begin` is the
driver's answer (the event is recorded), `Skip`, `WriteField` and `WriteEnd` the
writes, each of which asks first whether there is a connection, as in the code.
A field is two cells of the buffer: `writeByte` flushes wherever the buffer
is full (`Fill`, `Send`). `Retry` is the retry thread's connect with its
handshake, `Lose` a loss of any suffix of what is under way. The window's thread is
`Setup`, `Report`, `StartMessage`, `Parameter`, `FinishMessage` and `Refuse`, one
per state of its decoding; `owed` counts the values still to come of a pointer
or an array. `expected` is history: the calls returned since the handshake.

### ReplayLog

A session recorded by the window and replayed by the engine, which is why it
joins code of three programs: `Text` and `Structured` are how `ConnectionInfo.cs`
writes calls and merges repeats, `ParseJsonFile` is `LogParser`, and one action per
API call is `ReplayEngine` with its cursor and its run of repeats. A text is its
function name, the pieces between its commas and its return code, enough to
tell which comma the parser stops at; characters are not modelled. `OpenArgs` to
`VersionArgs` are the fields that the wrappers of `PassThruLogger.cpp` write, among
them what they write for an ioctl's output (`OutputText`): the address of a voltage where
its value should be (`Pointed`), an array of bytes, a message. `Recorded` lets every ioctl
have an output, and a timestamp any 32 bits, as the signed number the window takes them
for (`MsgText`; `ParseTime` is what the parser makes of the text). The log
and the events are recursive functions over the recording. All of it is one thread.

Neither `ReplayEngine` nor `LogParser` is linked into a DLL today: the exports of
`ReplayJ2534` call the simulator, and `replay-redesign.md:26-29,374-375` takes both out of
the build. Their sources are still in the repository; the module says what they do.

### ReplaySimulator

`ParseScenario` is what `ConfigStore` makes of a scenario object (defaults,
rejections, entries it leaves out); `device`, `channels` and `filters` are the
simulator; `pending`, `gens` and `due` the scheduler. A call is one step under the
simulator's lock, apart from a read that waits (`ReadMsgs`, `SleepAgain`,
`ReadReturns`). `Scan` collects a batch under the scheduler's lock, `DeliverRx` takes
the simulator's lock for each message of the batch, and a disconnect may come in
between. `BeginShutdown` takes the simulator's lock and waits `JoinTime` for the
thread that may want that lock (`EndShutdown`). Times are what is left of them.
The client passes the device handles 0 and 1 (`Handles`): a closed device has the id 0, and
`CloseDevice` and `Connect` compare a handle with the device's id only, so handle 0 passes
there; `dev` is the handle a channel was connected to. What it does is cut to a connection
among the first `MaxStray`.
A reader's pointer into an erased channel is undefined behaviour: `ReadReturns`
then lets it read anything. `inFlight`, `delivered` and `inOrder` are history.

### AutoConnect

`dev[d]` is the `DeviceState` of device `d` (`tracked` says whether `g_devices` has
one), `devs` and `chans` what the wrapped driver has open, `call[t]` the wrapper
thread `t` is in, `asked` the last `READ_VBATT` that reached the driver.

| wrapper | steps |
|---------|-------|
| `PassThruOpen` | `LocalOpen`, `InitDeviceState` |
| `PassThruClose` | `CloseCall`, then `CleanupBeforeClose` as `Teardown` and `DestroyDeviceState`, `LocalClose` |
| `PassThruConnect` | `LocalConnect`, `OnClientConnect` |
| `PassThruDisconnect` | `LocalDisconnect`, `OnClientDisconnect` |
| `PassThruIoctl(READ_VBATT)` | `ReadCall`, `ResolveChannelId` as `Resolve`, `EnsureInjectedChannel`, `Substitute`, then `LocalIoctl` |

A critical section and the driver call inside it are one step: no other step
reads what it writes without its lock except `Resolve` and `Substitute`, which read
one word. Locks are taken in one order (`g_devicesLock`, then a state's), so they
cannot deadlock. The driver is external: it may refuse the logger's connect and
the client's close; a failing open, connect or disconnect of the client changes
nothing and is no step; it disconnects an open channel when told to. `Numbers`
says which ids it gives to which device and `Overlap` which calls a client makes
at once on one device. A second open may return a device that is open, as it
does with ElmJ2534 and ReplayJ2534; the wrapper then makes the device's state anew, and
`forgotten` (history) marks the channels it no longer knows of. Opens and closes are
made beside no other call on the device: J2534 clients own their handles, and the code
frees a `DeviceState` without asking who still uses it.

## 3. Runs

| run | question | distinct states | result |
|-----|----------|------|--------|
| `isotp_tx` | two writers on one session, any flow control at any time, filter replaced, queue full | 760 000 | pass |
| `isotp_rx` | any frame to two sessions while a reader reads | 306 000 | pass |
| `isotp_link` | full duplex with a conforming ECU, one lost frame | 4.5 million | pass |
| `isotp_block` | may both sides end up waiting? | | yes, finding |
| `elm_open` | three opens, late, failed or hanging workers, an unload that does not wait | 79 000 | pass |
| `elm_session` | writes, readings and reopenings with two faults | 520 000 | pass |
| `elm_device` | three threads that make every call, one of them the unload | 587 000 | pass |
| `auto_connect` | probes of several threads, connects, disconnects, opens again, closes, two devices | 2.76 million | pass |
| `kvaser_handles` | slots opened, configured, closed and used again under receive threads | 389 000 | pass |
| `wire_tap` | every form of the 14 wrappers over connections that break | 1.07 million | pass |
| `replay_log` | recorded sessions, replayed in order and out of order | 1.13 million | pass |
| `replay_sim` | three scenarios, a calling and a reading thread, the scheduler, the unload | 515 000 | pass |

What they show.

* **isotp_tx.** `TxExclusive`: the second writer is refused with
  `ERR_BUFFER_FULL`; `BlockRespected`: no frame beyond the block
  the ECU granted; `HonestSuccess`: success is only returned
  with all bytes handed to the driver, unless the slot was reset meanwhile (`forced`); `TransmitReturns`. All but the last are
  also proved.
* **isotp_rx.** `RxBounded` is the bound of the `memcpy` into `rxBuf` and of the
  ring (also proved); `ReceiveReturns`: a reader leaves with what there is or at its deadline.
* **isotp_link.** `Delivered`: what the ECU accepts is what was written, and
  success is delivery. `Received`: what a reader gets is what the ECU sent, whole
  and in order, through loss, restarted assemblies, removed sessions and an
  overflowing ring. `ReceiveNeverStalls`: the block counts of both sides agree,
  so one of them always has the next move, unless the driver's queue refused a
  flow control frame (`full`: `sendFC` ignores the result of `canWrite`) or the block
  size does not fit the frame's byte (`ByteBlockSizes`). All three
  are also proved, for more threads, sessions and ECUs, under hypotheses that section 4
  names; where TLC shows that one is needed, the section says what goes wrong without.
* **isotp_block.** After the last frame of a block the state becomes
  `TX_WAIT_FC` only when `transmit()` has relocked. An ECU that answers sooner is
  ignored, and then the transmission times out.
* **elm_open.** `OneOwner`: each open handle has exactly one owner and is closed
  once, unless the caller and the unload had it in hand at once;
  `RefsCountUsers`; `OrphanCloses`: a late success does not keep the port busy;
  `OpenReturns` even if `CreateFileA` never does.
* **elm_session.** `AddressedUntilLost`: frames carry the right request and flow
  control id until a call gives up with an error; `NoStaleFilter`: the adapter
  never filters for another responder than the one asked; `CallReturns`. The first
  two are also proved, of the adapters that `Mannered` and `Obedient` describe.
* **elm_device.** `NobodyStranded`: a close, disconnect or unload leaves no thread
  asleep on a queue that is gone, and takes neither session nor channel from a
  write in progress. `PromptRead`: a thread that waits for a channel
  with messages is awake, unless one of that channel's wake-ups went to the reader
  of another channel (`crossed`); then its timeout is what ends the wait. Both are
  also proved.
* **auto_connect.** All but `ProbesReach` are about the channels opened since the last
  open of their device. `InjectedOnce`: the channels the logger opened are the ones its
  states name, none twice and none lost, however many probes come at once;
  `NoDoubleConnect`: never beside the client's once the calls on the device have
  returned; `ProbesReach`: a substituted probe reaches an open channel of its
  device; `ClosedClean`: the driver never closes a device over the logger's channel.
  All are also proved, the middle two of the clients that `ProbesOnly`, `OneChannel`
  and `OwnNumbers` describe.
* **kvaser_handles.** `NothingLeaks`: between calls the open handles, engines and
  threads are those of the open channels, and a thread never outlives its engine;
  `OwnMessages`: what a client reads came in on its channel's own handle, though
  slots are used again; `EngineFollows`: the engine's sessions and block size are
  what the client's calls made them; `DisconnectReturns`. All but the last are also proved.
* **wire_tap.** `ViewerFaithful`: the window shows the calls since the handshake, in
  order and without gaps, and gives up only at the end of a connection or at a
  return code it does not know. `RingImplementsLog`: the ring is the abstract log. Both
  are also proved, the first of connections made between two calls.
* **replay_log.** `ReplayFaithful`: a client that repeats the recorded session gets
  the recorded answers, but for what `Keeps` and `Rounded` list and for sessions
  that are not `Replayable`; these three definitions are the account of what
  the round trip loses: among the rest timestamps from 2^31 us, and the output of every
  ioctl, in whose place four bytes are written over what the caller passed (`Overwritten`). `AnswersInOrder`: a client that calls in any other order
  never gets an event twice too often or an earlier event after a later one. Both are
  also proved.
* **replay_sim.** `NothingOutlives`: a channel gets messages of its own connection,
  except from a batch that was already collected when an earlier connection with
  the same id closed; `DeliveryOrder`: no message overtakes one that was
  scheduled before it and is due no later (two that are found due at once by a late thread
  come in the order in which they were scheduled); `HandlesHonest`: filters and channels
  agree, no channel opened on a device outlives its close, and a closed device answers
  only handle 0 and the channels connected to it; `CallsReturn`: a shutdown ends although it
  holds the lock the thread wants, and a read although others are woken for it. All but
  the last are also proved.

### What does not hold

`PROJECT.json` lists the places where the code does something else than its
documents, comments and tests say. Each can be seen with a small change
of a configuration (and, where it leaves a theorem's hypotheses, of the `ASSUME` in the
MC module that repeats them: `RunIsProved`, `RunIsPlain`); the definitions named here
are kept beside their modules, and no run claims them.

| statement | how to see it fail | what happens |
|-----------|-------------------|--------------|
| `OverflowFails` | a PROPERTY of `MCIsoTpTx.cfg` | an overflow frame makes the slot idle, the loop takes idle for done: success with 6 of 21 bytes sent |
| `WaitExtendsDeadline` | a PROPERTY of `MCIsoTpTx.cfg` | a WAIT frame sets `txFcDeadline`, the loop tests a local copy |
| `ClosedOnce` | an INVARIANT of `MCElmOpen.cfg` | `shutdown()` closes the port without the lock, beside an `open()` or `close()`: a handle is closed twice, or one stays open that nobody will close |
| `FrameAddressed` | an INVARIANT of `MCElmSession.cfg` | after a failed retry the memory is not invalidated, and the next write skips the addressing block |
| `RepliesBelong` | an INVARIANT of `MCElmSession.cfg` | an answer after the deadline ends the next exchange: replies shift by one |
| `ReceiveNeverStalls` | `BlockSizes = {65535}`, `PeerLens = {4095}`, `MaxMsgs = 1`, `Writers = {}` in `MCIsoTpLink.cfg` | the flow control frame carries the low byte of `BS_TX`, the count is against all of it: the ECU stops after 255 frames, the engine waits for 65535 (with 256 the ECU is told "no limit") |
| `OneInjected` | an INVARIANT of `MCAutoConnect.cfg` | a second open that returns the same id makes the state anew: the next probe injects again, and the first channel is never closed |
| `NoDoubleConnect` | `Overlap <- ProbesAndConnects` in `MCAutoConnect.cfg` | the client's connect completes between the unlocked test and the injection |
| `NoDoubleConnect` | `MaxClient = 2`, or `Numbers <- Shared` | a state remembers only the newest client channel; `OnClientDisconnect` looks for a number after the driver freed it |
| `OwnMessages`, `NothingLeaks` | `Orphaning = TRUE` in `MCKvaserHandles.cfg` | `closeDevice()` leaves threads and engines; the slot's next channel feeds them |
| `EngineFollows` | `Careful = FALSE` | a filter that goes by another rule than its session, a cleared list, a full session table |
| `HandshakeFirst` | an INVARIANT of `MCWireTap.cfg` | what a broken call left in the buffer goes out before the versions |
| `ViewerFaithful` | `Overlapping = TRUE` in `MCWireTap.cfg` | the handshake lands within a call that is being written |
| `ClosedIsSilent` | an INVARIANT of `MCReplaySimulator.cfg` | a closed device has the id 0, which handle 0 matches: it gives its version, and a connect with handle 0 makes a channel |

With probes and connects at once `ProbesReach` fails too: the id is read after the
lock and may be 0 by then. `InjectedOnce` and `ClosedClean` hold in all these
cases, and that is proved. In `ElmDevice` a shutdown within a write leaves the port
open in the end (`device = "gone"`, `link = "open"`), because the write's recovery
opens it again.

Three assumptions of `elm_session` are worth knowing.
`LVRESET` in place of the answer to `ATSH`, `ATCRA` or `ATFCSM1`
is passed over, because those commands are optional: the block then
ends with an adapter that has lost its header. An adapter that
rejects `ATSP6` within a recovery, and had a filter loaded, keeps that filter
while the session forgets it (`craSet_` is cleared on any answer). And an
adapter that rejects `ATCRA` may keep an earlier filter.

Smaller observations, made while reading, that no property is about: the ring's
duplicate test does not compare return codes, so a call that fails after one that
succeeded counts as its repetition; the
logger's `refcount` is never decremented, so its clean-up at detach never runs
(`dllmain.cpp:147`); a timeout of 2^31 ms or more has already expired for
`ElmDevice::readMsgs`; texts above 2047 characters lose their end in the parser;
`lookupError` lacks several codes.

### Bounds, and why they are enough

* *Engine*: two writers are enough for every pairwise property and the proofs
  cover any number. A payload of 21 bytes is a first frame and three
  consecutive ones (6+7+7+1), so a block of one completes twice and the last
  frame is partial; 20 is exactly two full frames; 5 is a single frame. One
  slot makes reuse under a writer certain; two slots in `isotp_rx` let sessions
  be looked up past an inactive one. Sequence numbers keep their four bits, but
  no message of these runs is long enough to wrap them: that a wrap is harmless
  is not shown by TLC. `NBs = 1` and timeouts of 0 or 1 tick let a deadline
  pass at each point. A queue of one frame is full at the earliest.
* *Link*: the ECU sends two messages, so the second can overtake, restart or
  follow a broken one; the ring of one drops the first. One loss suffices to
  break a sequence; later frames are then out of order.
* *Open*: three attempts, so two workers may be left behind while a third runs.
* *Session*: two writes to two ids, each with or without a filter, cover every
  order of "filter set, changed, removed"; two faults let a recovery fail in
  the middle. `MaxWrites` and `MaxFaults` are bounds on the model only; the
  number of reopenings and readings is not bounded.
* *Device*: three threads, so that two may read while one writes or unloads; two
  connects, so that channels coexist or an id (`Preferred`) is used again; two
  writes in one batch or two; threads are interchangeable (symmetry; no
  liveness is checked there).
* *Auto-connect*: three threads so that two probe one device while a third works
  on the other; three ids on one device, two on the other, so that a forgotten channel, the client's
  and a new one of the logger's meet; one client channel. Threads are interchangeable.
* *Handles*: two slots and three channels, so a slot is used again while the
  other one lives; one device at a time and two in succession; two filters, sessions and filter ids, so
  "the first one" and "the one named" differ. Only one channel is configured
  (`MaxConfigured`), as calls on one channel read nothing of another.
* *Wire*: a buffer of five cells holds two and a half fields, so every boundary
  falls once inside and once between fields; two connections, so that one is
  made after a loss; arrays of at most one element; a read after every possible
  first call, the same one included (`MaxIndex = 2` entries in a ring of one, so it wraps).
* *Recordings*: an open followed by three calls of 34 kinds, and longer sessions
  with repeats and a second open; the same voltage read to two addresses and two
  voltages read to one; a text of ten units fits or loses its arrow or
  its return code; two messages per event, one of each kind of flags, one of them with a
  time beyond 2^31 us; outputs with no array, an empty one and a filled one.
* *Simulator*: two connections that may share an id, the first (`MaxStray`) also with
  handle 0; three scheduled messages, so
  one write brings echo, notification and reply; the scenarios have a rule that
  does not match, a sequence, a wanted id, a refused transition, a rejected file.
  Delays keep their order (echo < notification); `StartDelay` is 0, so that
  periodic messages come early.
* `isotp_tx`, `isotp_rx`, `isotp_link`, `elm_session` and `auto_connect` check for
  deadlock. The others may really stop, and do not check it: `elm_open` when
  all attempts are used, `elm_device` and `replay_sim` after the unload,
  `kvaser_handles` and `wire_tap` when the bounded handles or connections are used
  up, `replay_log` for a recording of which no event was understood.

### Fairness, and why

* Engine (`EngineFair`): a thread inside `transmit()` or `receive()` keeps
  running, and the clock ticks. Nothing is assumed of the ECU, of the bus, of
  callers or of which thread gets the lock.
* Open (`FairOpenSpec`): caller and worker run. `Opened` has no fairness, because
  `CreateFileA` may hang.
* Session (`FairSpec`): the thread inside the call runs, and a command in the
  pipe is answered or, once the pipe is empty, the deadline passes. Each
  exchange in the code has a deadline of its own.
* Handles: each receive thread runs, and so does the thread inside
  `openChannel()` or `closeChannel()`. No fairness of clients.
* Simulator: the scheduler's thread runs, a thread that waits goes on when it
  can (`Ends`), and the clock ticks. No fairness of calls.

## 4. What is proved

For every value of the constants that satisfies the modules' assumptions.

**IsoTpProofs**, the engine (specification `EngineSpec`: any number of sessions,
writers, readers and filters; any ECU).

* `TypeCorrect`: `TypeOK`, by one lemma per group of actions.
* `TxInvariant`: `TypeOK /\ TxInv`. None of `TxExclusive`, `HonestSuccess` and
  `BlockRespected` is inductive: that a second writer finds the slot busy depends on the slot's state
  being other than idle for as long as the first is inside. `TxInv` says it:
  a writer inside a transmission whose slot was not reset *owns* the slot, that
  is, its message and length are there, the offset does not pass the length, the
  state is not idle, it is `SENDING_CF` while the writer is in its burst, and
  the frame built but not yet counted still fits in the message and the block. A step of the writer itself
  moves ownership along its program (`MoveOwns`, `BurstOwns`, `FirstOwns`,
  `ReturnOwns`); a step of another writer cannot touch the slot, since two owners
  would have to be equal (`Alone`, `OthersKept`); a flow control frame is only
  taken in `WAIT_FC`, where no one is in a burst (`EnvironmentOwns`); a request
  either leaves the slot alone or sets `forced` (`RequestOwns`).
* `Exclusive`, `Honest`: `TxExclusive` and `HonestSuccess`, from ownership.
* `Blocks`: `BlockRespected`, also from ownership: a frame built within its block
  stays within it while the lock is free, because a flow control frame is not
  taken in `SENDING_CF` and no other writer touches the slot.
* `Bounded`: `RxBounded`. `RxInv` adds the types of assemblies and queue: the
  offset grows by the smaller of what a frame brings and `len - off`, which is a
  natural number only because the offset never passed the length before. The
  state of the transmit side plays no part, whatever threads and requests do there.

**IsoTpProofs**, the link (specification `Spec` of `IsoTpLink`: the engine connected to
any number of ECUs over a bus that may lose any number of their frames).

* `Reception`: `Received`, if each ECU answers on an id of its own (`OwnIds`) and no
  two filters are set for one of these ids at once (`OneSession`, assumed of the
  behaviour: `HandleManager::addFilter()` does not refuse the second). Lost frames are
  the difficulty, for sequence numbers wrap after 16 frames: a session that lost 16 of
  them takes the next as if nothing had happened. `Follows` says why no message with a hole
  is ever complete: an assembly never holds more frames than its ECU has sent of that
  message, and one that holds as many holds them all, in order; the length was
  announced, so the assembly that reaches it has as many. `Queues` adds order:
  what is read, queued and being assembled is of messages that grow younger, the
  last one not younger than what the ECU sends now.
* `NeverStalls`: `ReceiveNeverStalls`, if `ISO15765_BS_TX` is not changed either
  (`OneBlockSize`) and fits a byte (`ByteBlockSizes`). While no frame found the queue full, `InStep` holds of an assembly
  that has all its ECU has sent: the two block counts agree; and a waiting ECU has a flow
  control frame on its way (`Promised`). TLC finds counterexamples when a hypothesis is
  dropped: with two filters for one id, the session without the first frame resumes an
  assembly left behind by an earlier message (both properties fail); with two
  block sizes, an ECU that was granted the old one stops where the count
  against the new one does not; with a wide one, the ECU is granted its low byte
  (`SendFC`). The run's constants satisfy the hypotheses (`RunIsProved`).
* `Intact`: `EcuIntact`, the first half of `Delivered`, of any number of writers,
  sessions and ECUs, if of every writer inside a transmission the session is not reset
  nor given to another filter (`Undisturbed`) and no other session transmits to the same
  id (`OneSender`). A frame waits in the driver's queue while the slot that it came from
  moves on, so slot and ECU never agree; between them lies everything queued. The
  invariant `StoryInv` follows it: behind each id there is a *story*, what an ECU would
  know that takes every frame queued (`Reaches`, one `Told` per frame), and a writer that
  sends to this id and whose story it is continues where the story stands (`Tells`). A
  single frame of another thread may cut a transmission short, for a session's state
  does not keep it out; the story is then the other's, the frames still to come find no
  assembly, and what the ECU has is intact all the same. An ECU that gave up (`OVFLW`)
  knows nothing more until a message begins. TLC finds a counterexample, with two writers
  and two slots, when a hypothesis is dropped: after a poll that reset the slot, the first
  transmission goes on with the offsets of a second; with the filter replaced between the
  lookup and the first frame, or two filters for one request id, the consecutive frames of
  two messages meet at one ECU.
* `Delivery`: `Delivered`, if also there is one ECU and it never answers overflow: a
  writer that won told its story to the end (`Ended`). With `OVFLW`, success is not
  delivery, as TLC shows: the ECU refuses what `transmit()` has already finished sending.

**KvaserHandlesProofs** (specification `Spec`: any number of slots, devices,
channels, filters; clients with `Orphaning = FALSE`, for the finding shows that
the others break both theorems).

* `Contained` (`OwnMessages`) and `Tidy` (`NothingLeaks`). A receive thread reads
  handle and event from a slot it does not lock, so that a message stays with its
  channel depends on what the slot holds whenever the thread looks. `HandlesInv` says
  it: an engine in a slot has the number of the slot's handle and stop event, and of a
  thread that was given this slot; it has ended or been told to only while a close of
  this slot waits (`Attached`); active slots have different handles (`Apart`); every
  open handle, engine and living thread is held by a slot (`Held`); a frame just read
  by thread n came from handle n (`Fed`). The slot is given back after the thread has ended
  (`JoinEndsStep`), and `closeDevice()` only takes channels without an engine
  (`CloseDeviceStep`, the one place that needs `~Orphaning`).
* `Types`: `TypeOK`, of every client. `Typed` says more: the type of each field of a
  device, a slot and a thread, and that engines and queues keep to their sizes.
* `ParametersFollow` and `Obeys` (`EngineFollows`). `Following(s)` is the claim about
  one slot. That a slot that is handed out again starts afresh needs `Unused`: a free
  slot has neither filters nor an engine. The sessions agree only for clients that are
  `Careful` (flow control filters on ISO 15765 channels, no more than an engine has
  sessions, never cleared): `removeFilter()` frees the first filter of the channel and
  drops the session with the given id, which agree as multisets of ids if every
  filter has a session. The findings show a run in which they do not.

**ElmThreadsProofs**, the two models of threads in ElmJ2534. The threaded open
(`OpenSpec`: any number of attempts):

* `OpenOwned`, `OpenCounted`, `OpenTyped`. The inductive invariant is `TypeInv`,
  `RefsCountUsers`, `Places`, `HandsMeet` and `Held`. `Places` relates where each handle can
  be to where the threads are (a published result means a finished context, an
  orphan means an abandoned one, finished and abandoned exclude each other), and
  `Held` says that the open handles, but for the raced ones, are those something points
  to. `HandsMeet` is about the two threads in `close()`: what they hold of the link is one
  and the same handle, or it is raced; both at once only if it is. `OneOwner`
  follows: two owners would need two of these places at once.

The device (`Spec`: any number of threads, channels, filters and messages):

* `NobodyLeft`: `NobodyStranded`. It is not inductive: a disconnect within a write
  would break it, so one must know that nothing but the unload starts while a
  thread writes. `DeviceInv` is `ThreadsShaped` (what a thread's record can be),
  `OneWriter` (the lock excludes), `ClosedIsEmpty` (a closed device has no
  channels), `SessionKept` (the session lives until the unload), and
  `NobodyStranded`. The three operations that take channels away wake every
  sleeper in the same step, and the unload takes them only when the lock is free.
* `NoneWaitsInVain`: `PromptRead`, for finite sets of threads and responders
  (`DeviceAssumption`). It counts: while no wake crossed, a channel with n messages
  and a sleeping reader has n awake readers. `PromptInv` adds the shape of channels
  and `Wanting`: whoever is awake for a channel has not given up on it, so it takes a
  message or finds none left. A delivery wakes one reader per message or all there
  are; a reader that takes one leaves one less to be taken; a timeout ends the wait
  of one that nothing was waiting for.

**AutoConnectProofs** (specification `Spec`: any number of threads and devices, any
overlap of probes, connects and disconnects, any numbering of channels).

* `ConnectInvariant`, and from it `TypeCorrect`, `Once` (`InjectedOnce`), `Clean`
  (`ClosedClean`). `InjectedOnce` is not inductive: a state that is destroyed with an
  injected channel would lose it, so one must know that nothing injects between the
  teardown and the destruction. `ConnectInv` is `TypeOK`; `Named` (channels and
  states agree, both ways); `Placed` (labels know their operation, a call's device
  is open); `Alone` (an open or close has its device to itself); `Lifetimes`
  (untracked states are empty, closed devices have no channels). One lemma per
  action; `Withdrawing` is the one place where the driver's unique ids are
  needed, so that taking down the logger's channel takes down no other. Channels that
  an open made their state forget are nobody's and excepted.
* `Reach` (`ProbesReach`), of clients that make no call on a device beside their
  probes of it (`ProbesOnly`); any number of probes may overlap. The substitution
  reads flag and id of the state without the lock: `Carried` says that what a probe
  took along is the channel that is still open, since only calls that `Solo` excludes
  can take it down.
* `NoDouble` (`NoDoubleConnect`), of such clients with one channel per device at most
  (`OneChannel`) and a driver whose devices number their channels apart
  (`OwnNumbers`). `Known` ties each client channel to the `clientId` of its device's
  state. Without `OneChannel` the disconnect of the later of two channels clears
  `clientId` while the earlier is open; without `OwnNumbers` a late
  `OnClientDisconnect` of a number used again clears another device's. In both cases
  the next probe opens a channel beside the client's, which is why the run's
  constants satisfy the three (`RunIsPlain`).

**ElmSessionProofs** (specification `Spec`: any addresses, any faults, any number of
writes).

* `Types`: `TypeOK`, of every adapter. `Typed` gives the type of each field and what
  the command list of a phase may hold (`Suits`), so that a command at the head of the
  list tells the phase; `Remembers` says that a request is only sent with the session
  believing its ids loaded, and that resets and address blocks forget them first.
* `NeverStale` (`NoStaleFilter`), of an adapter that obeys `ATZ`, `ATWS` and `ATCRA`
  (`Obedient`). After a timeout, commands and answers of several exchanges can be in
  flight, so that what the session believes is not what the adapter holds. But the
  adapter takes commands in order: `Within(pipe, r, i, V)` is the filter it will have
  after the first i of them. `FilterKnown` says that at the end of the pipe it is the
  session's or "accept all", and "accept all" unless `craSet`; `RequestsFiltered`,
  that at each request in the pipe it is that of the request. A written command moves
  the end (`WithinWritten`), a command taken, or a reset, the start (`WithinTaken`).
* `Addressed` (`AddressedUntilLost`), of an adapter whose optional addressing steps do
  not fail unseen and that answers no request late (`Mannered`). Until a call gives
  up, `InStep` holds: at most the current command is out, since every other way to
  leave an exchange ends in a reset of the link or a shutdown. `HeadersKnown`: while
  the adapter was not reset within the current exchange (`Alive`), its headers are
  those the session remembers or has just loaded (`Executed`); a reset is noticed
  because the exchange it falls into fails (`Passed`).
  TLC finds a counterexample as soon as the adapter rejects `ATSH`, answers one of
  `ATSH`, `ATCRA`, `ATFCSM1` with `LVRESET`, or a request late; of `NoStaleFilter`, as
  soon as it rejects one of `Obedient`'s three. So the hypotheses are as weak as the
  code allows, and the run's adapter satisfies them (`RunIsMannered`).

**ReplaySimulatorProofs** (specification `Spec`: any scenarios, any number of
connections, filters, messages and reading threads, any delays; a client that passes the
handles 0 and 1, at any time; the thread as late as it likes, in the middle of a batch too).

* `Confined` (`NothingOutlives`), `NoOvertaking` (`DeliveryOrder`), `Honest`
  (`HandlesHonest`). The inductive invariant `SimInv` is `Types`; `Apart`: no two channels
  have one connection, what is queued or fires is for a channel that lasts, and what is in
  the batch is for one that lasts or is counted in `inFlight`; `Held`: filters and
  channels agree, also that a filter's id is not to be given out again; `Ordered`: of the
  messages that one in the queue must wait for, each has been received, is in the batch,
  or stands before it in the queue with no more time left (`InLine`), and of those that
  one in the batch must wait for, each has been received or stands before it.
* The queue is filtered in three places (`Among`). `AmongDrawn` says what is kept: the
  elements in the set, in their order, by a function `h` from new places to old ones, so
  what stood before an element, and is kept, still does (`DrawnBefore`). That the clock keeps
  `Ordered` is monotony of `Less`; that a batch does, that all with no time left leave
  the queue together.
* `Among` and `Written` recur over their sequences. Their lemmas take the least place
  where the claim fails (`Smallest`, from the well-foundedness of the natural numbers):
  induction without its schema. The same argument finds the free id of `AllocateChannelId`
  (`FreeId`).
* Assumed of a scenario: arrays are sequences, and delays, intervals and wanted ids, which
  the code reads as unsigned numbers, are natural numbers (`ScenarioAssumption`).

**WireTapProofs**, the logger's two channels. The ring (specification `RingSpec`: any
capacity, any events):

* `RingTyped`, `RingMatched`, and `RingRefines`: `RingSpec => RingImplementsLog`, the
  ring implements `EventLog`. The inductive invariant is `RingMatches`: for every
  index still kept, the cell `index % Capacity` holds that entry of the history. That a write
  at the head disturbs no other kept entry is modular arithmetic: two indices
  less than `Capacity` apart have different places (`PlacesDiffer`). Each `Push` then maps to the
  log's `Push` (the entry before the head is the newest), each `Read` to the log's
  `Read`. `WireRing` is the same of `Spec`, the whole path: what the wrappers do to
  the ring are steps of the ring (`RingSteps`).

The path to the window (specification `Spec`: any calls the 14 wrappers can make, arrays
of any length, any buffer of more than two cells, any number of calls and connections):

* `WireTyped`: `TypeOK`, of every client and of connections made within a call too. The
  point is the buffer: it never overflows, and once a connection has failed at most
  the second half of a field is left in it (`Halved`), since `flush()` empties the buffer
  whether or not it sent it, and a field is written only while there is a connection.
* `WireFollowed`: `ViewerFaithful`, under `~Overlapping`: the retry thread connects
  between two calls only. With a connection made within a call it is false; see
  section 3. The argument has three parts.
  * The grammar (`ParamsParse`): the parameters of every wrapper, with every pointer null
    or not, can be read back with nothing but a count of the values still to come.
    `Reads` says what the count is after each token, `ValuesParse` and `ParsesJoin` put
    values together, `RepeatValues` is for arrays of any length; `MadeCalls` concludes for
    the calls a client can make. So the window, which has no other means, knows where
    a call ends: `Partial` says that what it still owes is that count.
  * What is under way (`Flow`). The conversation is a sequence of units, the three fields
    of the handshake and then the calls begun (`Begun`). A place is a unit and a field of it.
    There is a chain of places, each the successor of the one before (`Chain`), from where the
    window reads to where the call writes (`WritePlace`), and the cells on the wire and
    in the buffer are their halves, in order (`Carries`). While the connection holds they are
    all of them; after it has failed, the first of them. `FlowWrites` adds a place at the
    end, `FlowReads` takes one off, `FlowCut` loses the rest, `FlowSkips` passes over it.
    That the buffer was flushed in between, in the middle of a field perhaps, does not show
    in `wire \o buf` (`Filled`, `Flushed`).
  * The window (`ViewOK`): what it shows, with repetitions counted (`Unrolls`, `ShownGrows`),
    are the first units of the conversation, what it has of a message is the start of the
    next. One lemma per kind of field: `ReadsVersion`, `ReadsName`, `ReadsHeader`,
    `ReadsParameter`, `ReadsEnd`. `CallPlace` is why a call is not shown before it has
    returned: its last field is written when it returns.

  The one exception is a connection that starts with half a field of a call whose
  connection broke (`Doomed`): the window takes it for an unsupported protocol and
  shows nothing (`HandshakeFirst` in section 3). The invariant is `Tracks`.
* `Shown` and the steps of a parse are functions over sequences; their equation comes
  from `Recursion`, as in `ReplayLogProofs`.
* Assumed: `CallsAssumption`, every call is one that a wrapper can make.

**ReplayLogProofs** (specification `Spec`: any set of recordings of any length, any
sizes of texts and events, any calls of the client).

* `AnswersOrdered`: `AnswersInOrder`. `OrderInv` adds to it what the engine's two
  members mean (`EngineOK`): every event that has answered lies before the cursor; a
  run of repeats belongs to the last one, whose answers and repeats left are together
  no more than its count. That counts are positive is `EventCounted`, by way of `SavedGrows` and
  `StructuredLog`: the merged log only grows, at its end, by new texts or by counts.
* `RepliesFaithful`: `ReplayFaithful`. Three maps have to agree call by call.
  `StructuredLog` places each call in an entry of the log, `Parsed` each entry in the
  events, and `CallEvent` (one lemma per kind of call: `OpenEvent` to `VersionEvent`) says
  what an event keeps of the call behind it (`Becomes`). `CallPlaced` and `EventPlaced`
  put them together: the place of a call's event never goes back, and moves on exactly
  when the text differs. The invariant is `Walk`: after the client has repeated i calls,
  the engine stands where the log of these i calls ends, with as many repeats left as
  the rest of the recording uses of the last event (`Stands`). It is kept by
  `AnsweredCall`, by `MissedCall` for what the engine never finds (an open), and by
  `WalkStep`; `FaithfulAnswer` then compares the answer with the recorded one.
* Log and parser are recursive functions. That such a function obeys its equation is
  proved (`Recursion`, from `UpTo` and `Smallest`, the least-number principle) and not
  taken from the library, whose theorems have an operator as a parameter.
* Assumed of a recording (`RecordingsAssumption`): what the driver and the wrappers make
  of any call (`Recorded`), above all that a read has as many messages as it says and that
  only an ioctl has an output to write to. `OutputShown` and `IoctlPieces` find the number
  that is written there.

Not proved, only model-checked: all liveness (`TransmitReturns`, `ReceiveReturns`,
`OrphanCloses`, `OpenReturns`, `CallReturns`, `DisconnectReturns`, `CallsReturn`):
fairness and `ENABLED` are out of the proof system's reach. Every invariant of a
passing run is proved for all values of the constants that its theorem's hypotheses allow.

## 5. What is not modelled, and why

* In the engine: padding, STmin, timestamps, CAN FD, extended addressing and the
  wrap of `GetTickCount()` at 2^32 ms. `init()` is part of `Init`. N_Cr is set
  and never read by the code, so a reception without end stays as it is.
* In the handle manager: the two-second limit of the join, since a receive thread
  blocks for at most ten milliseconds; clients that use a channel while they close
  it (what they find is freed memory); raw CAN reads and writes, `GET_CONFIG`,
  versions and voltage, which change no state; `~HandleManager`, after CANlib is gone.
* In the session: parsing of the adapter's text (functions of a text without
  state). In the device: calls that pass the API's check when the DLL is unloaded.
* In auto-connect: `autoInject` is on; `mockVbattMv` only changes a result; the
  registry read; `READ_VBATT` with a channel id is the driver's call alone, which
  needs channel ids to differ from device ids (`ConnectAssumption`; so it is with
  KvaserDirect, devices from 1232 on, and ElmJ2534, device 1 and channels from 2 on).
  A client that closes a device, or opens it again, under its own calls is outside
  the model.
* On the wire: two threads that call at once (the wrappers share the buffer without
  a lock, and nothing good can be said of it), a `send()` that accepts a part,
  values of fields, the ring's index at 2^32.
* In the replay driver: scanning of JSON and of texts, character by character;
  readers inside the simulator when the DLL is unloaded; a deadline past the
  wrap of the tick counter.
* Whole components: log text, registry access, port enumeration, the viewer's
  window, DLL entry tables, sample programs, scripts and vendor headers have no
  state worth checking.

## 6. Plan

Order: what decides whether data is right first, then lifetimes, then the rest.

| module | models | abstract specification, theorems | status |
|--------|--------|----------------------------------|--------|
| `IsoTpEngine`, `IsoTpLink` (extends it) | the engine; the engine with an ECU | exclusivity, honest success, blocks, reception | checked; all but liveness proved; an abstract message channel left |
| `ElmOpen` | threaded open | one owner, counted references | checked, proved |
| `ElmSession` | session, plans, recoveries, adapter | what the session remembers is what the adapter holds until a call is lost | checked, proved |
| `ElmDevice` | lock, queues, shared condition variable, id reuse, unload | nobody is stranded | checked, proved |
| `KvaserHandles` | slots, receive threads, join, filters and sessions | nothing leaks, the engine follows | checked, proved |
| `EventLog`, `EventRing` | ring with repetition counts | refines an unbounded log | checked, refinement proved |
| `AutoConnect` | injected channels against client calls | at most one injected channel, lost only to a second open, down before close | checked, proved |
| `WireTap` (extends `EventRing`) | wrappers, network writer, retry thread, the window's reader | the window is faithful | checked, proved |
| `ReplayLog` | recording, parser, replay engine | a replay repeats the recording | checked, proved |
| `ReplaySimulator` | scenario, simulator, scheduler | nothing outlives its channel, order, every call returns | checked; all but liveness proved |
| `ElmAssembly` | assembling frames from text, as functions | against a reference definition on bounded inputs | planned |
| `Ticks` | deadline arithmetic modulo 2^32 | equivalence of the two comparison styles within 2^31 ms, and where they differ | planned |

Every module takes its sizes from `CONSTANTS`, has one action per operation or
critical section, and declares no `RECURSIVE` operator, so that it can be proved
about. Every property of a passing run has a mutation of the code's definitions
that breaks it.
