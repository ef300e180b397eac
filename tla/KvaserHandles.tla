---------------------------- MODULE KvaserHandles ----------------------------
(***************************************************************************)
(* The handle manager of KvaserDirect (HandleManager.cpp) and the calls of *)
(* its API (J2534Api.cpp) that change state: device and channel slots, the *)
(* receive thread that every ISO 15765 channel gets, its ISO-TP engine,    *)
(* filters against the engine's sessions, SET_CONFIG, reads and writes.    *)
(*                                                                         *)
(* A channel slot is memory: closeDevice() leaves in it what it does not   *)
(* reset, and a receive thread reads it without a lock.  The n-th channel  *)
(* opened gives its number to its CANlib handle, its engine, its stop      *)
(* event and its thread, so "engine m is fed from handle n" shows a thread *)
(* that outlived its channel.                                              *)
(***************************************************************************)
EXTENDS Integers, Sequences, FiniteSets

CONSTANTS
  MaxDevices,    \* devices_[4]
  Slots,         \* the indices of channels_[MAX_CHANNELS]
  MaxFilters,    \* MAX_FILTERS
  MaxSessions,   \* ISOTP_MAX_SESSIONS
  MaxPeriodic,   \* MAX_PERIODIC
  MaxOpens,      \* bound: channels opened in a behaviour
  MaxDeviceIds,  \* bound: devices opened in a behaviour
  MaxFilterIds,  \* bound: filters started on one channel
  MaxQueue,      \* bound: completed messages waiting in an engine
  MaxConfigured, \* bound: channels with filters or parameters of their own
  Orphaning,     \* the client closes devices under their ISO 15765 channels
  Careful        \* on ISO 15765 channels the client keeps to flow control
                 \* filters, at most MaxSessions, and never clears them

ASSUME KvaserHandlesAssumption ==
  /\ Slots \subseteq Nat /\ Slots # {} /\ IsFiniteSet(Slots)
  /\ {MaxDevices, MaxFilters, MaxSessions, MaxPeriodic} \subseteq Nat \ {0}
  /\ {MaxOpens, MaxDeviceIds, MaxFilterIds, MaxQueue, MaxConfigured} \subseteq Nat
  /\ {Orphaning, Careful} \subseteq BOOLEAN

VARIABLES
  devices,      \* ids of the open devices
  nextDevice,   \* nextDeviceId_, counted from 1
  ch,           \* the channel slots
  opened,       \* channels opened so far
  handles,      \* CANlib handles that are open
  engines,      \* ISO-TP engines on the heap
  sessions,     \* filter ids with a session, per engine
  blockSize,    \* bsTx_ per engine
  queue,        \* per engine: handles the queued messages came from
  signalled,    \* stop events that are set
  thread,       \* where each receive thread is
  home,         \* the slot each receive thread was given
  from,         \* the handle a thread's frame came from
  call,         \* the call that holds lock_ over more than one step
  wanted,       \* per slot: flow control filters started and not stopped
  agreed        \* per slot: the last SET_CONFIG was accepted

vars == <<devices, nextDevice, ch, opened, handles, engines, sessions,
          blockSize, queue, signalled, thread, home, from, call, wanted, agreed>>
heap == <<engines, sessions, blockSize, queue>>
threads == <<signalled, thread, home, from>>
slots == <<ch, wanted, agreed>>

Opens == 1..MaxOpens
FilterTypes == {"pass", "flow"}
BlockSizes == {0, 1}

ChannelState ==
  [active: BOOLEAN, device: Nat, iso: BOOLEAN, handle: 0..MaxOpens,
   engine: 0..MaxOpens, event: 0..MaxOpens, bs: BlockSizes,
   filters: [1..MaxFilters -> FilterTypes \cup {"free"}], nextFilter: Nat,
   periodic: SUBSET (1..MaxPeriodic)]

NoFilters == [i \in 1..MaxFilters |-> "free"]

\* memset() of a slot and what openChannel() writes over it.
Fresh(d, iso, n) ==
  [active |-> TRUE, device |-> d, iso |-> iso, handle |-> n, engine |-> 0,
   event |-> 0, bs |-> 0, filters |-> NoFilters, nextFilter |-> 1,
   periodic |-> {}]

\* A slot given back.  Only a receive thread may still read it, and only its
\* handle and its event; the rest waits for the memset() and is cleared here.
Released(c) ==
  [Fresh(0, FALSE, c.handle) EXCEPT !.active = FALSE, !.event = c.event]

Init ==
  /\ devices = {} /\ nextDevice = 1
  /\ ch = [s \in Slots |-> Released(Fresh(0, FALSE, 0))]
  /\ opened = 0 /\ handles = {} /\ engines = {}
  /\ sessions = [n \in Opens |-> {}]
  /\ blockSize = [n \in Opens |-> 0]
  /\ queue = [n \in Opens |-> <<>>]
  /\ signalled = {}
  /\ thread = [n \in Opens |-> "none"] /\ from = [n \in Opens |-> 0]
  /\ home \in [Opens -> {CHOOSE s \in Slots : TRUE}]
  /\ call = [op |-> "idle", slot |-> 0]
  /\ wanted = [s \in Slots |-> {}] /\ agreed = [s \in Slots |-> TRUE]

Idle == call.op = "idle"
Lowest(S) == CHOOSE i \in S : \A j \in S : i <= j

\* getChannel(), for a client that does not use a channel while it opens or
\* closes it.
Usable(s) == ch[s].active /\ (Idle \/ call.slot # s)

-----------------------------------------------------------------------------
(* Devices.                                                                *)

MFreeDevice == TRUE
FreeDevice == Cardinality(devices) < MaxDevices

OpenDevice ==
  /\ Idle
  /\ FreeDevice /\ nextDevice <= MaxDeviceIds
  /\ devices' = devices \cup {nextDevice} /\ nextDevice' = nextDevice + 1
  /\ UNCHANGED <<slots, opened, handles, heap, threads, call>>

Children(d) == {s \in Slots : ch[s].active /\ ch[s].device = d}

\* canBusOff() and canClose().
MClosed(d) == {}
Closed(d) == {ch[s].handle : s \in Children(d)}

\* The handles are closed and the slots freed; receive threads, stop events,
\* engines and timers stay as they are.
CloseDevice(d) ==
  /\ Idle /\ d \in devices
  /\ Orphaning \/ \A s \in Children(d) : ~ch[s].iso
  /\ devices' = devices \ {d}
  /\ handles' = handles \ Closed(d)
  /\ ch' = [s \in Slots |-> IF s \in Children(d)
                            THEN Released(ch[s]) ELSE ch[s]]
  /\ wanted' = [s \in Slots |-> IF s \in Children(d) THEN {} ELSE wanted[s]]
  /\ agreed' = [s \in Slots |-> s \in Children(d) \/ agreed[s]]
  /\ UNCHANGED <<nextDevice, opened, heap, threads, call>>

-----------------------------------------------------------------------------
(* Channels.  lock_ is held through openChannel() and closeChannel(), but  *)
(* receive threads read the slot meanwhile: openChannel() clears it before *)
(* it creates the new event, closeChannel() waits for the thread.          *)

Free == {s \in Slots : ~ch[s].active}

\* canSetBusParams() or canBusOn() fails: the handle is closed again.
OpenChannelFails(d) ==
  /\ Idle /\ d \in devices /\ Free # {} /\ opened < MaxOpens
  /\ opened' = opened + 1
  /\ UNCHANGED <<devices, nextDevice, slots, handles, heap, threads, call>>

OpenChannel(d, iso) ==
  LET s == Lowest(Free) n == opened + 1 IN
  /\ Idle /\ d \in devices /\ Free # {} /\ opened < MaxOpens
  /\ opened' = n /\ handles' = handles \cup {n}
  /\ ch' = [ch EXCEPT ![s] = Fresh(d, iso, n)]
  /\ call' = IF iso THEN [op |-> "start", slot |-> s] ELSE call
  /\ UNCHANGED <<devices, nextDevice, heap, threads, wanted, agreed>>

StartReceiver ==
  LET s == call.slot n == opened IN
  /\ call.op = "start"
  /\ engines' = engines \cup {n}
  /\ ch' = [ch EXCEPT ![s].engine = n, ![s].event = n]
  /\ thread' = [thread EXCEPT ![n] = "poll"]
  /\ home' = [home EXCEPT ![n] = s]
  /\ call' = [op |-> "idle", slot |-> 0]
  /\ UNCHANGED <<devices, nextDevice, opened, handles, sessions, blockSize,
                 queue, signalled, from, wanted, agreed>>

\* SetEvent(), if the channel has a stop event.
MStopped(s) == {}
Stopped(s) == {ch[s].event} \ {0}

\* Up to the wait; the timers of periodic messages are deleted first.
CloseChannel(s) ==
  /\ Idle /\ ch[s].active
  /\ signalled' = signalled \cup Stopped(s)
  /\ call' = [op |-> "join", slot |-> s]
  /\ UNCHANGED <<devices, nextDevice, slots, opened, handles, heap, thread,
                 home, from>>

\* The thread has ended.  The two-second limit of the wait is not modelled: a
\* receive thread blocks for at most 10 ms at a time.
MJoined(s) == ch[s].event # 0 => ch[s].event \in signalled
Joined(s) == ch[s].event # 0 => thread[ch[s].engine] = "done"

JoinEnds ==
  LET s == call.slot e == ch[s].engine IN
  /\ call.op = "join" /\ Joined(s)
  /\ engines' = engines \ {e}
  /\ sessions' = [n \in Opens |-> IF n = e THEN {} ELSE sessions[n]]
  /\ blockSize' = [n \in Opens |-> IF n = e THEN 0 ELSE blockSize[n]]
  /\ queue' = [n \in Opens |-> IF n = e THEN <<>> ELSE queue[n]]
  /\ handles' = handles \ {ch[s].handle}
  /\ ch' = [ch EXCEPT ![s] = [Released(@) EXCEPT !.event = 0]]
  /\ wanted' = [wanted EXCEPT ![s] = {}] /\ agreed' = [agreed EXCEPT ![s] = TRUE]
  /\ call' = [op |-> "idle", slot |-> 0]
  /\ UNCHANGED <<devices, nextDevice, opened, threads>>

-----------------------------------------------------------------------------
(* isoTpRxThreadFunc(): the engine is read once, the stop event and the    *)
(* handle from the slot in every round.                                    *)

CheckStop(n) ==
  LET e == ch[home[n]].event IN
  /\ thread[n] = "poll"
  /\ thread' = [thread EXCEPT ![n] = IF e = 0 \/ e \in signalled THEN "done" ELSE "read"]
  /\ UNCHANGED <<devices, nextDevice, slots, opened, handles, heap,
                 signalled, home, from, call>>

\* canReadWait(): a frame, or ten milliseconds without one.
ReadWait(n) ==
  LET h == ch[home[n]].handle IN
  /\ thread[n] = "read"
  /\ \/ /\ h \in handles
        /\ from' = [from EXCEPT ![n] = h]
        /\ thread' = [thread EXCEPT ![n] = "feed"]
     \/ /\ thread' = [thread EXCEPT ![n] = "poll"]
        /\ UNCHANGED from
  /\ UNCHANGED <<devices, nextDevice, slots, opened, handles, heap,
                 signalled, home, call>>

\* processFrame(), the last frame of a message a session waits for.
Feed(n) ==
  /\ thread[n] = "feed"
  /\ queue' = IF n \in engines /\ sessions[n] # {} /\ Len(queue[n]) < MaxQueue
              THEN [queue EXCEPT ![n] = Append(@, from[n])] ELSE queue
  /\ thread' = [thread EXCEPT ![n] = "poll"] /\ from' = [from EXCEPT ![n] = 0]
  /\ UNCHANGED <<devices, nextDevice, slots, opened, handles, engines,
                 sessions, blockSize, signalled, home, call>>

-----------------------------------------------------------------------------
(* Calls on a channel, none of which takes lock_.                          *)

ReadMsgs(s) ==
  LET e == ch[s].engine IN
  /\ Usable(s) /\ e # 0 /\ queue[e] # <<>>
  /\ queue' = [queue EXCEPT ![e] = Tail(@)]
  /\ UNCHANGED <<devices, nextDevice, slots, opened, handles, engines,
                 sessions, blockSize, threads, call>>

Configured(s) ==
  ch[s].nextFilter > 1 \/ ch[s].periodic # {} \/ ch[s].bs # 0 \/ ~agreed[s]
MayConfigure(s) ==
  Usable(s) /\ Cardinality({t \in Slots : Configured(t)} \cup {s}) <= MaxConfigured

FreeFilters(s) == {i \in 1..MaxFilters : ch[s].filters[i] = "free"}
UsedFilters(s) == (1..MaxFilters) \ FreeFilters(s)

MayStart(s, type) ==
  Careful /\ ch[s].iso => type = "flow" /\ Cardinality(wanted[s]) < MaxSessions

\* addSession() drops what has no room, and addFilter() does not look.
AddFilter(s, type) ==
  LET id == ch[s].nextFilter e == ch[s].engine
      session == type = "flow" /\ e # 0
  IN /\ MayConfigure(s) /\ FreeFilters(s) # {} /\ id <= MaxFilterIds
     /\ MayStart(s, type)
     /\ ch' = [ch EXCEPT ![s].filters[Lowest(FreeFilters(s))] = type,
                         ![s].nextFilter = id + 1]
     /\ sessions' = IF session /\ Cardinality(sessions[e]) < MaxSessions
                    THEN [sessions EXCEPT ![e] = @ \cup {id}] ELSE sessions
     /\ wanted' = IF session THEN [wanted EXCEPT ![s] = @ \cup {id}] ELSE wanted
     /\ UNCHANGED <<devices, nextDevice, opened, handles, engines, blockSize,
                    queue, threads, call, agreed>>

\* The id names the session; the filter that goes is the first one.
FlowFirst(s) == ch[s].engine # 0 /\ ch[s].filters[Lowest(UsedFilters(s))] = "flow"
MDropped(s, id) == IF FlowFirst(s) THEN {Lowest(UsedFilters(s))} ELSE {}
Dropped(s, id) == IF FlowFirst(s) THEN {id} ELSE {}

RemoveFilter(s, id) ==
  LET e == ch[s].engine IN
  /\ Usable(s) /\ UsedFilters(s) # {}
  /\ id < ch[s].nextFilter /\ (e # 0 /\ Careful => id \in wanted[s])
  /\ ch' = [ch EXCEPT ![s].filters[Lowest(UsedFilters(s))] = "free"]
  /\ sessions' = IF e = 0 THEN sessions
                 ELSE [sessions EXCEPT ![e] = @ \ Dropped(s, id)]
  /\ wanted' = [wanted EXCEPT ![s] = @ \ {id}]
  /\ UNCHANGED <<devices, nextDevice, opened, handles, engines, blockSize,
                 queue, threads, call, agreed>>

\* CLEAR_MSG_FILTERS leaves the engine's sessions.
ClearMsgFilters(s) ==
  /\ Usable(s) /\ (Careful => ~ch[s].iso)
  /\ ch' = [ch EXCEPT ![s].filters = NoFilters]
  /\ wanted' = [wanted EXCEPT ![s] = {}]
  /\ UNCHANGED <<devices, nextDevice, opened, handles, heap, threads, call, agreed>>

Periodic(s, set) ==
  /\ MayConfigure(s)
  /\ ch' = [ch EXCEPT ![s].periodic = set]
  /\ UNCHANGED <<devices, nextDevice, opened, handles, heap, threads, call,
                 wanted, agreed>>

StartPeriodic(s) ==
  LET free == (1..MaxPeriodic) \ ch[s].periodic IN
  /\ free # {}
  /\ Periodic(s, ch[s].periodic \cup {Lowest(free)})

\* The first active message goes, whichever the id named.
StopPeriodic(s) ==
  /\ ch[s].periodic # {}
  /\ Periodic(s, ch[s].periodic \ {Lowest(ch[s].periodic)})

ClearPeriodic(s) == Periodic(s, {})

\* A list with an ISO15765_BS_TX entry and, after it, perhaps a bad one: the
\* entry is stored, and the engine hears of it only if the list was accepted.
SetConfig(s, bs, accepted) ==
  LET e == ch[s].engine IN
  /\ MayConfigure(s)
  /\ ch' = [ch EXCEPT ![s].bs = bs]
  /\ blockSize' = IF accepted /\ e # 0 THEN [blockSize EXCEPT ![e] = bs] ELSE blockSize
  /\ agreed' = [agreed EXCEPT ![s] = accepted]
  /\ UNCHANGED <<devices, nextDevice, opened, handles, engines, sessions,
                 queue, threads, call, wanted>>

-----------------------------------------------------------------------------
Client ==
  \/ OpenDevice
  \/ \E d \in devices : CloseDevice(d) \/ OpenChannelFails(d)
  \/ \E d \in devices, iso \in BOOLEAN : OpenChannel(d, iso)
  \/ \E s \in Slots : CloseChannel(s) \/ ReadMsgs(s) \/ ClearMsgFilters(s)
  \/ \E s \in Slots : StartPeriodic(s) \/ StopPeriodic(s) \/ ClearPeriodic(s)
  \/ \E s \in Slots, type \in FilterTypes : AddFilter(s, type)
  \/ \E s \in Slots, id \in 1..MaxFilterIds : RemoveFilter(s, id)
  \/ \E s \in Slots, bs \in BlockSizes, ok \in BOOLEAN : SetConfig(s, bs, ok)

Receiver(n) == CheckStop(n) \/ ReadWait(n) \/ Feed(n)

Next ==
  \/ Client
  \/ StartReceiver \/ JoinEnds
  \/ \E n \in Opens : Receiver(n)

\* Calls that have begun and receive threads are scheduled; clients may stop.
Fairness ==
  /\ WF_vars(StartReceiver) /\ WF_vars(JoinEnds)
  /\ \A n \in Opens : WF_vars(Receiver(n))

Spec == Init /\ [][Next]_vars /\ Fairness

-----------------------------------------------------------------------------
(* The slots are channels, open devices and handles have been given out,   *)
(* and every engine's sessions fit its table.                              *)
TypeOK ==
  /\ devices \subseteq 1..(nextDevice - 1) /\ nextDevice \in Nat
  /\ Cardinality(devices) <= MaxDevices
  /\ ch \in [Slots -> ChannelState]
  /\ opened \in 0..MaxOpens
  /\ handles \subseteq 1..opened /\ engines \subseteq 1..opened
  /\ signalled \subseteq 1..opened
  /\ sessions \in [Opens -> SUBSET (1..MaxFilterIds)]
  /\ \A n \in Opens : Cardinality(sessions[n]) <= MaxSessions
  /\ blockSize \in [Opens -> BlockSizes]
  /\ \A n \in Opens : queue[n] \in Seq(Opens) /\ Len(queue[n]) <= MaxQueue
  /\ thread \in [Opens -> {"none", "poll", "read", "feed", "done"}]
  /\ home \in [Opens -> Slots] /\ from \in [Opens -> 0..MaxOpens]
  /\ call \in [op : {"idle", "start", "join"}, slot : Slots \cup {0}]
  /\ wanted \in [Slots -> SUBSET (1..MaxFilterIds)]
  /\ agreed \in [Slots -> BOOLEAN]

Running == {n \in Opens : thread[n] \in {"poll", "read", "feed"}}

(* Handles, engines and receive threads belong to open channels.  Between  *)
(* calls: the open CANlib handles are those of the active slots, engines   *)
(* those of the active ISO 15765 slots, and a thread runs for each engine  *)
(* and for no other; at any time no thread runs without its engine, which  *)
(* closeChannel() deletes and closeDevice() forgets.                       *)
NothingLeaks ==
  /\ Running \subseteq engines
  /\ Idle =>
     /\ handles = {ch[s].handle : s \in {t \in Slots : ch[t].active}}
     /\ engines = {ch[s].engine : s \in {t \in Slots : ch[t].active /\ ch[t].iso}}
     /\ Running = engines

(* What a client reads from a channel came in through that channel's own   *)
(* handle: no receive thread of an earlier channel in the same slot takes  *)
(* frames from the new handle, and none reaches another channel's engine.  *)
OwnMessages ==
  \A n \in Opens :
    /\ from[n] \in {0, n}
    /\ \A i \in 1..Len(queue[n]) : queue[n][i] = n

\* An ISO 15765 channel's engine has a session for each flow control filter the
\* client has not stopped, and for no other.
SessionsFollow ==
  \A s \in Slots : Usable(s) /\ ch[s].iso => sessions[ch[s].engine] = wanted[s]

\* It works with the stored parameters unless the last SET_CONFIG was refused.
ConfigFollows ==
  \A s \in Slots :
    Usable(s) /\ ch[s].iso /\ agreed[s] => blockSize[ch[s].engine] = ch[s].bs

(* The engine does what the calls on its channel asked for: its sessions   *)
(* are the client's flow control filters although filters and sessions are *)
(* removed by different rules, and its parameters are those of the slot.   *)
EngineFollows == SessionsFollow /\ ConfigFollows

(* PassThruDisconnect() comes back: the receive thread sees its stop event *)
(* and ends, so that the wait for it is not what ends the call.            *)
DisconnectReturns == call.op = "join" ~> Idle
=============================================================================
