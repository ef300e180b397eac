---------------------------- MODULE AutoConnect ----------------------------
(***************************************************************************)
(* PassThruLogger/AutoConnect and the wrappers that drive it.  A client    *)
(* may ask for the battery voltage (READ_VBATT) with a device id where the *)
(* driver wants a channel id; the logger then opens a channel of its own   *)
(* on that device, uses it for every such call, and takes it down when the *)
(* client connects itself or closes the device.                            *)
(*                                                                         *)
(* An action is one call of the driver, one access made without a lock, or *)
(* one critical section together with the driver call inside it.  Device   *)
(* states are named by their device: the client does not close a device,   *)
(* or open it again, while it has other calls on it, so none is freed or   *)
(* replaced in use.                                                        *)
(***************************************************************************)
EXTENDS Integers, FiniteSets

CONSTANTS
    Threads,   \* client threads
    Devices,   \* ids the driver gives to devices
    Numbers,   \* Numbers[d]: ids it gives to channels of device d
    MaxClient, \* channels a client keeps open on one device
    Overlap    \* pairs of operations a client makes at once on one device

AllNumbers == UNION {Numbers[d] : d \in Devices}

ASSUME ConnectAssumption ==
    /\ Numbers \in [Devices -> SUBSET (Nat \ {0})]
    /\ 0 \notin Devices /\ Devices \cap AllNumbers = {}
    /\ MaxClient \in Nat
    /\ Overlap \subseteq {"connect", "disconnect", "read"} \X {"connect", "disconnect", "read"}

VARIABLES
    devs,  \* the driver's open devices
    chans, \* and its open channels, with the side that connected them, and whether
           \* the state of their device was made anew since (history)
    dev,   \* g_devices: the DeviceState of each device
    call,  \* each thread's call
    asked  \* history: the last READ_VBATT that reached the driver

vars == <<devs, chans, dev, call, asked>>

Channel == [id : AllNumbers, dev : Devices, by : {"client", "logger"}, forgotten : BOOLEAN]
NewChannel(i, d, side) == [id |-> i, dev |-> d, by |-> side, forgotten |-> FALSE]

Untracked == [tracked |-> FALSE, injected |-> FALSE, injectedId |-> 0, clientId |-> 0]
Fresh == [tracked |-> TRUE, injected |-> FALSE, injectedId |-> 0, clientId |-> 0]
NoProbe == [d |-> 0, c |-> 0, live |-> TRUE]
NoCall == [pc |-> "idle", op |-> "none", d |-> 0, c |-> 0]

Init ==
    /\ devs = {} /\ chans = {}
    /\ dev = [d \in Devices |-> Untracked]
    /\ call = [t \in Threads |-> NoCall]
    /\ asked = NoProbe

----------------------------------------------------------------------------
\* The client's calls, and the driver under them

Of(d) == {c \in chans : c.dev = d}
Mine(d) == {c \in Of(d) : c.by = "logger"}
Theirs(d) == {c \in Of(d) : c.by = "client"}
Taken == {c.id : c \in chans}

Running(d) == {t \in Threads : call[t].pc # "idle" /\ call[t].d = d}
MayCall(t, op, d) ==
    /\ call[t].pc = "idle"
    /\ \A u \in Running(d) : <<op, call[u].op>> \in Overlap

\* A step of thread t to a next label, which may be its return.
Goto(t, l) == call' = [call EXCEPT ![t].pc = l]
Return(t) == call' = [call EXCEPT ![t] = NoCall]
Call(t, l, op, d, c) == call' = [call EXCEPT ![t] = [pc |-> l, op |-> op, d |-> d, c |-> c]]

\* PassThruOpen: whatever device the driver returns gets a new state, also one
\* that is open and has a state already.
LocalOpen(t, d) ==
    /\ call[t].pc = "idle" /\ \A u \in Running(d) : call[u].op = "open"
    /\ devs' = devs \cup {d}
    /\ Call(t, "track", "open", d, 0)
    /\ UNCHANGED <<chans, dev, asked>>

Forgetting(d) == { [c EXCEPT !.forgotten = @ \/ c.dev = d] : c \in chans }
InitDeviceState(t) ==
    /\ call[t].pc = "track"
    /\ dev' = [dev EXCEPT ![call[t].d] = Fresh]
    /\ chans' = Forgetting(call[t].d)
    /\ Return(t)
    /\ UNCHANGED <<devs, asked>>

\* PassThruClose: CleanupBeforeClose, then the driver's close, which may fail.
CloseCall(t, d) ==
    /\ call[t].pc = "idle" /\ Running(d) = {} /\ d \in devs
    /\ Call(t, IF dev[d].tracked THEN "teardown" ELSE "close", "close", d, 0)
    /\ UNCHANGED <<devs, chans, dev, asked>>

\* What OnClientConnect and CleanupBeforeClose do with an injected channel.
Injected(s) == s.injected /\ s.injectedId # 0
MWithdrawn(s) == [s EXCEPT !.injectedId = 0]
Withdrawn(s) == [s EXCEPT !.injected = FALSE, !.injectedId = 0]
Without(i) == {c \in chans : c.id # i}
Withdraw(d, s) ==
    IF Injected(s)
    THEN chans' = Without(s.injectedId) /\ dev' = [dev EXCEPT ![d] = Withdrawn(s)]
    ELSE dev' = [dev EXCEPT ![d] = s] /\ UNCHANGED chans

MTeardown(t) ==
    /\ call[t].pc = "teardown"
    /\ Goto(t, "destroy")
    /\ UNCHANGED <<devs, chans, dev, asked>>
Teardown(t) ==
    /\ call[t].pc = "teardown"
    /\ Withdraw(call[t].d, dev[call[t].d])
    /\ Goto(t, "destroy")
    /\ UNCHANGED <<devs, asked>>

DestroyDeviceState(t) ==
    /\ call[t].pc = "destroy"
    /\ dev' = [dev EXCEPT ![call[t].d] = Untracked]
    /\ Goto(t, "close")
    /\ UNCHANGED <<devs, chans, asked>>

LocalClose(t) ==
    LET d == call[t].d IN
    /\ call[t].pc = "close"
    /\ \/ devs' = devs \ {d} /\ chans' = chans \ Of(d)
       \/ UNCHANGED <<devs, chans>>
    /\ Return(t)
    /\ UNCHANGED <<dev, asked>>

\* PassThruConnect: when the driver has connected, the state learns of it.
LocalConnect(t, d, i) ==
    /\ MayCall(t, "connect", d) /\ d \in devs
    /\ i \in Numbers[d] \ Taken /\ Cardinality(Theirs(d)) < MaxClient
    /\ chans' = chans \cup {NewChannel(i, d, "client")}
    /\ Call(t, "connected", "connect", d, i)
    /\ UNCHANGED <<devs, dev, asked>>

MConnected(c) == [dev[c.d] EXCEPT !.clientId = c.d]
Connected(c) == [dev[c.d] EXCEPT !.clientId = c.c]
OnClientConnect(t) ==
    LET d == call[t].d IN
    /\ call[t].pc = "connected"
    /\ \/ dev[d].tracked /\ Withdraw(d, Connected(call[t]))
       \/ ~dev[d].tracked /\ UNCHANGED <<chans, dev>>
    /\ Return(t)
    /\ UNCHANGED <<devs, asked>>

\* PassThruDisconnect, of a channel whose id the client has got.
LocalDisconnect(t, d, c) ==
    /\ MayCall(t, "disconnect", d) /\ c \in Theirs(d)
    /\ \A u \in Running(d) : call[u].c # c.id
    /\ chans' = Without(c.id)
    /\ Call(t, "disconnected", "disconnect", d, c.id)
    /\ UNCHANGED <<devs, dev, asked>>

\* Every device whose client channel has this number loses it.
MForget(s, i) == [s EXCEPT !.clientId = 0]
Forget(s, i) == IF s.clientId = i THEN [s EXCEPT !.clientId = 0] ELSE s
OnClientDisconnect(t) ==
    /\ call[t].pc = "disconnected"
    /\ dev' = [d \in Devices |-> Forget(dev[d], call[t].c)]
    /\ Return(t)
    /\ UNCHANGED <<devs, chans, asked>>

----------------------------------------------------------------------------
\* READ_VBATT with a device id: ResolveChannelId, then the driver.  With a
\* channel id it is the driver's call alone and is left out.

\* A device without a state (its close has failed) is passed through.
ReadCall(t, d) ==
    /\ MayCall(t, "read", d) /\ d \in devs
    /\ Call(t, IF dev[d].tracked THEN "resolve" ELSE "ioctl", "read", d, d)
    /\ UNCHANGED <<devs, chans, dev, asked>>

\* clientChannelId is read without the lock.
Resolve(t) ==
    /\ call[t].pc = "resolve"
    /\ Goto(t, IF dev[call[t].d].clientId # 0 THEN "ioctl" ELSE "inject")
    /\ UNCHANGED <<devs, chans, dev, asked>>

\* ensureInjectedChannel: at most one, the driver may refuse.
Needed(s) == ~s.injected
EnsureInjectedChannel(t) ==
    LET d == call[t].d IN
    /\ call[t].pc = "inject"
    /\ \/ ~Needed(dev[d]) /\ Goto(t, "injected") /\ UNCHANGED <<chans, dev>>
       \/ /\ Needed(dev[d])
          /\ \E i \in Numbers[d] \ Taken :
                /\ chans' = chans \cup {NewChannel(i, d, "logger")}
                /\ dev' = [dev EXCEPT ![d].injected = TRUE, ![d].injectedId = i]
          /\ Goto(t, "injected")
       \/ Needed(dev[d]) /\ Goto(t, "ioctl") /\ UNCHANGED <<chans, dev>>
    /\ UNCHANGED <<devs, asked>>

\* injectedChannelId is read without the lock.
Substitute(t) ==
    /\ call[t].pc = "injected"
    /\ call' = [call EXCEPT ![t].pc = "ioctl", ![t].c = dev[call[t].d].injectedId]
    /\ UNCHANGED <<devs, chans, dev, asked>>

LocalIoctl(t) ==
    /\ call[t].pc = "ioctl"
    /\ asked' = [d |-> call[t].d, c |-> call[t].c,
                 live |-> \E c \in Of(call[t].d) : c.id = call[t].c]
    /\ Return(t)
    /\ UNCHANGED <<devs, chans, dev>>

----------------------------------------------------------------------------
Client(t) ==
    \E d \in Devices :
        \/ LocalOpen(t, d) \/ CloseCall(t, d) \/ ReadCall(t, d)
        \/ \E i \in Numbers[d] : LocalConnect(t, d, i)
        \/ \E c \in Theirs(d) : LocalDisconnect(t, d, c)

Logger(t) ==
    \/ InitDeviceState(t) \/ Teardown(t) \/ DestroyDeviceState(t) \/ LocalClose(t)
    \/ OnClientConnect(t) \/ OnClientDisconnect(t)
    \/ Resolve(t) \/ EnsureInjectedChannel(t) \/ Substitute(t) \/ LocalIoctl(t)

Next == \E t \in Threads : Client(t) \/ Logger(t)

Spec == Init /\ [][Next]_vars

----------------------------------------------------------------------------
\* Properties

StateType == [tracked : BOOLEAN, injected : BOOLEAN,
              injectedId : AllNumbers \cup {0}, clientId : AllNumbers \cup {0}]
Pcs == {"idle", "track", "teardown", "destroy", "close", "connected", "disconnected",
        "resolve", "inject", "injected", "ioctl"}

CallType == [pc : Pcs, op : {"none", "open", "close", "connect", "disconnect", "read"},
             d : Devices \cup {0}, c : Devices \cup AllNumbers \cup {0}]

TypeOK ==
    /\ devs \subseteq Devices /\ chans \subseteq Channel
    /\ \A c, e \in chans : c.id = e.id => c = e
    /\ dev \in [Devices -> StateType]
    /\ call \in [Threads -> CallType]

\* The logger never loses a channel but to an open: of the channels it opened on
\* a device since its state was made, there is at most the one the state names,
\* however many probes come at once; and a state that names one names an open one.
InjectedOnce ==
    \A d \in Devices :
        {c.id : c \in {m \in Mine(d) : ~m.forgotten}} =
            IF dev[d].injected THEN {dev[d].injectedId} ELSE {}

\* A client that has connected is alone on its device: the logger's channel is
\* down by the time PassThruConnect returns, and no probe opens another.  Excepted
\* are the channels that an open of the device made its state forget.
NoDoubleConnect ==
    \A d \in Devices : \A c \in Mine(d), e \in Theirs(d) :
        c.forgotten \/ e.forgotten \/ Running(d) # {}

\* A probe whose device id was replaced reaches an open channel of that device:
\* between the injection and the driver's call nothing takes the channel away,
\* though both reads of the state are made without the lock.
ProbesReach == asked.c # asked.d => asked.live

\* Clients and drivers for which the last two hold: no call on a device beside
\* the probes of it, one channel of the client on each, numbers of their own.
ProbesOnly == Overlap \subseteq {<<"read", "read">>}
OneChannel == MaxClient \in {0, 1}
OwnNumbers == \A d, e \in Devices : d # e => Numbers[d] \cap Numbers[e] = {}

\* The driver never closes a device over a channel of the logger, but for one
\* that the device's state was made to forget.
ClosedClean ==
    \A t \in Threads : call[t].pc = "close" => \A c \in Mine(call[t].d) : c.forgotten

\* Without the exception: a device that is opened again while the logger has a
\* channel on it gets a second one with the next probe, and nobody closes the first.
OneInjected == \A d \in Devices : \A c, e \in Mine(d) : c = e

=============================================================================
