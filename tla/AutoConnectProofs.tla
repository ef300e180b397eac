------------------------- MODULE AutoConnectProofs -------------------------
(***************************************************************************)
(* The logger's own channels, for any number of threads and devices, any   *)
(* overlap of probes, connects and disconnects, and any numbering of the   *)
(* driver's channels, ids reused or shared by devices included.  Reach and *)
(* NoDouble are about clients that make no call beside their probes.       *)
(***************************************************************************)
EXTENDS AutoConnect, FiniteSetTheorems, TLAPS

\* Every channel of the logger that no open made forget is the one its device's
\* state names, and back.
Named ==
    /\ \A c \in chans : c.by = "logger" /\ ~c.forgotten =>
          dev[c.dev].injected /\ dev[c.dev].injectedId = c.id
    /\ \A d \in Devices : dev[d].injected =>
          \E c \in chans : c.dev = d /\ c.by = "logger" /\ ~c.forgotten

\* Opens and closes are known by their labels, and a call's device is open.
Placed ==
    \A t \in Threads :
        /\ call[t].pc = "track" <=> call[t].op = "open"
        /\ call[t].pc \in {"teardown", "destroy", "close"} => call[t].op = "close"
        /\ call[t].pc # "idle" => call[t].d \in devs
        /\ call[t].pc = "connected" => call[t].c \in AllNumbers

\* Opens and closes have their device to themselves, but for other opens.
Alone ==
    \A t, u \in Threads :
        (t # u /\ call[t].pc # "idle" /\ call[u].pc # "idle" /\ call[t].d = call[u].d)
            => /\ call[t].op # "close"
               /\ call[t].op = "open" => call[u].op = "open"

\* A device has channels and a state only while it is open, and a state that
\* was destroyed, or is about to be, has nothing left to take down.
Lifetimes ==
    /\ \A c \in chans : c.dev \in devs
    /\ \A d \in Devices : ~dev[d].tracked => ~dev[d].injected
    /\ \A d \in Devices : d \notin devs => ~dev[d].tracked
    /\ \A t \in Threads :
          /\ call[t].pc = "close" => ~dev[call[t].d].tracked
          /\ call[t].pc = "destroy" => ~dev[call[t].d].injected
          /\ call[t].pc \in {"teardown", "resolve", "inject", "injected"} => dev[call[t].d].tracked

ConnectInv == TypeOK /\ Named /\ Placed /\ Alone /\ Lifetimes

----------------------------------------------------------------------------
\* What a step does to the threads' calls

\* Thread t is now at label l of a call of operation op on device d.
Moved(t, l, op, d) ==
    /\ call' \in [Threads -> CallType]
    /\ call'[t].pc = l /\ call'[t].op = op /\ call'[t].d = d
    /\ \A u \in Threads : u # t => call'[u] = call[u]

LEMMA GotoMoves ==
    ASSUME call \in [Threads -> CallType], NEW t \in Threads, NEW l \in Pcs, Goto(t, l)
    PROVE  Moved(t, l, call[t].op, call[t].d) /\ call'[t].c = call[t].c
BY DEF Goto, Moved, CallType

LEMMA ReturnMoves ==
    ASSUME call \in [Threads -> CallType], NEW t \in Threads, Return(t)
    PROVE  Moved(t, "idle", "none", 0)
BY DEF Return, NoCall, Moved, CallType, Pcs

LEMMA SubstituteMoves ==
    ASSUME TypeOK, Placed, NEW t \in Threads, Substitute(t)
    PROVE  Moved(t, "ioctl", call[t].op, call[t].d)
<1>1. call \in [Threads -> CallType] /\ call[t].d \in Devices
    BY DEF TypeOK, Substitute, Placed
<1>2. dev[call[t].d].injectedId \in AllNumbers \cup {0}
    BY <1>1 DEF TypeOK, StateType
<1>3. PICK i \in AllNumbers \cup {0} : call' = [call EXCEPT ![t].pc = "ioctl", ![t].c = i]
    BY <1>2 DEF Substitute
<1>4. [call[t] EXCEPT !.pc = "ioctl", !.c = i] \in CallType
    BY <1>1 DEF CallType, Pcs
<1>5. call' = [call EXCEPT ![t] = [call[t] EXCEPT !.pc = "ioctl", !.c = i]]
    BY <1>3
<1>6. /\ [call[t] EXCEPT !.pc = "ioctl", !.c = i].pc = "ioctl"
      /\ [call[t] EXCEPT !.pc = "ioctl", !.c = i].op = call[t].op
      /\ [call[t] EXCEPT !.pc = "ioctl", !.c = i].d = call[t].d
    BY <1>1 DEF CallType
<1> QED BY <1>1, <1>4, <1>5, <1>6 DEF Moved

LEMMA CallMoves ==
    ASSUME call \in [Threads -> CallType], NEW t \in Threads, NEW l \in Pcs,
           NEW op \in {"open", "close", "connect", "disconnect", "read"},
           NEW d \in Devices, NEW c \in Devices \cup AllNumbers \cup {0}, Call(t, l, op, d, c)
    PROVE  Moved(t, l, op, d) /\ call'[t].c = c
BY DEF Call, Moved, CallType

Closing == {"teardown", "destroy", "close"}
Calm == {"connect", "disconnect", "read"}

\* A call that goes on or returns stays in its place, if its device stays open.
LEMMA GoingOn ==
    ASSUME ConnectInv, NEW t \in Threads, NEW l \in Pcs, NEW op, NEW d, Moved(t, l, op, d),
           call[t].pc # "idle",
           \/ l = "idle" /\ op = "none"
           \/ /\ op = call[t].op /\ d = call[t].d /\ l \notin {"idle", "track", "connected"}
              /\ call[t].pc # "track",
           l \in Closing => op = "close",
           \A u \in Threads : call'[u].pc # "idle" => call[u].d \in devs'
    PROVE  Placed' /\ Alone'
<1>1. Placed'
    BY DEF ConnectInv, Placed, Moved, Closing
<1>2. Alone'
    BY DEF ConnectInv, Alone, Moved
<1> QED BY <1>1, <1>2

\* A call begins: alone on its device, or beside calls that it may overlap.
LEMMA Beginning ==
    ASSUME ConnectInv, NEW t \in Threads, NEW l \in Pcs, NEW op, NEW d, Moved(t, l, op, d),
           call[t].pc = "idle",
           \/ Running(d) = {}
           \/ op \in Calm /\ \A u \in Running(d) : call[u].op \in Calm
           \/ op = "open" /\ \A u \in Running(d) : call[u].op = "open",
           (l = "track") <=> (op = "open"),
           (l \in Closing) <=> (op = "close"),
           l = "connected" => call'[t].c \in AllNumbers,
           d \in devs', devs \subseteq devs'
    PROVE  Placed' /\ Alone'
<1>1. Placed'
    BY DEF ConnectInv, Placed, Moved, Closing
<1>2. Alone'
    BY DEF ConnectInv, Alone, Moved, Running, Calm
<1> QED BY <1>1, <1>2

\* Calls that are made at once on one device are calm.
LEMMA CalmCall ==
    ASSUME NEW t \in Threads, NEW d \in Devices, NEW op \in Calm, MayCall(t, op, d)
    PROVE  call[t].pc = "idle" /\ \A u \in Running(d) : call[u].op \in Calm
BY ConnectAssumption DEF MayCall, Calm

----------------------------------------------------------------------------
\* What the logger does to a device's state

LEMMA NumbersArePositive == 0 \notin AllNumbers
BY ConnectAssumption DEF AllNumbers

\* A new state forgets the channels of its device; they stay what they are.
LEMMA ForgettingThem ==
    ASSUME chans \subseteq Channel, NEW d \in Devices, chans' = Forgetting(d)
    PROVE  /\ chans' \subseteq Channel
           /\ \A c \in chans : c.dev # d => c \in chans'
           /\ \A c \in chans' : c.dev # d => c \in chans
           /\ \A c \in chans' : c.dev = d => c.forgotten
           /\ \A c \in chans' :
                 \E b \in chans : /\ c.id = b.id /\ c.dev = b.dev /\ c.by = b.by
                                  /\ c = [b EXCEPT !.forgotten = @ \/ b.dev = d]
<1> DEFINE f(b) == [b EXCEPT !.forgotten = @ \/ b.dev = d]
<1>1. chans' = {f(b) : b \in chans}
    BY DEF Forgetting
<1>2. ASSUME NEW b \in Channel
      PROVE  /\ f(b) \in Channel /\ f(b).id = b.id /\ f(b).dev = b.dev /\ f(b).by = b.by
             /\ b.dev = d => f(b).forgotten
             /\ b.dev # d => f(b) = b
    BY DEF Channel
<1> HIDE DEF f
<1>3. \A c \in chans' : \E b \in chans : c = f(b)
    BY <1>1
<1>4. ASSUME NEW c \in chans'
      PROVE  /\ c \in Channel
             /\ c.dev # d => c \in chans
             /\ c.dev = d => c.forgotten
             /\ \E b \in chans : c.id = b.id /\ c.dev = b.dev /\ c.by = b.by /\ c = f(b)
    <2>1. PICK b \in chans : c = f(b)
        BY <1>3
    <2>2. b \in Channel
        OBVIOUS
    <2> QED BY <2>1, <2>2, <1>2
<1>5. ASSUME NEW c \in chans, c.dev # d PROVE c \in chans'
    <2>1. c = f(c)
        BY <1>2, <1>5
    <2> QED BY <1>1, <2>1
<1> QED BY <1>4, <1>5 DEF f

LEMMA NewChannels ==
    ASSUME NEW i \in AllNumbers, NEW d \in Devices, NEW side \in {"client", "logger"}
    PROVE  /\ NewChannel(i, d, side) \in Channel
           /\ NewChannel(i, d, side).id = i /\ NewChannel(i, d, side).dev = d
           /\ NewChannel(i, d, side).by = side /\ ~NewChannel(i, d, side).forgotten
BY DEF NewChannel, Channel

\* A state typed as such stays so; a withdrawn one has no channel left.
LEMMA StateChanges ==
    ASSUME NEW s \in StateType, NEW c \in AllNumbers \cup {0}
    PROVE  /\ Withdrawn(s) \in StateType /\ ~Withdrawn(s).injected
           /\ Withdrawn(s).tracked = s.tracked
           /\ [s EXCEPT !.clientId = c] \in StateType
           /\ [s EXCEPT !.clientId = c].injected = s.injected
           /\ [s EXCEPT !.clientId = c].injectedId = s.injectedId
           /\ [s EXCEPT !.clientId = c].tracked = s.tracked
           /\ Fresh \in StateType /\ ~Fresh.injected /\ Fresh.tracked
           /\ Untracked \in StateType /\ ~Untracked.injected /\ ~Untracked.tracked
BY DEF StateType, Withdrawn, Fresh, Untracked

LEMMA Injecting ==
    ASSUME dev \in [Devices -> StateType], NEW d \in Devices, NEW i \in AllNumbers,
           dev' = [dev EXCEPT ![d].injected = TRUE, ![d].injectedId = i]
    PROVE  /\ dev' \in [Devices -> StateType]
           /\ dev'[d].injected /\ dev'[d].injectedId = i
           /\ dev'[d].tracked = dev[d].tracked /\ dev'[d].clientId = dev[d].clientId
           /\ \A e \in Devices : e # d => dev'[e] = dev[e]
BY DEF StateType

LEMMA Forgotten ==
    ASSUME NEW s \in StateType, NEW i
    PROVE  /\ Forget(s, i) \in StateType /\ Forget(s, i).injected = s.injected
           /\ Forget(s, i).injectedId = s.injectedId /\ Forget(s, i).tracked = s.tracked
<1>1. CASE s.clientId = i
    BY <1>1, StateChanges DEF Forget
<1>2. CASE s.clientId # i
    BY <1>2 DEF Forget
<1> QED BY <1>1, <1>2

\* Withdraw takes the channel the state names, and no other.
LEMMA Withdrawing ==
    ASSUME TypeOK, Named, NEW d \in Devices, NEW s \in StateType, dev[d].tracked,
           s.injected <=> dev[d].injected, s.injectedId = dev[d].injectedId,
           s.tracked = dev[d].tracked, Withdraw(d, s)
    PROVE  /\ chans' \subseteq chans /\ dev' \in [Devices -> StateType] /\ Named'
           /\ ~dev'[d].injected /\ dev'[d].tracked
           /\ \A e \in Devices : e # d => dev'[e] = dev[e]
<1> USE DEF TypeOK
<1>1. CASE s.injected
    <2>0. dev[d].injected
        BY <1>1
    <2>1. PICK c \in chans :
              c.dev = d /\ c.by = "logger" /\ c.id = s.injectedId /\ ~c.forgotten
        BY <2>0 DEF Named
    <2>2. c.id # 0
        BY NumbersArePositive DEF Channel
    <2>3. chans' = {e \in chans : e.id # c.id} /\ dev' = [dev EXCEPT ![d] = Withdrawn(s)]
        BY <1>1, <2>1, <2>2 DEF Withdraw, Injected, Without
    <2>4. Withdrawn(s) \in StateType /\ ~Withdrawn(s).injected /\ Withdrawn(s).tracked
        BY StateChanges
    <2>5. \A e \in chans : e.dev = d /\ e.by = "logger" /\ ~e.forgotten => e.id = c.id
        BY <2>1 DEF Named
    <2>6. Named'
        BY <2>1, <2>3, <2>4, <2>5 DEF Named, Channel
    <2> QED BY <2>3, <2>4, <2>6
<1>2. CASE ~s.injected
    <2>1. chans' = chans /\ dev' = [dev EXCEPT ![d] = s]
        BY <1>2 DEF Withdraw, Injected
    <2>2. Named'
        BY <2>1, <1>2 DEF Named, Channel
    <2> QED BY <2>1, <2>2, <1>2
<1> QED BY <1>1, <1>2 DEF StateType

----------------------------------------------------------------------------
\* One lemma for each action

LEMMA OpenKeeps ==
    ASSUME ConnectInv, NEW t \in Threads, NEW d \in Devices, LocalOpen(t, d)
    PROVE  ConnectInv'
<1> USE DEF ConnectInv
<1>1. Moved(t, "track", "open", d)
    BY CallMoves DEF TypeOK, LocalOpen, Pcs
<1>2. TypeOK'
    BY <1>1 DEF TypeOK, LocalOpen, Moved
<1>3. Named'
    BY DEF Named, LocalOpen
<1>4. Placed' /\ Alone'
    BY <1>1, Beginning DEF LocalOpen, Pcs, Closing
<1>5. Lifetimes'
    BY <1>1 DEF Lifetimes, LocalOpen, Running, Moved
<1> QED BY <1>2, <1>3, <1>4, <1>5

LEMMA InitKeeps ==
    ASSUME ConnectInv, NEW t \in Threads, InitDeviceState(t)
    PROVE  ConnectInv'
<1> DEFINE d == call[t].d
<1> USE DEF ConnectInv
<1>0. d \in Devices /\ call[t].op = "open" /\ call[t].pc = "track" /\ d \in devs
    BY DEF Placed, TypeOK, InitDeviceState
<1>1. Moved(t, "idle", "none", 0)
    BY ReturnMoves DEF TypeOK, InitDeviceState
<1>2. /\ dev' \in [Devices -> StateType] /\ ~dev'[d].injected /\ dev'[d].tracked
      /\ \A e \in Devices : e # d => dev'[e] = dev[e]
      /\ devs' = devs /\ chans' = Forgetting(d)
    <2>1. Fresh \in StateType /\ ~Fresh.injected /\ Fresh.tracked
        BY DEF StateType, Fresh
    <2>2. dev \in [Devices -> StateType] /\ dev' = [dev EXCEPT ![d] = Fresh]
        BY DEF InitDeviceState, TypeOK
    <2>3. devs' = devs /\ chans' = Forgetting(d)
        BY DEF InitDeviceState
    <2> QED BY <1>0, <2>1, <2>2, <2>3
<1>21. /\ chans' \subseteq Channel
       /\ \A c \in chans : c.dev # d => c \in chans'
       /\ \A c \in chans' : c.dev # d => c \in chans
       /\ \A c \in chans' : c.dev = d => c.forgotten
       /\ \A c \in chans' :
             \E b \in chans : /\ c.id = b.id /\ c.dev = b.dev /\ c.by = b.by
                              /\ c = [b EXCEPT !.forgotten = @ \/ b.dev = d]
    BY <1>0, <1>2, ForgettingThem DEF TypeOK
<1>3. TypeOK'
    <2>1. ASSUME NEW c \in chans', NEW e \in chans', c.id = e.id PROVE c = e
        <3>1. PICK b \in chans : c.id = b.id /\ c = [b EXCEPT !.forgotten = @ \/ b.dev = d]
            BY <1>21
        <3>2. PICK g \in chans : e.id = g.id /\ e = [g EXCEPT !.forgotten = @ \/ g.dev = d]
            BY <1>21
        <3>3. b = g
            BY <2>1, <3>1, <3>2 DEF TypeOK
        <3> QED BY <3>1, <3>2, <3>3
    <2> QED BY <1>1, <1>2, <1>21, <2>1 DEF TypeOK, Moved
<1>4. Named'
    <2>1. \A c \in chans' : c.dev \in Devices
        BY <1>21 DEF Channel
    <2> QED BY <1>2, <1>21, <2>1 DEF Named
<1>5. Placed' /\ Alone'
    BY <1>0, <1>1, <1>2, GoingOn DEF Pcs, Closing, Placed, Moved
<1>6. \A u \in Threads : u # t /\ call[u].pc # "idle" =>
          \/ call[u].d \in Devices \ {d}
          \/ call[u].d = d /\ call[u].pc = "track"
    BY <1>0 DEF TypeOK, Placed, Alone
<1>7. Lifetimes'
    <2>1. \A e \in Devices : (~dev'[e].tracked => ~dev'[e].injected)
                             /\ (e \notin devs' => ~dev'[e].tracked)
        BY <1>0, <1>2 DEF Lifetimes
    <2>2. \A c \in chans' : c.dev \in devs'
        BY <1>2, <1>21 DEF Lifetimes
    <2>3. ASSUME NEW u \in Threads, u # t, call[u].pc \notin {"idle", "track"}
          PROVE  dev'[call'[u].d] = dev[call[u].d] /\ call'[u] = call[u]
        BY <2>3, <1>1, <1>2, <1>6 DEF Moved
    <2>4. \A u \in Threads : u # t => call'[u] = call[u]
        BY <1>1 DEF Moved
    <2> QED BY <1>1, <2>1, <2>2, <2>3, <2>4 DEF Lifetimes, Moved
<1> QED BY <1>3, <1>4, <1>5, <1>7

LEMMA CloseCallKeeps ==
    ASSUME ConnectInv, NEW t \in Threads, NEW d \in Devices, CloseCall(t, d)
    PROVE  ConnectInv'
<1> DEFINE l == IF dev[d].tracked THEN "teardown" ELSE "close"
<1> USE DEF ConnectInv
<1>1. Moved(t, l, "close", d) /\ l \in Pcs
    BY CallMoves DEF TypeOK, CloseCall, Pcs
<1>2. TypeOK'
    BY <1>1 DEF TypeOK, CloseCall, Moved
<1>3. Named'
    BY DEF Named, CloseCall
<1>4. Placed' /\ Alone'
    BY <1>1, Beginning DEF CloseCall, Closing
<1>5. Lifetimes'
    BY <1>1 DEF Lifetimes, CloseCall, Moved
<1> QED BY <1>2, <1>3, <1>4, <1>5

LEMMA TeardownKeeps ==
    ASSUME ConnectInv, NEW t \in Threads, Teardown(t)
    PROVE  ConnectInv'
<1> DEFINE d == call[t].d
<1> USE DEF ConnectInv
<1>0. /\ call[t].pc = "teardown" /\ call[t].op = "close" /\ d \in devs /\ d \in Devices
      /\ dev[d].tracked /\ dev[d] \in StateType
    BY DEF Placed, TypeOK, Lifetimes, Teardown
<1>1. Moved(t, "destroy", "close", d)
    BY <1>0, GotoMoves DEF TypeOK, Teardown, Pcs
<1>2. Withdraw(d, dev[d]) /\ devs' = devs
    BY DEF Teardown
<1>3. /\ chans' \subseteq chans /\ dev' \in [Devices -> StateType] /\ Named'
      /\ ~dev'[d].injected /\ dev'[d].tracked
      /\ \A e \in Devices : e # d => dev'[e] = dev[e]
    BY <1>0, <1>2, Withdrawing
<1>4. TypeOK'
    BY <1>1, <1>2, <1>3 DEF TypeOK, Moved
<1>5. Placed' /\ Alone'
    BY <1>0, <1>1, <1>2, GoingOn DEF Pcs, Closing, Placed, Moved
<1>6. \A u \in Threads : u # t /\ call[u].pc # "idle" => call[u].d \in Devices \ {d}
    BY <1>0 DEF TypeOK, Placed, Alone
<1>7. Lifetimes'
    BY <1>0, <1>1, <1>2, <1>3, <1>6 DEF Lifetimes, Moved, TypeOK, CallType, Channel
<1> QED BY <1>3, <1>4, <1>5, <1>7

LEMMA DestroyKeeps ==
    ASSUME ConnectInv, NEW t \in Threads, DestroyDeviceState(t)
    PROVE  ConnectInv'
<1> DEFINE d == call[t].d
<1> USE DEF ConnectInv
<1>0. /\ call[t].pc = "destroy" /\ call[t].op = "close" /\ d \in devs /\ d \in Devices
      /\ ~dev[d].injected
    BY DEF Placed, TypeOK, Lifetimes, DestroyDeviceState
<1>1. Moved(t, "close", "close", d)
    BY <1>0, GotoMoves DEF TypeOK, DestroyDeviceState, Pcs
<1>2. /\ dev' \in [Devices -> StateType] /\ ~dev'[d].injected /\ ~dev'[d].tracked
      /\ \A e \in Devices : e # d => dev'[e] = dev[e]
      /\ devs' = devs /\ chans' = chans
    <2>1. Untracked \in StateType /\ ~Untracked.injected /\ ~Untracked.tracked
        BY DEF StateType, Untracked
    <2>2. dev \in [Devices -> StateType] /\ dev' = [dev EXCEPT ![d] = Untracked]
        BY DEF DestroyDeviceState, TypeOK
    <2>3. devs' = devs /\ chans' = chans
        BY DEF DestroyDeviceState
    <2> QED BY <1>0, <2>1, <2>2, <2>3
<1>3. TypeOK'
    BY <1>1, <1>2 DEF TypeOK, Moved
<1>4. Named'
    BY <1>0, <1>2 DEF Named, TypeOK, Channel
<1>5. Placed' /\ Alone'
    BY <1>0, <1>1, <1>2, GoingOn DEF Pcs, Closing, Placed, Moved
<1>6. \A u \in Threads : u # t /\ call[u].pc # "idle" => call[u].d \in Devices \ {d}
    BY <1>0 DEF TypeOK, Placed, Alone
<1>7. Lifetimes'
    BY <1>0, <1>1, <1>2, <1>6 DEF Lifetimes, Moved, TypeOK, CallType, Channel
<1> QED BY <1>3, <1>4, <1>5, <1>7

LEMMA CloseKeeps ==
    ASSUME ConnectInv, NEW t \in Threads, LocalClose(t)
    PROVE  ConnectInv'
<1> DEFINE d == call[t].d
<1> USE DEF ConnectInv
<1>0. /\ call[t].pc = "close" /\ call[t].op = "close" /\ d \in devs /\ d \in Devices
      /\ ~dev[d].tracked /\ ~dev[d].injected
    BY DEF Placed, TypeOK, Lifetimes, LocalClose
<1>1. Moved(t, "idle", "none", 0)
    BY ReturnMoves DEF TypeOK, LocalClose
<1>2. /\ dev' = dev
      /\ \/ devs' = devs \ {d} /\ chans' = {c \in chans : c.dev # d}
         \/ devs' = devs /\ chans' = chans
    BY DEF LocalClose, Of
<1>3. TypeOK'
    BY <1>1, <1>2 DEF TypeOK, Moved
<1>4. Named'
    BY <1>0, <1>2 DEF Named
<1>6. \A u \in Threads : u # t /\ call[u].pc # "idle" => call[u].d \in Devices \ {d}
    BY <1>0 DEF TypeOK, Placed, Alone
<1>5. Placed' /\ Alone'
    BY <1>0, <1>1, <1>2, <1>6, GoingOn DEF Pcs, Closing, Placed, Moved
<1>7. Lifetimes'
    BY <1>0, <1>1, <1>2 DEF Lifetimes, Moved
<1> QED BY <1>3, <1>4, <1>5, <1>7

LEMMA ConnectKeeps ==
    ASSUME ConnectInv, NEW t \in Threads, NEW d \in Devices, NEW i \in Numbers[d],
           LocalConnect(t, d, i)
    PROVE  ConnectInv'
<1> USE DEF ConnectInv
<1>0. /\ MayCall(t, "connect", d) /\ d \in devs /\ i \in AllNumbers /\ i \notin Taken
      /\ devs' = devs /\ dev' = dev
      /\ chans' = chans \cup {NewChannel(i, d, "client")}
    BY DEF LocalConnect, AllNumbers
<1>n. /\ NewChannel(i, d, "client") \in Channel
      /\ NewChannel(i, d, "client").id = i /\ NewChannel(i, d, "client").dev = d
      /\ NewChannel(i, d, "client").by = "client"
    BY <1>0, NewChannels
<1>1. Moved(t, "connected", "connect", d) /\ call'[t].c = i
    BY <1>0, CallMoves DEF TypeOK, LocalConnect, Pcs
<1>2. TypeOK'
    BY <1>0, <1>n, <1>1 DEF TypeOK, Moved, Taken
<1>3. Named'
    BY <1>0, <1>n DEF Named
<1>4. Placed' /\ Alone'
    BY <1>0, <1>1, CalmCall, Beginning DEF Pcs, Closing, Calm
<1>5. Lifetimes'
    BY <1>0, <1>n, <1>1 DEF Lifetimes, Moved
<1> QED BY <1>2, <1>3, <1>4, <1>5

LEMMA OnConnectKeeps ==
    ASSUME ConnectInv, NEW t \in Threads, OnClientConnect(t)
    PROVE  ConnectInv'
<1> DEFINE d == call[t].d
<1> DEFINE s == Connected(call[t])
<1> USE DEF ConnectInv
<1>0. call[t].pc = "connected" /\ d \in devs /\ d \in Devices /\ devs' = devs
    BY DEF Placed, TypeOK, OnClientConnect
<1>1. Moved(t, "idle", "none", 0)
    BY ReturnMoves DEF TypeOK, OnClientConnect
<1>2. Placed' /\ Alone'
    BY <1>0, <1>1, GoingOn DEF Pcs, Closing, Placed, Moved
<1>3. CASE dev[d].tracked
    <2>1. Withdraw(d, s)
        BY <1>3 DEF OnClientConnect
    <2>2. /\ s \in StateType /\ s.injected = dev[d].injected
          /\ s.injectedId = dev[d].injectedId /\ s.tracked = dev[d].tracked
        <3>1. dev[d] \in StateType /\ call[t].c \in AllNumbers
            BY <1>0 DEF TypeOK, Placed
        <3>2. s = [dev[d] EXCEPT !.clientId = call[t].c]
            BY DEF Connected
        <3> HIDE DEF s
        <3> QED BY <3>1, <3>2, StateChanges
    <2>3. /\ chans' \subseteq chans /\ dev' \in [Devices -> StateType] /\ Named'
          /\ ~dev'[d].injected /\ dev'[d].tracked
          /\ \A e \in Devices : e # d => dev'[e] = dev[e]
        BY <1>0, <1>3, <2>1, <2>2, Withdrawing
    <2>4. TypeOK'
        BY <1>0, <1>1, <2>3 DEF TypeOK, Moved
    <2>5. Lifetimes'
        BY <1>0, <1>1, <1>3, <2>3 DEF Lifetimes, Moved, TypeOK, Placed
    <2> QED BY <1>2, <2>3, <2>4, <2>5
<1>4. CASE ~dev[d].tracked
    <2>1. chans' = chans /\ dev' = dev
        BY <1>4 DEF OnClientConnect
    <2>2. TypeOK' /\ Named'
        BY <1>0, <1>1, <2>1 DEF TypeOK, Named, Moved
    <2>3. Lifetimes'
        BY <1>0, <1>1, <2>1 DEF Lifetimes, Moved
    <2> QED BY <1>2, <2>2, <2>3
<1> QED BY <1>3, <1>4

LEMMA DisconnectKeeps ==
    ASSUME ConnectInv, NEW t \in Threads, NEW d \in Devices, NEW c \in Theirs(d),
           LocalDisconnect(t, d, c)
    PROVE  ConnectInv'
<1> USE DEF ConnectInv
<1>0. /\ MayCall(t, "disconnect", d) /\ c \in chans /\ c.dev = d /\ c.by = "client"
      /\ devs' = devs /\ dev' = dev /\ chans' = {e \in chans : e.id # c.id}
      /\ c.id \in AllNumbers /\ d \in devs
    BY DEF LocalDisconnect, Theirs, Of, Without, TypeOK, Channel, Lifetimes
<1>1. Moved(t, "disconnected", "disconnect", d)
    BY <1>0, CallMoves DEF TypeOK, LocalDisconnect, Pcs
<1>2. TypeOK'
    BY <1>0, <1>1 DEF TypeOK, Moved
<1>3. Named'
    BY <1>0 DEF Named, TypeOK
<1>4. Placed' /\ Alone'
    BY <1>0, <1>1, CalmCall, Beginning DEF Pcs, Closing, Calm
<1>5. Lifetimes'
    BY <1>0, <1>1 DEF Lifetimes, Moved
<1> QED BY <1>2, <1>3, <1>4, <1>5

LEMMA OnDisconnectKeeps ==
    ASSUME ConnectInv, NEW t \in Threads, OnClientDisconnect(t)
    PROVE  ConnectInv'
<1> USE DEF ConnectInv
<1>0. call[t].pc = "disconnected" /\ devs' = devs /\ chans' = chans
    BY DEF OnClientDisconnect
<1>1. Moved(t, "idle", "none", 0)
    BY ReturnMoves DEF TypeOK, OnClientDisconnect
<1>2. Placed' /\ Alone'
    BY <1>0, <1>1, GoingOn DEF Pcs, Closing, Placed, Moved
<1>3. dev' = [e \in Devices |-> Forget(dev[e], call[t].c)]
    BY DEF OnClientDisconnect
<1>4. \A e \in Devices :
          /\ Forget(dev[e], call[t].c) \in StateType
          /\ Forget(dev[e], call[t].c).injected = dev[e].injected
          /\ Forget(dev[e], call[t].c).injectedId = dev[e].injectedId
          /\ Forget(dev[e], call[t].c).tracked = dev[e].tracked
    BY Forgotten DEF TypeOK
<1>5. TypeOK'
    BY <1>0, <1>1, <1>3, <1>4 DEF TypeOK, Moved
<1>6. Named'
    BY <1>0, <1>3, <1>4 DEF Named, TypeOK, Channel
<1>7. Lifetimes'
    BY <1>0, <1>1, <1>3, <1>4 DEF Lifetimes, Moved, TypeOK, Placed
<1> QED BY <1>2, <1>5, <1>6, <1>7

LEMMA ReadKeeps ==
    ASSUME ConnectInv, NEW t \in Threads, NEW d \in Devices, ReadCall(t, d)
    PROVE  ConnectInv'
<1> DEFINE l == IF dev[d].tracked THEN "resolve" ELSE "ioctl"
<1> USE DEF ConnectInv
<1>0. MayCall(t, "read", d) /\ d \in devs /\ UNCHANGED <<devs, chans, dev>>
    BY DEF ReadCall
<1>1. Moved(t, l, "read", d) /\ l \in Pcs
    BY <1>0, CallMoves DEF TypeOK, ReadCall, Pcs
<1>2. TypeOK' /\ Named'
    BY <1>0, <1>1 DEF TypeOK, Named, Moved
<1>3. Placed' /\ Alone'
    BY <1>0, <1>1, CalmCall, Beginning DEF Closing, Calm
<1>4. Lifetimes'
    BY <1>0, <1>1 DEF Lifetimes, Moved
<1> QED BY <1>2, <1>3, <1>4

\* The steps of a probe that change no channel and no device state.
LEMMA ProbeKeeps ==
    ASSUME ConnectInv, NEW t \in Threads, NEW l \in Pcs, NEW op, NEW d,
           call[t].pc \in {"resolve", "inject", "injected", "ioctl"},
           UNCHANGED <<devs, chans, dev>>, Moved(t, l, op, d),
           \/ l = "idle" /\ op = "none"
           \/ l = "ioctl" /\ op = call[t].op /\ d = call[t].d
           \/ /\ call[t].pc # "ioctl" /\ l \in {"inject", "injected"}
              /\ op = call[t].op /\ d = call[t].d
    PROVE  ConnectInv'
<1> USE DEF ConnectInv
<1>1. TypeOK' /\ Named'
    BY DEF TypeOK, Named, Moved
<1>2. Placed' /\ Alone'
    BY GoingOn DEF Closing, Placed, Moved
<1>3. Lifetimes'
    BY DEF Lifetimes, Moved
<1> QED BY <1>1, <1>2, <1>3

LEMMA InjectKeeps ==
    ASSUME ConnectInv, NEW t \in Threads, EnsureInjectedChannel(t)
    PROVE  ConnectInv'
<1> DEFINE d == call[t].d
<1> USE DEF ConnectInv
<1>0. /\ call[t].pc = "inject" /\ d \in devs /\ d \in Devices /\ dev[d].tracked
      /\ devs' = devs
    BY DEF EnsureInjectedChannel, Placed, Lifetimes, TypeOK
<1>1. CASE UNCHANGED <<chans, dev>> /\ (Goto(t, "injected") \/ Goto(t, "ioctl"))
    BY <1>0, <1>1, GotoMoves, ProbeKeeps DEF TypeOK, Pcs
<1>2. ASSUME NEW i \in Numbers[d] \ Taken, ~dev[d].injected, Goto(t, "injected"),
             chans' = chans \cup {NewChannel(i, d, "logger")},
             dev' = [dev EXCEPT ![d].injected = TRUE, ![d].injectedId = i]
      PROVE  ConnectInv'
    <2>1. Moved(t, "injected", call[t].op, d)
        BY <1>2, GotoMoves DEF TypeOK, Pcs
    <2>2. i \in AllNumbers
        BY <1>0 DEF AllNumbers
    <2>n. /\ NewChannel(i, d, "logger") \in Channel
          /\ NewChannel(i, d, "logger").id = i /\ NewChannel(i, d, "logger").dev = d
          /\ NewChannel(i, d, "logger").by = "logger" /\ ~NewChannel(i, d, "logger").forgotten
        BY <1>0, <2>2, NewChannels
    <2>3. /\ dev' \in [Devices -> StateType] /\ dev'[d].injected
          /\ dev'[d].injectedId = i /\ dev'[d].tracked
          /\ \A e \in Devices : e # d => dev'[e] = dev[e]
        <3>1. dev \in [Devices -> StateType]
            BY DEF TypeOK
        <3> QED BY <1>0, <1>2, <2>2, <3>1, Injecting
    <2>4. TypeOK'
        BY <1>0, <1>2, <2>1, <2>n, <2>3 DEF TypeOK, Moved, Taken
    <2>5. Named'
        <3>1. \A c \in chans : c.by = "logger" /\ ~c.forgotten => c.dev # d
            BY <1>2 DEF Named
        <3>2. \A c \in chans' : c.by = "logger" /\ ~c.forgotten =>
                 dev'[c.dev].injected /\ dev'[c.dev].injectedId = c.id
            BY <1>2, <2>n, <2>3, <3>1 DEF Named, TypeOK, Channel
        <3>3. \A e \in Devices : dev'[e].injected =>
                 \E c \in chans' : c.dev = e /\ c.by = "logger" /\ ~c.forgotten
            <4> SUFFICES ASSUME NEW e \in Devices, dev'[e].injected
                         PROVE  \E c \in chans' : c.dev = e /\ c.by = "logger" /\ ~c.forgotten
                OBVIOUS
            <4>1. CASE e = d
                <5>1. NewChannel(i, d, "logger") \in chans'
                    BY <1>2
                <5> QED BY <4>1, <5>1, <2>n
            <4>2. CASE e # d
                BY <1>2, <2>3, <4>2 DEF Named
            <4> QED BY <4>1, <4>2
        <3> QED BY <3>2, <3>3 DEF Named
    <2>6. Placed' /\ Alone'
        BY <1>0, <2>1, GoingOn DEF Pcs, Closing, Placed, Moved
    <2>7. Lifetimes'
        <3>1. \A u \in Threads : u # t /\ call[u].pc # "idle" =>
                 /\ call'[u] = call[u] /\ call[u].d \in Devices
                 /\ call[u].pc = "destroy" => call[u].d # d
            BY <1>0, <2>1 DEF Moved, TypeOK, Placed, Alone
        <3>2. \A c \in chans' : c.dev \in devs'
            BY <1>0, <1>2, <2>n DEF Lifetimes
        <3>3. \A e \in Devices : (~dev'[e].tracked => ~dev'[e].injected)
                                 /\ (e \notin devs' => ~dev'[e].tracked)
            BY <1>0, <2>3 DEF Lifetimes
        <3>4. \A u \in Threads :
                 /\ call'[u].pc = "close" => ~dev'[call'[u].d].tracked
                 /\ call'[u].pc = "destroy" => ~dev'[call'[u].d].injected
                 /\ call'[u].pc \in {"teardown", "resolve", "inject", "injected"} =>
                        dev'[call'[u].d].tracked
            <4> SUFFICES ASSUME NEW u \in Threads
                         PROVE  /\ call'[u].pc = "close" => ~dev'[call'[u].d].tracked
                                /\ call'[u].pc = "destroy" => ~dev'[call'[u].d].injected
                                /\ call'[u].pc \in {"teardown", "resolve", "inject", "injected"} =>
                                       dev'[call'[u].d].tracked
                OBVIOUS
            <4>1. CASE u = t
                BY <1>0, <2>1, <2>3, <4>1 DEF Moved
            <4>2. CASE u # t
                <5>1. call'[u] = call[u]
                    BY <2>1, <4>2 DEF Moved
                <5>2. CASE call[u].pc = "idle"
                    BY <5>1, <5>2
                <5>3. CASE call[u].pc # "idle" /\ call[u].d = d
                    BY <1>0, <2>3, <3>1, <4>2, <5>1, <5>3 DEF Lifetimes
                <5>4. CASE call[u].pc # "idle" /\ call[u].d # d
                    <6>1. dev'[call[u].d] = dev[call[u].d]
                        BY <2>3, <3>1, <4>2, <5>4
                    <6> QED BY <5>1, <6>1 DEF Lifetimes
                <5> QED BY <5>2, <5>3, <5>4
            <4> QED BY <4>1, <4>2
        <3> QED BY <3>2, <3>3, <3>4 DEF Lifetimes
    <2> QED BY <2>4, <2>5, <2>6, <2>7
<1> QED BY <1>1, <1>2 DEF EnsureInjectedChannel, Needed

LEMMA Initially == Init => ConnectInv
<1> SUFFICES ASSUME Init PROVE ConnectInv
    OBVIOUS
<1>1. dev = [d \in Devices |-> Untracked] /\ call = [t \in Threads |-> NoCall]
      /\ devs = {} /\ chans = {}
    BY DEF Init
<1>2. Untracked \in StateType /\ ~Untracked.injected /\ ~Untracked.tracked
    BY DEF Untracked, StateType
<1>3. NoCall \in CallType /\ NoCall.pc = "idle"
    BY DEF NoCall, CallType, Pcs
<1>4. TypeOK /\ Named
    BY <1>1, <1>2, <1>3 DEF TypeOK, Named
<1>5. Placed /\ Alone /\ Lifetimes
    <2>1. \A t \in Threads : call[t].pc = "idle" /\ call[t].op = "none"
        BY <1>1 DEF NoCall
    <2> QED BY <1>1, <1>2, <2>1 DEF Placed, Alone, Lifetimes
<1> QED BY <1>4, <1>5 DEF ConnectInv

LEMMA StepKeeps == ConnectInv /\ [Next]_vars => ConnectInv'
<1> SUFFICES ASSUME ConnectInv, [Next]_vars PROVE ConnectInv'
    OBVIOUS
<1>1. CASE UNCHANGED vars
    BY <1>1 DEF vars, ConnectInv, TypeOK, Named, Placed, Alone, Lifetimes
<1>2. ASSUME NEW t \in Threads, Client(t) PROVE ConnectInv'
    BY <1>2, OpenKeeps, CloseCallKeeps, ReadKeeps, ConnectKeeps, DisconnectKeeps DEF Client
<1>3. ASSUME NEW t \in Threads, Resolve(t) PROVE ConnectInv'
    BY <1>3, GotoMoves, ProbeKeeps DEF Resolve, ConnectInv, TypeOK, Pcs
<1>4. ASSUME NEW t \in Threads, Substitute(t) PROVE ConnectInv'
    <2>1. Moved(t, "ioctl", call[t].op, call[t].d)
        BY <1>4, SubstituteMoves DEF ConnectInv
    <2> QED BY <1>4, <2>1, ProbeKeeps DEF Substitute, Pcs
<1>5. ASSUME NEW t \in Threads, LocalIoctl(t) PROVE ConnectInv'
    BY <1>5, ReturnMoves, ProbeKeeps DEF LocalIoctl, ConnectInv, TypeOK, Pcs
<1>6. ASSUME NEW t \in Threads, Logger(t) PROVE ConnectInv'
    BY <1>3, <1>4, <1>5, <1>6, InitKeeps, TeardownKeeps, DestroyKeeps, CloseKeeps,
       OnConnectKeeps, OnDisconnectKeeps, InjectKeeps DEF Logger
<1> QED BY <1>1, <1>2, <1>6 DEF Next

----------------------------------------------------------------------------
\* The inductive invariant holds: what the logger opened since a device's last
\* open and what the device's state names agree, and calls keep to their places
\* (AutoConnect.cpp 56-185).
THEOREM ConnectInvariant == Spec => []ConnectInv
<1>1. Init => ConnectInv
    BY Initially
<1>2. ConnectInv /\ [Next]_vars => ConnectInv'
    BY StepKeeps
<1> QED BY <1>1, <1>2, PTL DEF Spec

\* Types, and the driver's ids as unique as the state relies on.
THEOREM TypeCorrect == Spec => []TypeOK
<1>1. ConnectInv => TypeOK
    BY DEF ConnectInv
<1> QED BY <1>1, ConnectInvariant, PTL

\* However many threads probe a device at once, and whatever connects and
\* disconnects beside them, the logger opens at most one channel on it and
\* loses it only to an open of the same device, which makes the state anew
\* (ensureInjectedChannel, AutoConnect.cpp 99-115; InitDeviceState, 56-69).
THEOREM Once == Spec => []InjectedOnce
<1>1. ConnectInv => InjectedOnce
    BY DEF ConnectInv, Named, TypeOK, InjectedOnce, Mine, Of, Channel
<1> QED BY <1>1, ConnectInvariant, PTL

\* The driver is asked to close a device only after the logger's channel on it
\* is down, but for one that an open of the device made the state forget
\* (CleanupBeforeClose, AutoConnect.cpp 172-185).
THEOREM Clean == Spec => []ClosedClean
<1>1. ConnectInv => ClosedClean
    BY DEF ConnectInv, Named, Lifetimes, Placed, TypeOK, ClosedClean, Mine, Of
<1> QED BY <1>1, ConnectInvariant, PTL

----------------------------------------------------------------------------
\* ProbesOnly: a call that connects, disconnects, opens or closes has its
\* device to itself, but for opens at once.

Probing == {"resolve", "inject", "injected", "ioctl"}
Solo ==
    /\ \A t \in Threads :
          /\ call[t].pc \in Probing => call[t].op = "read"
          /\ call[t].pc = "connected" => call[t].op = "connect"
          /\ call[t].pc = "disconnected" => call[t].op = "disconnect"
    /\ \A t, u \in Threads :
          (t # u /\ call[t].pc # "idle" /\ call[u].pc # "idle" /\ call[t].d = call[u].d)
              => call[t].op = call[u].op /\ call[t].op \in {"read", "open"}

\* What a probe carries: the device's id, or that of the channel on it.
Carried ==
    /\ \A t \in Threads :
          /\ call[t].pc \in {"resolve", "inject"} => call[t].c = call[t].d
          /\ call[t].pc = "injected" => dev[call[t].d].injected
          /\ call[t].pc = "ioctl" /\ call[t].c # call[t].d =>
                \E c \in chans : c.dev = call[t].d /\ c.id = call[t].c /\ c.by = "logger"
    /\ ProbesReach

ProbeInv == ConnectInv /\ Solo /\ Carried

LEMMA SoloOn ==
    ASSUME Solo, NEW t \in Threads, NEW l \in Pcs, NEW op, NEW d, Moved(t, l, op, d),
           call[t].pc # "idle",
           \/ l = "idle"
           \/ /\ op = call[t].op /\ d = call[t].d /\ l \notin {"connected", "disconnected"}
              /\ l \in Probing => call[t].pc \in Probing
    PROVE  Solo'
BY DEF Solo, Moved, Probing

LEMMA SoloBegins ==
    ASSUME Solo, NEW t \in Threads, NEW l \in Pcs, NEW op, NEW d, Moved(t, l, op, d),
           \/ Running(d) = {}
           \/ op \in {"read", "open"} /\ \A u \in Running(d) : call[u].op = op,
           l \in Probing => op = "read", l = "connected" => op = "connect",
           l = "disconnected" => op = "disconnect"
    PROVE  Solo'
BY DEF Solo, Moved, Probing, Running

LEMMA ProbesAlone ==
    ASSUME ProbesOnly, NEW t \in Threads, NEW d \in Devices,
           NEW op \in Calm, MayCall(t, op, d)
    PROVE  /\ call[t].pc = "idle"
           /\ \/ Running(d) = {}
              \/ op = "read" /\ \A u \in Running(d) : call[u].op = "read"
BY DEF MayCall, Calm, ProbesOnly

\* A call that is no probe and no open is the only one on its device.
LEMMA NobodyElse ==
    ASSUME ConnectInv, Solo, NEW t \in Threads, call[t].pc \notin {"idle", "track"} \cup Probing
    PROVE  \A u \in Threads : u # t /\ call[u].pc # "idle" => call[u].d # call[t].d
BY DEF ConnectInv, Placed, TypeOK, CallType, Pcs, Solo, Probing

LEMMA SoloKept ==
    ASSUME ProbesOnly, ConnectInv, Solo, Next
    PROVE  Solo'
<1>0. call \in [Threads -> CallType]
    BY DEF ConnectInv, TypeOK
<1>1. ASSUME NEW t \in Threads, NEW d \in Devices, LocalOpen(t, d) PROVE Solo'
    BY <1>0, <1>1, CallMoves, SoloBegins DEF LocalOpen, Pcs, Probing
<1>2. ASSUME NEW t \in Threads, NEW d \in Devices, CloseCall(t, d) PROVE Solo'
    <2>1. PICK l \in {"teardown", "close"} : Call(t, l, "close", d, 0) /\ Running(d) = {}
        BY <1>2 DEF CloseCall
    <2> QED BY <1>0, <2>1, CallMoves, SoloBegins DEF Pcs, Probing
<1>3. ASSUME NEW t \in Threads, NEW d \in Devices, ReadCall(t, d) PROVE Solo'
    <2>1. PICK l \in {"resolve", "ioctl"} : Call(t, l, "read", d, d) /\ MayCall(t, "read", d)
        BY <1>3 DEF ReadCall
    <2>2. Moved(t, l, "read", d)
        BY <1>0, <2>1, CallMoves DEF Pcs
    <2> QED BY <2>1, <2>2, ProbesAlone, SoloBegins DEF Pcs, Probing, Calm
<1>4. ASSUME NEW t \in Threads, NEW d \in Devices, NEW i \in Numbers[d], LocalConnect(t, d, i)
      PROVE  Solo'
    <2>1. Call(t, "connected", "connect", d, i) /\ MayCall(t, "connect", d) /\ i \in AllNumbers
        BY <1>4 DEF LocalConnect, AllNumbers
    <2>2. Moved(t, "connected", "connect", d)
        BY <1>0, <2>1, CallMoves DEF Pcs
    <2> QED BY <2>1, <2>2, ProbesAlone, SoloBegins DEF Pcs, Probing, Calm
<1>5. ASSUME NEW t \in Threads, NEW d \in Devices, NEW c \in Theirs(d), LocalDisconnect(t, d, c)
      PROVE  Solo'
    <2>1. /\ Call(t, "disconnected", "disconnect", d, c.id) /\ MayCall(t, "disconnect", d)
          /\ c.id \in AllNumbers
        BY <1>5 DEF LocalDisconnect, Theirs, Of, ConnectInv, TypeOK, Channel
    <2>2. Moved(t, "disconnected", "disconnect", d)
        BY <1>0, <2>1, CallMoves DEF Pcs
    <2> QED BY <2>1, <2>2, ProbesAlone, SoloBegins DEF Pcs, Probing, Calm
<1>6. ASSUME NEW t \in Threads,
             InitDeviceState(t) \/ LocalClose(t) \/ OnClientConnect(t) \/ OnClientDisconnect(t)
             \/ LocalIoctl(t)
      PROVE  Solo'
    <2>1. Return(t) /\ call[t].pc # "idle"
        BY <1>6 DEF InitDeviceState, LocalClose, OnClientConnect, OnClientDisconnect, LocalIoctl
    <2>2. Moved(t, "idle", "none", 0)
        BY <1>0, <2>1, ReturnMoves
    <2> QED BY <2>1, <2>2, SoloOn DEF Pcs
<1>7. ASSUME NEW t \in Threads, Teardown(t) \/ DestroyDeviceState(t) PROVE Solo'
    <2>1. PICK l \in {"destroy", "close"} : Goto(t, l) /\ call[t].pc # "idle"
        BY <1>7 DEF Teardown, DestroyDeviceState
    <2>2. Moved(t, l, call[t].op, call[t].d)
        BY <1>0, <2>1, GotoMoves DEF Pcs
    <2> QED BY <2>1, <2>2, SoloOn DEF Pcs, Probing
<1>8. ASSUME NEW t \in Threads, Resolve(t) \/ EnsureInjectedChannel(t) PROVE Solo'
    <2>1. PICK l \in Probing : Goto(t, l) /\ call[t].pc \in Probing
        BY <1>8 DEF Resolve, EnsureInjectedChannel, Probing
    <2>2. Moved(t, l, call[t].op, call[t].d)
        BY <1>0, <2>1, GotoMoves DEF Pcs, Probing
    <2> QED BY <2>1, <2>2, SoloOn DEF Pcs, Probing
<1>9. ASSUME NEW t \in Threads, Substitute(t) PROVE Solo'
    BY <1>9, SubstituteMoves, SoloOn DEF ConnectInv, Substitute, Pcs, Probing
<1> QED
    BY <1>1, <1>2, <1>3, <1>4, <1>5, <1>6, <1>7, <1>8, <1>9 DEF Next, Client, Logger

\* A step of thread t leaves what the other threads carry if it takes neither
\* their channel nor the state's mark of it.
LEMMA CarriedOn ==
    ASSUME ConnectInv, Carried, NEW t \in Threads, NEW l, NEW op, NEW d, Moved(t, l, op, d),
           \A u \in Threads : u # t /\ call[u].pc = "injected" =>
               (dev[call[u].d].injected => dev'[call[u].d].injected),
           \A u \in Threads : u # t /\ call[u].pc = "ioctl" =>
               \A c \in chans : c.dev = call[u].d /\ c.by = "logger" => c \in chans',
           l \in {"resolve", "inject"} => call'[t].c = d,
           l = "injected" => dev'[d].injected,
           l = "ioctl" /\ call'[t].c # d =>
               \E c \in chans' : c.dev = d /\ c.id = call'[t].c /\ c.by = "logger",
           ProbesReach'
    PROVE  Carried'
BY DEF Carried, Moved

LEMMA CarriedKept ==
    ASSUME ProbesOnly, ProbeInv, Next
    PROVE  Carried'
<1> USE DEF ProbeInv
<1>0. call \in [Threads -> CallType]
    BY DEF ConnectInv, TypeOK
<1>a. ProbesReach' \/ asked' # asked
    BY DEF Carried, ProbesReach
<1>1. ASSUME NEW t \in Threads, NEW d \in Devices, LocalOpen(t, d) PROVE Carried'
    <2>1. Moved(t, "track", "open", d) /\ UNCHANGED <<chans, dev, asked>>
        BY <1>0, <1>1, CallMoves DEF LocalOpen, Pcs
    <2> QED BY <2>1, <1>a, CarriedOn
<1>2. ASSUME NEW t \in Threads, NEW d \in Devices, CloseCall(t, d) PROVE Carried'
    <2>1. PICK l \in {"teardown", "close"} : Call(t, l, "close", d, 0)
        BY <1>2 DEF CloseCall
    <2>2. Moved(t, l, "close", d) /\ UNCHANGED <<chans, dev, asked>>
        BY <1>0, <1>2, <2>1, CallMoves DEF Pcs, CloseCall
    <2> QED BY <2>2, <1>a, CarriedOn
<1>3. ASSUME NEW t \in Threads, NEW d \in Devices, ReadCall(t, d) PROVE Carried'
    <2>1. PICK l \in {"resolve", "ioctl"} : Call(t, l, "read", d, d)
        BY <1>3 DEF ReadCall
    <2>2. Moved(t, l, "read", d) /\ call'[t].c = d /\ UNCHANGED <<chans, dev, asked>>
        BY <1>0, <1>3, <2>1, CallMoves DEF Pcs, ReadCall
    <2> QED BY <2>2, <1>a, CarriedOn
<1>4. ASSUME NEW t \in Threads, NEW d \in Devices, NEW i \in Numbers[d], LocalConnect(t, d, i)
      PROVE  Carried'
    <2>1. Moved(t, "connected", "connect", d)
        BY <1>0, <1>4, CallMoves DEF LocalConnect, AllNumbers, Pcs
    <2>2. chans \subseteq chans' /\ UNCHANGED <<dev, asked>>
        BY <1>4 DEF LocalConnect
    <2> QED BY <2>1, <2>2, <1>a, CarriedOn
<1>5. ASSUME NEW t \in Threads, NEW d \in Devices, NEW c \in Theirs(d), LocalDisconnect(t, d, c)
      PROVE  Carried'
    <2>1. /\ c \in chans /\ c.by = "client" /\ c.id \in AllNumbers
          /\ chans' = Without(c.id) /\ UNCHANGED <<dev, asked>>
        BY <1>5 DEF LocalDisconnect, Theirs, Of, ConnectInv, TypeOK, Channel
    <2>2. Moved(t, "disconnected", "disconnect", d)
        BY <1>0, <1>5, <2>1, CallMoves DEF LocalDisconnect, Pcs
    <2>3. \A e \in chans : e.by = "logger" => e \in chans'
        BY <2>1 DEF Without, ConnectInv, TypeOK
    <2> QED BY <2>1, <2>2, <2>3, <1>a, CarriedOn
<1>13. ASSUME NEW t \in Threads, InitDeviceState(t) PROVE Carried'
    <2>1. Moved(t, "idle", "none", 0) /\ asked' = asked /\ call[t].pc = "track"
        BY <1>0, <1>13, ReturnMoves DEF InitDeviceState
    <2>2. \A u \in Threads : u # t /\ call[u].pc \in {"injected", "ioctl"} =>
              call[u].d # call[t].d /\ call[u].d \in Devices
        BY <2>1 DEF ConnectInv, Placed, TypeOK, Alone
    <2>3. \A e \in Devices : e # call[t].d => dev'[e] = dev[e]
        BY <1>13 DEF InitDeviceState, ConnectInv, TypeOK
    <2>4. call[t].d \in Devices /\ chans' = Forgetting(call[t].d)
        BY <1>13, <2>1 DEF InitDeviceState, ConnectInv, Placed, TypeOK
    <2>5. \A c \in chans : c.dev # call[t].d => c \in chans'
        BY <2>4, ForgettingThem DEF ConnectInv, TypeOK
    <2> QED BY <2>1, <2>2, <2>3, <2>5, <1>a, CarriedOn
<1>6. ASSUME NEW t \in Threads, OnClientConnect(t) \/ LocalClose(t)
      PROVE  Carried'
    <2>1. Moved(t, "idle", "none", 0) /\ asked' = asked
        BY <1>0, <1>6, ReturnMoves DEF OnClientConnect, LocalClose
    <2>2. \A u \in Threads : u # t /\ call[u].pc # "idle" =>
              call[u].d # call[t].d /\ call[u].d \in Devices
        BY <1>6, NobodyElse
        DEF OnClientConnect, LocalClose, Probing, ConnectInv, Placed, TypeOK
    <2>3. \A e \in Devices : e # call[t].d => dev'[e] = dev[e]
        BY <1>6
        DEF OnClientConnect, LocalClose, Withdraw, ConnectInv, TypeOK
    <2>4. \A c \in chans : c.by = "logger" /\ c.dev # call[t].d => c \in chans'
        <3>1. CASE chans' = chans \/ chans' = chans \ Of(call[t].d)
            BY <3>1 DEF Of
        <3>2. CASE OnClientConnect(t) /\ ~(chans' = chans)
            <4>0. call[t].d \in Devices /\ call[t].c \in AllNumbers
                BY <3>2 DEF OnClientConnect, ConnectInv, Placed, TypeOK
            <4>1. /\ Connected(call[t]).injectedId = dev[call[t].d].injectedId
                  /\ Connected(call[t]).injected = dev[call[t].d].injected
                BY <4>0, StateChanges DEF Connected, ConnectInv, TypeOK
            <4>2. chans' = Without(dev[call[t].d].injectedId) /\ dev[call[t].d].injected
                BY <3>2, <4>1 DEF OnClientConnect, Withdraw, Injected
            <4>3. PICK b \in chans :
                      b.dev = call[t].d /\ b.id = dev[call[t].d].injectedId
                BY <4>0, <4>2 DEF ConnectInv, Named
            <4> QED BY <4>2, <4>3 DEF Without, ConnectInv, TypeOK
        <3> QED BY <1>6, <3>1, <3>2 DEF LocalClose
    <2> QED BY <2>1, <2>2, <2>3, <2>4, <1>a, CarriedOn
<1>7. ASSUME NEW t \in Threads, Teardown(t) \/ DestroyDeviceState(t) PROVE Carried'
    <2>0. PICK l \in {"destroy", "close"} : Goto(t, l) /\ call[t].pc # "idle"
        BY <1>7 DEF Teardown, DestroyDeviceState
    <2>1. Moved(t, l, call[t].op, call[t].d) /\ asked' = asked
        BY <1>0, <1>7, <2>0, GotoMoves DEF Pcs, Teardown, DestroyDeviceState
    <2>2. \A u \in Threads : u # t /\ call[u].pc # "idle" =>
              call[u].d # call[t].d /\ call[u].d \in Devices
        BY <1>7, NobodyElse
        DEF Teardown, DestroyDeviceState, Probing, ConnectInv, Placed, TypeOK
    <2>3. \A e \in Devices : e # call[t].d => dev'[e] = dev[e]
        BY <1>7 DEF Teardown, DestroyDeviceState, Withdraw, ConnectInv, TypeOK
    <2>4. \A c \in chans : c.by = "logger" /\ c.dev # call[t].d => c \in chans'
        <3>0. call[t].d \in Devices
            BY <1>7 DEF Teardown, DestroyDeviceState, ConnectInv, Placed, TypeOK
        <3>1. \/ chans' = chans
              \/ chans' = Without(dev[call[t].d].injectedId) /\ dev[call[t].d].injected
            BY <1>7 DEF Teardown, DestroyDeviceState, Withdraw, Injected
        <3>2. CASE chans' = Without(dev[call[t].d].injectedId) /\ dev[call[t].d].injected
            <4>1. PICK b \in chans :
                      b.dev = call[t].d /\ b.id = dev[call[t].d].injectedId
                BY <3>0, <3>2 DEF ConnectInv, Named
            <4> QED BY <3>2, <4>1 DEF Without, ConnectInv, TypeOK
        <3> QED BY <3>1, <3>2
    <2> QED BY <2>0, <2>1, <2>2, <2>3, <2>4, <1>a, CarriedOn
<1>8. ASSUME NEW t \in Threads, OnClientDisconnect(t) PROVE Carried'
    <2>1. Moved(t, "idle", "none", 0) /\ UNCHANGED <<chans, asked>>
        BY <1>0, <1>8, ReturnMoves DEF OnClientDisconnect
    <2>2. \A e \in Devices : dev'[e].injected = dev[e].injected
        BY <1>8, Forgotten DEF OnClientDisconnect, ConnectInv, TypeOK
    <2>3. \A u \in Threads : call[u].pc # "idle" => call[u].d \in Devices
        BY DEF ConnectInv, Placed, TypeOK
    <2> QED BY <2>1, <2>2, <2>3, <1>a, CarriedOn
<1>9. ASSUME NEW t \in Threads, Resolve(t) PROVE Carried'
    <2>0. PICK l \in {"ioctl", "inject"} : Goto(t, l)
        BY <1>9 DEF Resolve
    <2>1. /\ Moved(t, l, call[t].op, call[t].d) /\ call'[t].c = call[t].c
          /\ call[t].c = call[t].d /\ UNCHANGED <<chans, dev, asked>>
        BY <1>0, <1>9, <2>0, GotoMoves DEF Pcs, Resolve, Carried
    <2> QED BY <2>0, <2>1, <1>a, CarriedOn
<1>10. ASSUME NEW t \in Threads, EnsureInjectedChannel(t) PROVE Carried'
    <2>0. /\ call[t].pc = "inject" /\ call[t].d \in Devices /\ call[t].c = call[t].d
          /\ asked' = asked
        BY <1>10 DEF EnsureInjectedChannel, ConnectInv, Placed, TypeOK, Carried
    <2>1. CASE UNCHANGED <<chans, dev>> /\ Goto(t, "ioctl")
        <3>1. Moved(t, "ioctl", call[t].op, call[t].d) /\ call'[t].c = call[t].c
            BY <1>0, <2>1, GotoMoves DEF Pcs
        <3> QED BY <2>0, <2>1, <3>1, <1>a, CarriedOn
    <2>2. CASE dev[call[t].d].injected /\ UNCHANGED <<chans, dev>> /\ Goto(t, "injected")
        <3>1. Moved(t, "injected", call[t].op, call[t].d)
            BY <1>0, <2>2, GotoMoves DEF Pcs
        <3> QED BY <2>0, <2>2, <3>1, <1>a, CarriedOn
    <2>3. ASSUME NEW i \in Numbers[call[t].d] \ Taken, Goto(t, "injected"),
                 chans \subseteq chans',
                 dev' = [dev EXCEPT ![call[t].d].injected = TRUE, ![call[t].d].injectedId = i]
          PROVE  Carried'
        <3>1. Moved(t, "injected", call[t].op, call[t].d)
            BY <1>0, <2>3, GotoMoves DEF Pcs
        <3>2. /\ dev'[call[t].d].injected
              /\ \A e \in Devices : e # call[t].d => dev'[e] = dev[e]
            <4>1. i \in AllNumbers
                BY <2>0, <2>3 DEF AllNumbers
            <4> QED BY <2>0, <2>3, <4>1, Injecting DEF ConnectInv, TypeOK
        <3>3. \A u \in Threads : call[u].pc # "idle" => call[u].d \in Devices
            BY DEF ConnectInv, Placed, TypeOK
        <3> QED BY <2>0, <2>3, <3>1, <3>2, <3>3, <1>a, CarriedOn
    <2> QED BY <1>10, <2>1, <2>2, <2>3 DEF EnsureInjectedChannel, Needed
<1>11. ASSUME NEW t \in Threads, Substitute(t) PROVE Carried'
    <2>1. Moved(t, "ioctl", call[t].op, call[t].d) /\ UNCHANGED <<chans, dev, asked>>
        BY <1>11, SubstituteMoves DEF ConnectInv, Substitute
    <2>2. dev[call[t].d].injected /\ call[t].d \in Devices
        BY <1>11 DEF Substitute, Carried, ConnectInv, Placed, TypeOK
    <2>3. call'[t].c = dev[call[t].d].injectedId
        BY <1>0, <1>11 DEF Substitute, CallType
    <2>4. \E c \in chans : c.dev = call[t].d /\ c.id = call'[t].c /\ c.by = "logger"
        BY <2>2, <2>3 DEF ConnectInv, Named
    <2> QED BY <2>1, <2>4, <1>a, CarriedOn
<1>12. ASSUME NEW t \in Threads, LocalIoctl(t) PROVE Carried'
    <2>1. Moved(t, "idle", "none", 0) /\ UNCHANGED <<chans, dev>>
        BY <1>0, <1>12, ReturnMoves DEF LocalIoctl
    <2>2. ProbesReach'
        BY <1>12 DEF LocalIoctl, ProbesReach, Carried, Of
    <2> QED BY <2>1, <2>2, CarriedOn
<1> QED
    BY <1>1, <1>2, <1>3, <1>4, <1>5, <1>6, <1>7, <1>8, <1>9, <1>10, <1>11, <1>12,
       <1>13 DEF Next, Client, Logger

LEMMA ProbeInit == Init => ProbeInv
<1> SUFFICES ASSUME Init PROVE ProbeInv
    OBVIOUS
<1>1. \A t \in Threads : call[t].pc = "idle"
    BY DEF Init, NoCall
<1> QED BY <1>1, Initially DEF Init, ProbeInv, Solo, Carried, ProbesReach, NoProbe, Probing

LEMMA ProbeStep == ASSUME ProbesOnly, ProbeInv, [Next]_vars PROVE ProbeInv'
<1>1. CASE UNCHANGED vars
    BY <1>1, StepKeeps DEF vars, ProbeInv, Solo, Carried, ProbesReach
<1>2. CASE Next
    BY <1>2, StepKeeps, SoloKept, CarriedKept DEF ProbeInv
<1> QED BY <1>1, <1>2

\* For a client that calls nothing on a device beside its probes of it, however
\* many threads probe: a probe whose id was replaced reaches an open channel
\* (ResolveChannelId, AutoConnect.cpp 117-140).
THEOREM Reach == ProbesOnly => (Spec => []ProbesReach)
<1> SUFFICES ASSUME ProbesOnly PROVE Spec => []ProbesReach
    OBVIOUS
<1>1. Init => ProbeInv
    BY ProbeInit
<1>2. ProbeInv /\ [Next]_vars => ProbeInv'
    BY ProbeStep
<1>3. ProbeInv => ProbesReach
    BY DEF ProbeInv, Carried
<1> QED BY <1>1, <1>2, <1>3, PTL DEF Spec

----------------------------------------------------------------------------
\* OneChannel and OwnNumbers as well: a state never forgets a client's channel
\* that is open, unless an open of the device makes it anew.

Known ==
    /\ \A c \in chans : c.id \in Numbers[c.dev]
    /\ \A c, e \in chans : c.by = "client" /\ e.by = "client" /\ c.dev = e.dev => c = e
    /\ \A t \in Threads :
          /\ call[t].pc \in {"connected", "disconnected"} => call[t].c \in Numbers[call[t].d]
          /\ call[t].pc \in {"disconnected", "inject"} =>
                \A c \in chans : c.dev = call[t].d => c.by = "logger" \/ c.forgotten
          /\ call[t].pc = "connected" =>
                \A c \in chans : c.dev = call[t].d /\ c.by = "client" => c.id = call[t].c
    /\ \A c \in chans : c.by = "client" /\ ~c.forgotten /\ dev[c.dev].tracked =>
          \/ dev[c.dev].clientId = c.id
          \/ \E t \in Threads : call[t].pc = "connected" /\ call[t].d = c.dev /\ call[t].c = c.id
    /\ \A c, e \in chans :
          (c.by = "client" /\ e.by = "logger" /\ c.dev = e.dev /\ ~c.forgotten /\ ~e.forgotten)
              => \E t \in Threads : call[t].pc = "connected" /\ call[t].d = c.dev

DoubleInv == ProbeInv /\ Known

LEMMA ConnectAlone ==
    ASSUME ConnectInv, Known, MaxClient \in {0, 1}, NEW d \in Devices,
           Cardinality(Theirs(d)) < MaxClient
    PROVE  Theirs(d) = {}
<1>1. SUFFICES ASSUME NEW c \in Theirs(d) PROVE FALSE
    OBVIOUS
<1>2. Theirs(d) = {c}
    BY <1>1 DEF Theirs, Of, Known
<1>3. Cardinality(Theirs(d)) = 1
    BY <1>2, FS_Singleton
<1> QED BY <1>3

\* A step of thread t that connects nothing of the client's and makes no state
\* forget an open channel.
LEMMA KnownOn ==
    ASSUME ConnectInv, Solo, Known, NEW t \in Threads, NEW l, NEW op, NEW d, Moved(t, l, op, d),
           \A c \in chans' : \/ c \in chans
                             \/ /\ c.by = "logger" /\ c.id \in Numbers[c.dev]
                                /\ c.dev = call[t].d /\ call[t].pc = "inject",
           \A c \in chans : c.by = "client" /\ ~c.forgotten /\ dev'[c.dev].tracked =>
               dev[c.dev].tracked /\ (dev[c.dev].clientId = c.id => dev'[c.dev].clientId = c.id),
           call[t].pc # "connected",
           \A c \in chans', e \in chans : c \notin chans /\ c.dev = e.dev =>
               e.by = "logger" \/ e.forgotten,
           l # "connected",
           l = "disconnected" => call'[t].c \in Numbers[d],
           l \in {"disconnected", "inject"} =>
               \A c \in chans' : c.dev = d => c.by = "logger" \/ c.forgotten
    PROVE  Known'
<1>1. \A c \in chans' : c.id \in Numbers[c.dev]
    BY DEF Known
<1>2. \A c, e \in chans' : c.by = "client" /\ e.by = "client" /\ c.dev = e.dev => c = e
    BY DEF Known
<1>3. ASSUME NEW u \in Threads
      PROVE  /\ call'[u].pc \in {"connected", "disconnected"} =>
                    call'[u].c \in Numbers[call'[u].d]
             /\ call'[u].pc \in {"disconnected", "inject"} =>
                    \A c \in chans' : c.dev = call'[u].d => c.by = "logger" \/ c.forgotten
             /\ call'[u].pc = "connected" =>
                    \A c \in chans' : c.dev = call'[u].d /\ c.by = "client" => c.id = call'[u].c
    BY DEF Known, Moved
<1>4. \A u \in Threads : call[u].pc = "connected" => call'[u] = call[u]
    BY DEF Moved
<1>5. ASSUME NEW c \in chans', c.by = "client", ~c.forgotten, dev'[c.dev].tracked
      PROVE  \/ dev'[c.dev].clientId = c.id
             \/ \E u \in Threads :
                   call'[u].pc = "connected" /\ call'[u].d = c.dev /\ call'[u].c = c.id
    <2>1. /\ c \in chans /\ dev[c.dev].tracked
          /\ dev[c.dev].clientId = c.id => dev'[c.dev].clientId = c.id
        BY <1>5
    <2>2. \/ dev[c.dev].clientId = c.id
          \/ \E u \in Threads : call[u].pc = "connected" /\ call[u].d = c.dev /\ call[u].c = c.id
        BY <1>5, <2>1 DEF Known
    <2> QED BY <1>4, <2>1, <2>2
<1>6. ASSUME NEW c \in chans', NEW e \in chans', c.by = "client", e.by = "logger",
             c.dev = e.dev, ~c.forgotten, ~e.forgotten
      PROVE  \E u \in Threads : call'[u].pc = "connected" /\ call'[u].d = c.dev
    <2>1. c \in chans /\ e \in chans
        BY <1>6
    <2> QED BY <1>4, <1>6, <2>1 DEF Known
<1> QED BY <1>1, <1>2, <1>3, <1>5, <1>6 DEF Known

LEMMA KnownKept ==
    ASSUME ProbesOnly, OneChannel, OwnNumbers, DoubleInv, Next
    PROVE  Known'
<1> USE DEF DoubleInv, ProbeInv
<1>0. /\ call \in [Threads -> CallType]
      /\ \A u \in Threads : call[u].pc # "idle" => call[u].d \in Devices
      /\ \A c \in chans : c.dev \in Devices
    BY DEF ConnectInv, TypeOK, Placed, Channel
<1>1. ASSUME NEW t \in Threads, NEW d \in Devices, LocalOpen(t, d) PROVE Known'
    <2>1. Moved(t, "track", "open", d) /\ UNCHANGED <<chans, dev>> /\ call[t].pc = "idle"
        BY <1>0, <1>1, CallMoves DEF LocalOpen, Pcs
    <2> QED BY <2>1, KnownOn DEF Known
<1>2. ASSUME NEW t \in Threads, NEW d \in Devices, CloseCall(t, d) PROVE Known'
    <2>1. PICK l \in {"teardown", "close"} : Call(t, l, "close", d, 0)
        BY <1>2 DEF CloseCall
    <2>2. Moved(t, l, "close", d) /\ UNCHANGED <<chans, dev>> /\ call[t].pc = "idle"
        BY <1>0, <1>2, <2>1, CallMoves DEF Pcs, CloseCall
    <2> QED BY <2>2, KnownOn DEF Known
<1>3. ASSUME NEW t \in Threads, NEW d \in Devices, ReadCall(t, d) PROVE Known'
    <2>1. PICK l \in {"resolve", "ioctl"} : Call(t, l, "read", d, d)
        BY <1>3 DEF ReadCall
    <2>2. Moved(t, l, "read", d) /\ UNCHANGED <<chans, dev>> /\ call[t].pc = "idle"
        BY <1>0, <1>3, <2>1, CallMoves DEF Pcs, ReadCall, MayCall
    <2> QED BY <2>2, KnownOn DEF Known
<1>4. ASSUME NEW t \in Threads, NEW d \in Devices, NEW i \in Numbers[d], LocalConnect(t, d, i)
      PROVE  Known'
    <2>1. /\ Moved(t, "connected", "connect", d) /\ call'[t].c = i /\ dev' = dev
          /\ call[t].pc = "idle"
        BY <1>0, <1>4, CallMoves DEF LocalConnect, AllNumbers, Pcs, MayCall
    <2>n. PICK n : /\ n.id = i /\ n.dev = d /\ n.by = "client" /\ ~n.forgotten
                   /\ chans' = chans \cup {n}
        <3>1. i \in AllNumbers
            BY DEF AllNumbers
        <3> QED BY <1>4, <3>1, NewChannels DEF LocalConnect
    <2>2. \A e \in chans : e.dev = d => e.by = "logger"
        <3>1. Theirs(d) = {}
            BY <1>4, ConnectAlone DEF LocalConnect, OneChannel
        <3> QED BY <3>1 DEF Theirs, Of, ConnectInv, TypeOK, Channel
    <2>3. \A u \in Threads : call[u].pc # "idle" => call[u].d # d
        BY <1>4, ProbesAlone DEF LocalConnect, Running, Calm
    <2>4. \A u \in Threads : call[u].pc = "connected" => call'[u] = call[u]
        BY <2>1 DEF Moved
    <2>5. \A c \in chans' : c.id \in Numbers[c.dev]
        BY <2>n DEF Known
    <2>6. \A c, e \in chans' : c.by = "client" /\ e.by = "client" /\ c.dev = e.dev => c = e
        BY <2>n, <2>2 DEF Known
    <2>7. ASSUME NEW u \in Threads
          PROVE  /\ call'[u].pc \in {"connected", "disconnected"} =>
                        call'[u].c \in Numbers[call'[u].d]
                 /\ call'[u].pc \in {"disconnected", "inject"} =>
                        \A c \in chans' : c.dev = call'[u].d => c.by = "logger" \/ c.forgotten
                 /\ call'[u].pc = "connected" =>
                        \A c \in chans' : c.dev = call'[u].d /\ c.by = "client" => c.id = call'[u].c
        <3>1. CASE u = t
            BY <2>1, <2>n, <2>2, <3>1 DEF Moved
        <3>2. CASE u # t
            <4>1. call'[u] = call[u] /\ (call[u].pc # "idle" => call[u].d # d)
                BY <2>1, <2>3, <3>2 DEF Moved
            <4>2. \A c \in chans' : c \in chans \/ c.dev = d
                BY <2>n
            <4> QED BY <4>1, <4>2 DEF Known
        <3> QED BY <3>1, <3>2
    <2>8. ASSUME NEW c \in chans', c.by = "client", ~c.forgotten, dev'[c.dev].tracked
          PROVE  \/ dev'[c.dev].clientId = c.id
                 \/ \E u \in Threads :
                       call'[u].pc = "connected" /\ call'[u].d = c.dev /\ call'[u].c = c.id
        <3>1. CASE c \in chans
            <4>1. \/ dev[c.dev].clientId = c.id
                  \/ \E u \in Threads : call[u].pc = "connected" /\ call[u].d = c.dev /\ call[u].c = c.id
                BY <2>1, <2>8, <3>1 DEF Known
            <4> QED BY <2>1, <2>4, <4>1
        <3>2. CASE c.id = i /\ c.dev = d
            BY <2>1, <3>2 DEF Moved
        <3> QED BY <2>n, <3>1, <3>2
    <2>9. ASSUME NEW c \in chans', NEW e \in chans', c.by = "client", e.by = "logger",
                 c.dev = e.dev, ~c.forgotten, ~e.forgotten
          PROVE  \E u \in Threads : call'[u].pc = "connected" /\ call'[u].d = c.dev
        <3>1. e \in chans
            BY <2>n, <2>9
        <3>2. CASE c.dev = d
            BY <2>1, <3>2 DEF Moved
        <3>3. CASE c.dev # d
            <4>1. c \in chans
                BY <2>n, <3>3
            <4> QED BY <2>4, <2>9, <3>1, <4>1 DEF Known
        <3> QED BY <3>2, <3>3
    <2> QED BY <2>5, <2>6, <2>7, <2>8, <2>9 DEF Known
<1>5. ASSUME NEW t \in Threads, NEW d \in Devices, NEW c \in Theirs(d), LocalDisconnect(t, d, c)
      PROVE  Known'
    <2>1. /\ c \in chans /\ c.by = "client" /\ c.dev = d /\ c.id \in AllNumbers
          /\ chans' = {e \in chans : e.id # c.id} /\ dev' = dev /\ call[t].pc = "idle"
        BY <1>5 DEF LocalDisconnect, Theirs, Of, ConnectInv, TypeOK, Channel, Without, MayCall
    <2>2. Moved(t, "disconnected", "disconnect", d) /\ call'[t].c = c.id
        BY <1>0, <1>5, <2>1, CallMoves DEF LocalDisconnect, Pcs
    <2>3. c.id \in Numbers[d]
        BY <2>1 DEF Known
    <2>4. \A e \in chans' : e.dev = d => e.by = "logger"
        BY <2>1 DEF Known, ConnectInv, TypeOK, Channel
    <2> QED BY <2>1, <2>2, <2>3, <2>4, KnownOn DEF Known
<1>6. ASSUME NEW t \in Threads, InitDeviceState(t) PROVE Known'
    <2> DEFINE d == call[t].d
    <2>1. Moved(t, "idle", "none", 0) /\ call[t].pc = "track" /\ d \in Devices
        BY <1>0, <1>6, ReturnMoves DEF InitDeviceState
    <2>2. \A e \in Devices : e # d => dev'[e] = dev[e]
        BY <1>6 DEF InitDeviceState, ConnectInv, TypeOK
    <2>3. chans' = Forgetting(d)
        BY <1>6 DEF InitDeviceState
    <2>4. /\ \A c \in chans' : c.dev # d => c \in chans
          /\ \A c \in chans' : c.dev = d => c.forgotten
          /\ \A c \in chans' :
                \E b \in chans : /\ c.id = b.id /\ c.dev = b.dev /\ c.by = b.by
                                 /\ c = [b EXCEPT !.forgotten = @ \/ b.dev = d]
        BY <2>1, <2>3, ForgettingThem DEF ConnectInv, TypeOK
    <2>5. \A c \in chans' : c.id \in Numbers[c.dev]
        BY <2>4 DEF Known
    <2>6. ASSUME NEW c \in chans', NEW e \in chans', c.by = "client", e.by = "client", c.dev = e.dev
          PROVE  c = e
        <3>1. PICK b \in chans : /\ b.by = "client" /\ b.dev = c.dev
                                 /\ c = [b EXCEPT !.forgotten = @ \/ b.dev = d]
            BY <2>4, <2>6
        <3>2. PICK g \in chans : /\ g.by = "client" /\ g.dev = e.dev
                                 /\ e = [g EXCEPT !.forgotten = @ \/ g.dev = d]
            BY <2>4, <2>6
        <3>3. b = g
            BY <2>6, <3>1, <3>2 DEF Known
        <3> QED BY <3>1, <3>2, <3>3
    <2>7. ASSUME NEW u \in Threads
          PROVE  /\ call'[u].pc \in {"connected", "disconnected"} =>
                        call'[u].c \in Numbers[call'[u].d]
                 /\ call'[u].pc \in {"disconnected", "inject"} =>
                        \A c \in chans' : c.dev = call'[u].d => c.by = "logger" \/ c.forgotten
                 /\ call'[u].pc = "connected" =>
                        \A c \in chans' : c.dev = call'[u].d /\ c.by = "client" => c.id = call'[u].c
        BY <2>1, <2>4 DEF Known, Moved
    <2>8. \A c \in chans' : ~c.forgotten => c \in chans /\ c.dev \in Devices \ {d}
        BY <1>0, <2>4
    <2>9. \A u \in Threads : call[u].pc = "connected" => call'[u] = call[u]
        BY <2>1 DEF Moved
    <2>10. ASSUME NEW c \in chans', c.by = "client", ~c.forgotten, dev'[c.dev].tracked
           PROVE  \/ dev'[c.dev].clientId = c.id
                  \/ \E u \in Threads :
                        call'[u].pc = "connected" /\ call'[u].d = c.dev /\ call'[u].c = c.id
        <3>1. c \in chans /\ dev'[c.dev] = dev[c.dev]
            BY <2>2, <2>8, <2>10
        <3>2. \/ dev[c.dev].clientId = c.id
              \/ \E u \in Threads :
                    call[u].pc = "connected" /\ call[u].d = c.dev /\ call[u].c = c.id
            BY <2>10, <3>1 DEF Known
        <3> QED BY <2>9, <3>1, <3>2
    <2>11. ASSUME NEW c \in chans', NEW e \in chans', c.by = "client", e.by = "logger",
                  c.dev = e.dev, ~c.forgotten, ~e.forgotten
           PROVE  \E u \in Threads : call'[u].pc = "connected" /\ call'[u].d = c.dev
        <3>1. c \in chans /\ e \in chans
            BY <2>8, <2>11
        <3> QED BY <2>9, <2>11, <3>1 DEF Known
    <2> QED BY <2>5, <2>6, <2>7, <2>10, <2>11 DEF Known
<1>7. ASSUME NEW t \in Threads, LocalClose(t) PROVE Known'
    <2>1. Moved(t, "idle", "none", 0) /\ dev' = dev /\ call[t].pc = "close"
        BY <1>0, <1>7, ReturnMoves DEF LocalClose
    <2>2. chans' \subseteq chans
        BY <1>7 DEF LocalClose
    <2> QED BY <2>1, <2>2, KnownOn DEF Known
<1>8. ASSUME NEW t \in Threads, Teardown(t) PROVE Known'
    <2>1. Moved(t, "destroy", call[t].op, call[t].d) /\ call[t].pc = "teardown"
        BY <1>0, <1>8, GotoMoves DEF Pcs, Teardown
    <2>2. chans' \subseteq chans
        BY <1>8 DEF Teardown, Withdraw, Without
    <2>3. \A e \in Devices : dev'[e].tracked = dev[e].tracked /\ dev'[e].clientId = dev[e].clientId
        <3>1. PICK s \in {dev[call[t].d], Withdrawn(dev[call[t].d])} :
                  dev' = [dev EXCEPT ![call[t].d] = s]
            BY <1>8 DEF Teardown, Withdraw
        <3>2. s.tracked = dev[call[t].d].tracked /\ s.clientId = dev[call[t].d].clientId
            BY <1>0, <2>1, <3>1 DEF Withdrawn, ConnectInv, TypeOK, StateType
        <3> QED BY <3>1, <3>2 DEF ConnectInv, TypeOK
    <2> QED BY <1>0, <2>1, <2>2, <2>3, KnownOn DEF Known
<1>9. ASSUME NEW t \in Threads, DestroyDeviceState(t) PROVE Known'
    <2>1. /\ Moved(t, "close", call[t].op, call[t].d) /\ chans' = chans
          /\ call[t].pc = "destroy" /\ call[t].d \in Devices
        BY <1>0, <1>9, GotoMoves DEF Pcs, DestroyDeviceState
    <2>2. /\ ~dev'[call[t].d].tracked
          /\ \A e \in Devices : e # call[t].d => dev'[e] = dev[e]
        BY <1>9, <2>1 DEF DestroyDeviceState, ConnectInv, TypeOK, Untracked
    <2>3. \A c \in chans : dev'[c.dev].tracked => dev'[c.dev] = dev[c.dev]
        BY <1>0, <2>1, <2>2
    <2> QED BY <2>1, <2>3, KnownOn DEF Known
<1>10. ASSUME NEW t \in Threads, OnClientConnect(t) PROVE Known'
    <2> DEFINE d == call[t].d
    <2>1. /\ Moved(t, "idle", "none", 0) /\ call[t].pc = "connected" /\ d \in Devices
          /\ call[t].c \in Numbers[d] /\ call[t].c \in AllNumbers /\ dev[d] \in StateType
        BY <1>0, <1>10, ReturnMoves DEF OnClientConnect, Known, ConnectInv, TypeOK, Placed
    <2>2. \A u \in Threads : u # t /\ call[u].pc # "idle" => call[u].d # d
        BY <2>1, NobodyElse DEF Probing
    <2>3. /\ chans' \subseteq chans
          /\ \A e \in Devices : e # d => dev'[e] = dev[e]
          /\ dev[d].tracked => dev'[d].clientId = call[t].c
          /\ dev'[d].tracked = dev[d].tracked
          /\ ~dev[d].tracked => chans' = chans
          /\ \A c \in chans' : c.dev = d => c.by = "client" \/ c.forgotten
        <3>1. CASE ~dev[d].tracked
            <4>1. chans' = chans /\ dev' = dev
                BY <1>10, <3>1 DEF OnClientConnect
            <4> QED BY <2>1, <3>1, <4>1 DEF ConnectInv, Named, Lifetimes, TypeOK, Channel
        <3>2. CASE dev[d].tracked
            <4>1. PICK s \in StateType :
                      /\ s = [dev[d] EXCEPT !.clientId = call[t].c] /\ Withdraw(d, s)
                      /\ s.injected = dev[d].injected /\ s.injectedId = dev[d].injectedId
                      /\ s.tracked = dev[d].tracked /\ s.clientId = call[t].c
                <5>1. Withdraw(d, Connected(call[t]))
                    BY <1>10, <3>2 DEF OnClientConnect
                <5> QED BY <2>1, <5>1, StateChanges DEF Connected, StateType
            <4>2. /\ chans' \subseteq chans /\ Named' /\ ~dev'[d].injected /\ dev'[d].tracked
                  /\ \A e \in Devices : e # d => dev'[e] = dev[e]
                BY <2>1, <3>2, <4>1, Withdrawing DEF ConnectInv
            <4>3. dev'[d].clientId = call[t].c
                <5>1. PICK r \in {s, Withdrawn(s)} : dev' = [dev EXCEPT ![d] = r]
                    BY <4>1 DEF Withdraw
                <5>2. r.clientId = s.clientId
                    BY <5>1 DEF Withdrawn, StateType
                <5> QED BY <2>1, <4>1, <5>1, <5>2 DEF ConnectInv, TypeOK
            <4>4. \A c \in chans' : c.dev = d => c.by = "client" \/ c.forgotten
                BY <4>2 DEF Named, ConnectInv, TypeOK, Channel
            <4> QED BY <3>2, <4>2, <4>3, <4>4
        <3> QED BY <3>1, <3>2
    <2>4. \A c \in chans' : c.id \in Numbers[c.dev]
        BY <2>3 DEF Known
    <2>5. \A c, e \in chans' : c.by = "client" /\ e.by = "client" /\ c.dev = e.dev => c = e
        BY <2>3 DEF Known
    <2>6. ASSUME NEW u \in Threads
          PROVE  /\ call'[u].pc \in {"connected", "disconnected"} =>
                        call'[u].c \in Numbers[call'[u].d]
                 /\ call'[u].pc \in {"disconnected", "inject"} =>
                        \A c \in chans' : c.dev = call'[u].d => c.by = "logger" \/ c.forgotten
                 /\ call'[u].pc = "connected" =>
                        \A c \in chans' : c.dev = call'[u].d /\ c.by = "client" => c.id = call'[u].c
        BY <2>1, <2>3 DEF Known, Moved
    <2>7. ASSUME NEW c \in chans', c.by = "client", ~c.forgotten, dev'[c.dev].tracked
          PROVE  \/ dev'[c.dev].clientId = c.id
                 \/ \E u \in Threads :
                       call'[u].pc = "connected" /\ call'[u].d = c.dev /\ call'[u].c = c.id
        <3>0. c \in chans /\ c.dev \in Devices
            BY <1>0, <2>3
        <3>1. CASE c.dev = d
            <4>1. dev[d].tracked /\ dev'[d].clientId = call[t].c
                BY <2>3, <2>7, <3>1
            <4>2. c.id = call[t].c
                BY <2>1, <2>7, <3>0, <3>1 DEF Known
            <4> QED BY <3>1, <4>1, <4>2
        <3>2. CASE c.dev # d
            <4>1. PICK e \in Devices : e = c.dev /\ e # d /\ dev'[e] = dev[e]
                BY <2>3, <3>0, <3>2
            <4> QED BY <2>1, <2>7, <3>0, <4>1 DEF Known, Moved
        <3> QED BY <3>1, <3>2
    <2>8. ASSUME NEW c \in chans', NEW e \in chans', c.by = "client", e.by = "logger",
                 c.dev = e.dev, ~c.forgotten, ~e.forgotten
          PROVE  \E u \in Threads : call'[u].pc = "connected" /\ call'[u].d = c.dev
        <3>1. c.dev # d /\ c \in chans /\ e \in chans
            BY <2>3, <2>8
        <3> QED BY <2>1, <2>8, <3>1 DEF Known, Moved
    <2> QED BY <2>4, <2>5, <2>6, <2>7, <2>8 DEF Known
<1>11. ASSUME NEW t \in Threads, OnClientDisconnect(t) PROVE Known'
    <2>1. /\ Moved(t, "idle", "none", 0) /\ chans' = chans /\ call[t].pc = "disconnected"
          /\ dev' = [e \in Devices |-> Forget(dev[e], call[t].c)]
        BY <1>0, <1>11, ReturnMoves DEF OnClientDisconnect
    <2>2. call[t].c \in Numbers[call[t].d] /\ call[t].d \in Devices
        BY <1>0, <2>1 DEF Known
    <2>3. ASSUME NEW c \in chans, c.by = "client", ~c.forgotten, dev'[c.dev].tracked
          PROVE  dev[c.dev].tracked /\ (dev[c.dev].clientId = c.id => dev'[c.dev].clientId = c.id)
        <3>1. c.dev \in Devices /\ c.dev # call[t].d /\ dev[c.dev].tracked
            BY <1>0, <2>1, <2>3, Forgotten DEF Known, ConnectInv, TypeOK
        <3>2. c.id # call[t].c
            BY <2>2, <2>3, <3>1 DEF Known, OwnNumbers
        <3>3. dev[c.dev].clientId = c.id => dev'[c.dev] = dev[c.dev]
            BY <2>1, <3>1, <3>2 DEF Forget
        <3> QED BY <3>1, <3>3
    <2> QED BY <2>1, <2>3, KnownOn DEF Known
<1>12. ASSUME NEW t \in Threads, Resolve(t) PROVE Known'
    <2>1. PICK l \in {"ioctl", "inject"} :
              Goto(t, l) /\ (l = "inject" => dev[call[t].d].clientId = 0)
        BY <1>12 DEF Resolve
    <2>2. /\ Moved(t, l, call[t].op, call[t].d) /\ call[t].pc = "resolve"
          /\ UNCHANGED <<chans, dev>> /\ dev[call[t].d].tracked /\ call[t].op = "read"
        BY <1>0, <1>12, <2>1, GotoMoves
        DEF Pcs, Resolve, ConnectInv, Lifetimes, Solo, Probing
    <2>3. ASSUME l = "inject", NEW c \in chans, c.dev = call[t].d
          PROVE  c.by = "logger" \/ c.forgotten
        <3>1. c.id # 0 /\ c.by \in {"client", "logger"}
            BY NumbersArePositive DEF ConnectInv, TypeOK, Channel
        <3>2. \A u \in Threads : call[u].pc = "connected" => call[u].d # call[t].d
            BY <2>2 DEF Solo
        <3> QED BY <2>1, <2>2, <2>3, <3>1, <3>2 DEF Known
    <2> QED BY <2>2, <2>3, KnownOn DEF Known
<1>13. ASSUME NEW t \in Threads, EnsureInjectedChannel(t) PROVE Known'
    <2>1. PICK l \in {"injected", "ioctl"} : Goto(t, l)
        BY <1>13 DEF EnsureInjectedChannel
    <2>2. Moved(t, l, call[t].op, call[t].d) /\ call[t].pc = "inject"
        BY <1>0, <1>13, <2>1, GotoMoves DEF Pcs, EnsureInjectedChannel
    <2>3. \A c \in chans : c.dev = call[t].d => c.by = "logger" \/ c.forgotten
        BY <2>2 DEF Known
    <2>4. \/ UNCHANGED <<chans, dev>>
          \/ \E i \in Numbers[call[t].d] :
                /\ chans' = chans \cup {NewChannel(i, call[t].d, "logger")}
                /\ dev' = [dev EXCEPT ![call[t].d].injected = TRUE, ![call[t].d].injectedId = i]
        BY <1>13 DEF EnsureInjectedChannel
    <2>5. \A e \in Devices : dev'[e].tracked = dev[e].tracked /\ dev'[e].clientId = dev[e].clientId
        <3>1. CASE dev' = dev
            BY <3>1
        <3>2. ASSUME NEW i \in Numbers[call[t].d],
                     dev' = [dev EXCEPT ![call[t].d].injected = TRUE, ![call[t].d].injectedId = i]
              PROVE  \A e \in Devices : /\ dev'[e].tracked = dev[e].tracked
                                        /\ dev'[e].clientId = dev[e].clientId
            <4>1. i \in AllNumbers /\ call[t].d \in Devices
                BY <1>0, <2>2 DEF AllNumbers
            <4> QED BY <3>2, <4>1, Injecting DEF ConnectInv, TypeOK
        <3> QED BY <2>4, <3>1, <3>2
    <2>6. \A c \in chans' : \/ c \in chans
                            \/ /\ c.by = "logger" /\ c.id \in Numbers[c.dev]
                               /\ c.dev = call[t].d
        <3>1. ASSUME NEW i \in Numbers[call[t].d], NEW c \in chans',
                     chans' = chans \cup {NewChannel(i, call[t].d, "logger")}
              PROVE  \/ c \in chans
                     \/ c.by = "logger" /\ c.id \in Numbers[c.dev] /\ c.dev = call[t].d
            BY <3>1 DEF NewChannel
        <3> QED BY <2>4, <3>1
    <2> QED BY <1>0, <2>2, <2>3, <2>5, <2>6, KnownOn
<1>14. ASSUME NEW t \in Threads, Substitute(t) PROVE Known'
    <2>1. /\ Moved(t, "ioctl", call[t].op, call[t].d) /\ UNCHANGED <<chans, dev>>
          /\ call[t].pc = "injected"
        BY <1>14, SubstituteMoves DEF ConnectInv, Substitute
    <2> QED BY <2>1, KnownOn DEF Known
<1>15. ASSUME NEW t \in Threads, LocalIoctl(t) PROVE Known'
    <2>1. /\ Moved(t, "idle", "none", 0) /\ UNCHANGED <<chans, dev>> /\ call[t].pc = "ioctl"
        BY <1>0, <1>15, ReturnMoves DEF LocalIoctl
    <2> QED BY <2>1, KnownOn DEF Known
<1> QED
    BY <1>1, <1>2, <1>3, <1>4, <1>5, <1>6, <1>7, <1>8, <1>9, <1>10, <1>11, <1>12, <1>13,
       <1>14, <1>15 DEF Next, Client, Logger

LEMMA DoubleInit == Init => DoubleInv
<1> SUFFICES ASSUME Init PROVE DoubleInv
    OBVIOUS
<1>1. \A t \in Threads : call[t].pc = "idle"
    BY DEF Init, NoCall
<1> QED BY <1>1, ProbeInit DEF Init, DoubleInv, Known

LEMMA DoubleStep ==
    ASSUME ProbesOnly, OneChannel, OwnNumbers, DoubleInv, [Next]_vars
    PROVE  DoubleInv'
<1>1. CASE UNCHANGED vars
    BY <1>1, ProbeStep DEF vars, DoubleInv, Known
<1>2. CASE Next
    BY <1>2, ProbeStep, KnownKept DEF DoubleInv
<1> QED BY <1>1, <1>2

\* For such a client with at most one channel on a device, and a driver that
\* numbers the channels of its devices apart: no call leaves the client's
\* channel and the logger's side by side, but for channels that an open of their
\* device made the state forget (ResolveChannelId and OnClientConnect,
\* AutoConnect.cpp 117-154).
THEOREM NoDouble ==
    ProbesOnly /\ OneChannel /\ OwnNumbers => (Spec => []NoDoubleConnect)
<1> SUFFICES ASSUME ProbesOnly, OneChannel, OwnNumbers PROVE Spec => []NoDoubleConnect
    OBVIOUS
<1>1. Init => DoubleInv
    BY DoubleInit
<1>2. DoubleInv /\ [Next]_vars => DoubleInv'
    BY DoubleStep
<1>3. DoubleInv => NoDoubleConnect
    <2> SUFFICES ASSUME DoubleInv, NEW d \in Devices, NEW c \in Mine(d), NEW e \in Theirs(d)
                 PROVE  c.forgotten \/ e.forgotten \/ Running(d) # {}
        BY DEF NoDoubleConnect
    <2> QED BY DEF DoubleInv, Known, Mine, Theirs, Of, Running
<1> QED BY <1>1, <1>2, <1>3, PTL DEF Spec

=============================================================================
