---------------------------- MODULE ElmThreadsProofs ----------------------------
(***************************************************************************)
(* What the threads of the ElmJ2534 driver do to one another: in a device  *)
(* (ElmDevice) and in a port that is being opened (ElmOpen).               *)
(*                                                                         *)
(* NobodyStranded and PromptRead hold for any number of threads, channels, *)
(* filters and messages.                                                   *)
(* NobodyStranded is inductive with four facts: one thread at most is in a *)
(* write, no channel is open on a closed device, the session lives until   *)
(* the library is unloaded, and a thread's record has its fields.          *)
(* PromptRead counts messages against awake readers: n messages wake n     *)
(* threads or all that sleep, and whoever stops waiting takes a message    *)
(* unless there is none.                                                   *)
(*                                                                         *)
(* OneOwner and RefsCountUsers hold for any number of open() calls.        *)
(***************************************************************************)
EXTENDS ElmDevice, ElmOpen, FiniteSetTheorems, TLAPS

IsCall(c) == c = [at |-> c.at, channel |-> c.channel, left |-> c.left]

ThreadsShaped ==
  /\ thread = [t \in Threads |-> thread[t]]
  /\ \A t \in Threads : IsCall(thread[t])

OneWriter ==
  \A t, u \in Threads : thread[t].at = "writing" /\ thread[u].at = "writing" => t = u

ClosedIsEmpty == device = "none" => DOMAIN channels = {}

SessionKept == device # "gone" => session = "live"

DeviceInv == ThreadsShaped /\ OneWriter /\ ClosedIsEmpty /\ SessionKept /\ NobodyStranded

\* Roused() changes nothing of a thread but that it may no longer sleep.
LEMMA RousedFacts ==
  ASSUME ThreadsShaped, NEW who
  PROVE  /\ Roused(who) = [t \in Threads |-> Roused(who)[t]]
         /\ \A t \in Threads :
              /\ IsCall(Roused(who)[t])
              /\ Roused(who)[t].channel = thread[t].channel
              /\ Roused(who)[t].at = "writing" <=> thread[t].at = "writing"
              /\ Roused(who)[t].at = "asleep" => thread[t].at = "asleep" /\ t \notin who
<1>1. \A t \in Threads : Roused(who)[t] = IF t \in who /\ thread[t].at = "asleep"
                                          THEN [thread[t] EXCEPT !.at = "awake"] ELSE thread[t]
  BY DEF Roused
<1>2. \A c : IsCall(c) => LET d == [c EXCEPT !.at = "awake"]
                          IN IsCall(d) /\ d.channel = c.channel /\ d.at = "awake"
  BY DEF IsCall
<1> QED
  BY <1>1, <1>2 DEF Roused, ThreadsShaped

\* When one of the threads that are not writing gets a new record, and all the
\* channels stay, the invariant stays, ...
LEMMA OneThreadMoves ==
  ASSUME DeviceInv, NEW t \in Threads, NEW c, IsCall(c),
         thread' = [thread EXCEPT ![t] = c],
         DOMAIN channels' = DOMAIN channels, device' = device, session' = session,
         c.at \in {"asleep", "writing"} => c.channel \in DOMAIN channels,
         c.at = "writing" => Unlocked /\ session = "live"
  PROVE  DeviceInv'
<1>1. ThreadsShaped'
  BY DEF DeviceInv, ThreadsShaped
<1>2. \A u \in Threads : thread'[u] = IF u = t THEN c ELSE thread[u]
  BY DEF DeviceInv, ThreadsShaped
<1>3. OneWriter'
  BY <1>2 DEF DeviceInv, OneWriter, Unlocked
<1>4. ClosedIsEmpty' /\ SessionKept'
  BY DEF DeviceInv, ClosedIsEmpty, SessionKept
<1>5. NobodyStranded'
  BY <1>2 DEF DeviceInv, NobodyStranded
<1> QED
  BY <1>1, <1>3, <1>4, <1>5 DEF DeviceInv

\* ... and when every sleeper is roused while nobody writes, channels may go.
LEMMA AllRoused ==
  ASSUME DeviceInv, Unlocked, thread' = Roused(Threads), ClosedIsEmpty', SessionKept'
  PROVE  DeviceInv'
<1>1. ThreadsShaped'
  BY RousedFacts DEF DeviceInv, ThreadsShaped
<1>2. \A u \in Threads : thread'[u].at \notin {"asleep", "writing"}
  BY RousedFacts DEF DeviceInv, Unlocked
<1>3. OneWriter' /\ NobodyStranded'
  BY <1>2 DEF OneWriter, NobodyStranded
<1> QED
  BY <1>1, <1>3 DEF DeviceInv

LEMMA InitDevice == Init => DeviceInv
<1> SUFFICES ASSUME Init PROVE DeviceInv
  OBVIOUS
<1>1. \A t \in Threads : thread[t] = Idle /\ IsCall(Idle) /\ Idle.at = "idle"
  BY DEF Init, Idle, IsCall
<1>2. ThreadsShaped /\ OneWriter /\ NobodyStranded
  BY <1>1 DEF Init, ThreadsShaped, OneWriter, NobodyStranded
<1>3. ClosedIsEmpty /\ SessionKept
  BY DEF Init, ClosedIsEmpty, SessionKept
<1> QED
  BY <1>2, <1>3 DEF DeviceInv

-----------------------------------------------------------------------------
(* The actions *)

\* Threads and device stay, channels may be added, or all go when there are none.
LEMMA ThreadsStay ==
  ASSUME DeviceInv, UNCHANGED <<thread, session>>, device' # "gone", device # "gone",
         DOMAIN channels \subseteq DOMAIN channels', ClosedIsEmpty'
  PROVE  DeviceInv'
<1>1. ThreadsShaped' /\ OneWriter' /\ SessionKept'
  BY DEF DeviceInv, ThreadsShaped, OneWriter, SessionKept
<1>2. NobodyStranded'
  BY DEF DeviceInv, NobodyStranded
<1> QED
  BY <1>1, <1>2 DEF DeviceInv

LEMMA OpenDeviceStep ==
  ASSUME DeviceInv, NEW t \in Threads, OpenDevice(t) PROVE DeviceInv'
<1>1. DOMAIN channels = {} /\ DOMAIN channels' = {}
  BY DEF OpenDevice, DeviceInv, ClosedIsEmpty
<1> QED
  BY <1>1, ThreadsStay DEF OpenDevice, ClosedIsEmpty

LEMMA CloseDeviceStep ==
  ASSUME DeviceInv, NEW t \in Threads, CloseDevice(t) PROVE DeviceInv'
<1>1. ClosedIsEmpty' /\ SessionKept'
  BY DEF CloseDevice, DeviceInv, ClosedIsEmpty, SessionKept
<1> QED
  BY <1>1, AllRoused DEF CloseDevice, Calls

LEMMA ConnectStep ==
  ASSUME DeviceInv, NEW t \in Threads, NEW echo, Connect(t, echo) PROVE DeviceInv'
<1>1. DOMAIN channels \subseteq DOMAIN channels'
  BY DEF Connect
<1>2. ClosedIsEmpty'
  BY DEF Connect, ClosedIsEmpty
<1> QED
  BY <1>1, <1>2, ThreadsStay DEF Connect

LEMMA DisconnectStep ==
  ASSUME DeviceInv, NEW t \in Threads, NEW id, Disconnect(t, id) PROVE DeviceInv'
<1>1. ClosedIsEmpty' /\ SessionKept'
  BY DEF Disconnect, DeviceInv, ClosedIsEmpty, SessionKept
<1> QED
  BY <1>1, AllRoused DEF Disconnect, Calls

\* What is called under a write that holds the lock, and what is not.
LEMMA ShutdownStep == ASSUME DeviceInv, Shutdown PROVE DeviceInv'
<1>1. ClosedIsEmpty' /\ SessionKept'
  BY DEF Shutdown, ClosedIsEmpty, SessionKept
<1>2. CASE Unlocked
  BY <1>1, <1>2, AllRoused DEF Shutdown
<1>3. CASE ~Unlocked
  <2>1. ThreadsShaped' /\ OneWriter' /\ NobodyStranded'
    BY <1>3 DEF Shutdown, DeviceInv, ThreadsShaped, OneWriter, NobodyStranded
  <2> QED
    BY <1>1, <2>1 DEF DeviceInv
<1> QED
  BY <1>2, <1>3

LEMMA FiltersStep ==
  ASSUME DeviceInv, NEW t \in Threads, NEW id, NEW x,
         StartMsgFilter(t, id, x) \/ StopMsgFilter(t, id, x) \/ Ioctl(t, id)
  PROVE  DeviceInv'
<1>1. DOMAIN channels' = DOMAIN channels /\ UNCHANGED <<device, session, thread>>
  BY DEF StartMsgFilter, StopMsgFilter, Ioctl, SetFilters
<1>2. device # "gone" /\ ClosedIsEmpty'
  BY <1>1 DEF StartMsgFilter, StopMsgFilter, Ioctl, Calls, DeviceInv, ClosedIsEmpty
<1> QED
  BY <1>1, <1>2, ThreadsStay

LEMMA WriteMsgsStep ==
  ASSUME DeviceInv, NEW t \in Threads, NEW id, NEW n, WriteMsgs(t, id, n) PROVE DeviceInv'
<1> DEFINE c == [at |-> "writing", channel |-> id, left |-> n]
<1>1. IsCall(c) /\ c.channel = id /\ thread' = [thread EXCEPT ![t] = c]
  BY DEF IsCall, WriteMsgs
<1>2. Unlocked /\ session = "live" /\ id \in DOMAIN channels
      /\ UNCHANGED <<device, session, channels>>
  BY DEF WriteMsgs, Calls, DeviceInv, SessionKept
<1> HIDE DEF c
<1> QED
  BY <1>1, <1>2, OneThreadMoves

\* Taking messages leaves the channels and an idle thread.
LEMMA TakeStep ==
  ASSUME DeviceInv, NEW t \in Threads, NEW id, NEW want, Take(t, id, want),
         UNCHANGED <<device, session>>
  PROVE  DeviceInv'
<1>1. IsCall(Idle) /\ Idle.at = "idle"
  BY DEF IsCall, Idle
<1>2. DOMAIN channels' = DOMAIN channels /\ thread' = [thread EXCEPT ![t] = Idle]
  BY DEF Take
<1> QED
  BY <1>1, <1>2, OneThreadMoves

LEMMA ReadMsgsStep ==
  ASSUME DeviceInv, NEW t \in Threads, NEW id, NEW want, NEW waits,
         ReadMsgs(t, id, want, waits)
  PROVE  DeviceInv'
<1>1. CASE Take(t, id, want)
  BY <1>1, TakeStep DEF ReadMsgs
<1>2. CASE ~Take(t, id, want)
  <2> DEFINE c == [at |-> "asleep", channel |-> id, left |-> want]
  <2>1. IsCall(c) /\ c.channel = id /\ c.at = "asleep" /\ thread' = [thread EXCEPT ![t] = c]
    BY <1>2 DEF IsCall, ReadMsgs
  <2>2. UNCHANGED <<device, session, channels>> /\ id \in DOMAIN channels
    BY <1>2 DEF ReadMsgs
  <2> HIDE DEF c
  <2> QED
    BY <2>1, <2>2, OneThreadMoves
<1> QED
  BY <1>1, <1>2

LEMMA ResumeStep ==
  ASSUME DeviceInv, NEW t \in Threads, Resume(t) PROVE DeviceInv'
<1> DEFINE id == thread[t].channel
           again == [thread[t] EXCEPT !.at = "asleep"]
<1>0. UNCHANGED <<device, session>>
  BY DEF Resume
<1>1. CASE Take(t, id, thread[t].left)
  BY <1>0, <1>1, TakeStep
<1>2. CASE id \in DOMAIN channels /\ UNCHANGED channels /\ thread' = [thread EXCEPT ![t] = again]
  <2>1. IsCall(again) /\ again.channel = id /\ again.at = "asleep"
    BY DEF DeviceInv, ThreadsShaped, IsCall
  <2> HIDE DEF again
  <2> QED
    BY <1>0, <1>2, <2>1, OneThreadMoves
<1>3. CASE UNCHANGED channels /\ thread' = [thread EXCEPT ![t] = Idle]
  <2>1. IsCall(Idle) /\ Idle.at = "idle"
    BY DEF IsCall, Idle
  <2> QED
    BY <1>0, <1>3, <2>1, OneThreadMoves
<1>4. [thread EXCEPT ![t].at = "asleep"] = [thread EXCEPT ![t] = again]
  BY DEF DeviceInv, ThreadsShaped
<1> QED
  BY <1>1, <1>2, <1>3, <1>4 DEF Resume

LEMMA WriteOneStep ==
  ASSUME DeviceInv, NEW t \in Threads, WriteOne(t) PROVE DeviceInv'
<1>1. /\ thread[t].at = "writing" /\ UNCHANGED <<device, session>>
      /\ DOMAIN channels' = DOMAIN channels
  BY DEF WriteOne
<1>2. PICK who, c : /\ thread' = [Roused(who) EXCEPT ![t] = c]
                    /\ c = Idle \/ c = OneLess(Roused(who)[t])
  <2> DEFINE ends(outcome) == outcome[2] \notin {"Ok", "Silent"} \/ thread[t].left = 1
  <2>1. \E outcome, who : thread' = [Roused(who) EXCEPT
                                     ![t] = IF ends(outcome) THEN Idle ELSE OneLess(@)]
    BY Zenon DEF WriteOne
  <2> QED
    BY <2>1
<1>3. \A r : IsCall(r) => IsCall(OneLess(r)) /\ OneLess(r).at = r.at /\ OneLess(r).channel = r.channel
  BY DEF IsCall, OneLess
<1>4. IsCall(Idle) /\ Idle.at = "idle"
  BY DEF IsCall, Idle
<1>5. \A u \in Threads : thread'[u] = IF u = t THEN c ELSE Roused(who)[u]
  BY <1>2, RousedFacts DEF DeviceInv
<1>6. IsCall(c) /\ (c.at \in {"idle", "writing"}) /\ (c.at = "writing" => c.channel = thread[t].channel)
  BY <1>1, <1>2, <1>3, <1>4, RousedFacts DEF DeviceInv
<1>7. ThreadsShaped'
  BY <1>2, <1>5, <1>6, RousedFacts DEF DeviceInv, ThreadsShaped
<1>8. OneWriter'
  BY <1>1, <1>5, <1>6, RousedFacts DEF DeviceInv, OneWriter
<1>9. ClosedIsEmpty' /\ SessionKept'
  BY <1>1 DEF DeviceInv, ClosedIsEmpty, SessionKept
<1>10. NobodyStranded'
  BY <1>1, <1>5, <1>6, RousedFacts DEF DeviceInv, NobodyStranded
<1> QED
  BY <1>7, <1>8, <1>9, <1>10 DEF DeviceInv

LEMMA StutterStep == ASSUME DeviceInv, UNCHANGED vars PROVE DeviceInv'
BY DEF vars, ids, counts, DeviceInv, ThreadsShaped, OneWriter, ClosedIsEmpty, SessionKept,
       NobodyStranded

LEMMA DeviceInductive == DeviceInv /\ [Next]_vars => DeviceInv'
<1> SUFFICES ASSUME DeviceInv, [Next]_vars PROVE DeviceInv'
  OBVIOUS
<1>1. CASE Shutdown
  BY <1>1, ShutdownStep
<1>2. ASSUME NEW t \in Threads,
             OpenDevice(t) \/ CloseDevice(t) \/ WriteOne(t) \/ Resume(t)
      PROVE  DeviceInv'
  BY <1>2, OpenDeviceStep, CloseDeviceStep, WriteOneStep, ResumeStep
<1>3. ASSUME NEW t \in Threads, NEW echo \in BOOLEAN, Connect(t, echo) PROVE DeviceInv'
  BY <1>3, ConnectStep
<1>4. ASSUME NEW t \in Threads, NEW id \in DOMAIN channels, Disconnect(t, id)
      PROVE  DeviceInv'
  BY <1>4, DisconnectStep
<1>5. ASSUME NEW t \in Threads, NEW id \in DOMAIN channels, NEW x,
             StartMsgFilter(t, id, x) \/ StopMsgFilter(t, id, x) \/ Ioctl(t, id)
      PROVE  DeviceInv'
  BY <1>5, FiltersStep
<1>6. ASSUME NEW t \in Threads, NEW id \in DOMAIN channels, NEW n,
             WriteMsgs(t, id, n) \/ \E waits \in BOOLEAN : ReadMsgs(t, id, n, waits)
      PROVE  DeviceInv'
  BY <1>6, WriteMsgsStep, ReadMsgsStep
<1>7. CASE UNCHANGED vars
  BY <1>7, StutterStep
<1> QED
  BY <1>1, <1>2, <1>3, <1>4, <1>5, <1>6, <1>7 DEF Next

\* Whatever closes, disconnects or unloads while other threads are inside the
\* library, no reader keeps sleeping on a channel that is gone, and a write
\* never loses its session or its channel.
THEOREM NobodyLeft == Spec => []NobodyStranded
<1>1. DeviceInv => NobodyStranded
  BY DEF DeviceInv
<1> QED
  BY InitDevice, DeviceInductive, <1>1, PTL DEF Spec

-----------------------------------------------------------------------------
(* PromptRead                                                              *)

\* What the counting needs of the data: queues are sequences, a channel has its
\* fields, and a thread inside a read asked for a message at least.
IsQueue(q) == \E S : q \in Seq(S)
IsChannel(ch) == ch = [echo |-> ch.echo, filters |-> ch.filters, flow |-> ch.flow, rx |-> ch.rx]
ChannelsShaped ==
  /\ channels = [id \in DOMAIN channels |-> channels[id]]
  /\ \A id \in DOMAIN channels : IsChannel(channels[id]) /\ IsQueue(channels[id].rx)
Wanting ==
  \A t \in Threads : thread[t].at \in {"asleep", "awake"} => thread[t].left \in Nat \ {0}

Prompt(id) == Sleeping(id) # {} => Len(channels[id].rx) <= Cardinality(Awake(id))

PromptInv == DeviceInv /\ ChannelsShaped /\ Wanting /\ PromptRead

LEMMA QueueFacts ==
  /\ IsQueue(<<>>)
  /\ \A q : IsQueue(q) => Len(q) \in Nat
  /\ \A p, q : IsQueue(p) /\ IsQueue(q) => IsQueue(p \o q) /\ Len(p \o q) = Len(p) + Len(q)
<1>1. <<>> \in Seq({})
  OBVIOUS
<1>2. ASSUME NEW q, IsQueue(q) PROVE Len(q) \in Nat
  BY <1>2 DEF IsQueue
<1>3. ASSUME NEW p, NEW q, IsQueue(p), IsQueue(q)
      PROVE  IsQueue(p \o q) /\ Len(p \o q) = Len(p) + Len(q)
  <2>1. PICK S, T : p \in Seq(S) /\ q \in Seq(T)
    BY <1>3 DEF IsQueue
  <2>2. p \in Seq(S \cup T) /\ q \in Seq(S \cup T)
    BY <2>1
  <2>3. p \o q \in Seq(S \cup T) /\ Len(p \o q) = Len(p) + Len(q)
    BY <2>2
  <2> QED
    BY <2>3 DEF IsQueue
<1> QED
  BY <1>1, <1>2, <1>3 DEF IsQueue

\* Taking from a queue takes one message at least if it has one.
LEMMA TakenFacts ==
  ASSUME NEW q, IsQueue(q), NEW want \in Nat \ {0}
  PROVE  LET rest == SubSeq(q, Smaller(want, Len(q)) + 1, Len(q))
         IN IsQueue(rest) /\ (Len(rest) = 0 \/ Len(rest) + 1 <= Len(q))
<1>1. PICK S : q \in Seq(S)
  BY DEF IsQueue
<1> DEFINE from == Smaller(want, Len(q)) + 1
<1>2. Len(q) \in Nat /\ from \in Nat /\ from >= 1 /\ from <= Len(q) + 1 /\ (Len(q) > 0 => from >= 2)
  BY <1>1 DEF Smaller
<1> HIDE DEF from
<1>3. SubSeq(q, from, Len(q)) \in Seq(S)
  BY <1>1, <1>2
<1>4. Len(SubSeq(q, from, Len(q))) = IF from <= Len(q) THEN Len(q) - from + 1 ELSE 0
  BY <1>1, <1>2
<1>5. IsQueue(SubSeq(q, from, Len(q)))
  BY <1>3 DEF IsQueue
<1> QED
  BY <1>2, <1>4, <1>5 DEF from

\* The threads of a channel can be counted.
LEMMA ThreadsFinite ==
  ASSUME NEW S \in SUBSET Threads
  PROVE  IsFiniteSet(S) /\ Cardinality(S) \in Nat
BY DeviceAssumption, FS_Subset, FS_CardinalityType

\* A set of answers, put in any order, is a queue.
LEMMA AnswersAreQueue ==
  ASSUME NEW S, IsFiniteSet(S) PROVE IsQueue(SetToSeq(S))
<1>1. Cardinality(S) \in Nat /\ ExistsBijection(1..Cardinality(S), S)
  BY FS_CardinalityType
<1>2. \E f \in [1..Cardinality(S) -> S] : IsInjective(f)
  BY <1>1 DEF ExistsBijection, Bijection, Injection
<1>3. SetToSeq(S) \in [1..Cardinality(S) -> S]
  BY <1>2 DEF SetToSeq
<1>4. SetToSeq(S) \in Seq(S)
  BY <1>1, <1>3
<1> QED
  BY <1>4 DEF IsQueue

\* A channel's claim stays when it loses messages and sleepers, not awake ones.
LEMMA PromptStays ==
  ASSUME NEW id, Prompt(id), Sleeping(id)' \subseteq Sleeping(id),
         Awake(id) \subseteq Awake(id)', channels'[id].rx = channels[id].rx,
         Len(channels[id].rx) \in Nat
  PROVE  Prompt(id)'
<1>1. Awake(id)' \in SUBSET Threads
  BY DEF Awake
<1>2. IsFiniteSet(Awake(id)') /\ Cardinality(Awake(id)') \in Nat
  BY <1>1, ThreadsFinite
<1>3. Cardinality(Awake(id)) <= Cardinality(Awake(id)')
  BY <1>2, FS_Subset
<1>4. Cardinality(Awake(id)) \in Nat
  BY ThreadsFinite DEF Awake
<1> QED
  BY <1>2, <1>3, <1>4 DEF Prompt

LEMMA EmptyIsPrompt ==
  ASSUME NEW id, Len(channels'[id].rx) = 0 PROVE Prompt(id)'
<1>1. Awake(id)' \in SUBSET Threads
  BY DEF Awake
<1>2. Cardinality(Awake(id)') \in Nat
  BY <1>1, ThreadsFinite
<1> QED
  BY <1>2 DEF Prompt

\* Shape and claims when only threads move, and what they ask for stays.
LEMMA ChannelsStay ==
  ASSUME ChannelsShaped, channels' = channels PROVE ChannelsShaped'
BY DEF ChannelsShaped

LEMMA WantingStays ==
  ASSUME DeviceInv, Wanting, NEW who, thread' = Roused(who) PROVE Wanting'
<1>1. ASSUME NEW t \in Threads
      PROVE  /\ Roused(who)[t].left = thread[t].left
             /\ Roused(who)[t].at \in {"asleep", "awake"} => thread[t].at \in {"asleep", "awake"}
  BY DEF Roused, DeviceInv, ThreadsShaped, IsCall
<1> QED
  BY <1>1 DEF Wanting

\* Nobody sleeps once all are roused.
LEMMA AllPrompt ==
  ASSUME DeviceInv, thread' = Roused(Threads) PROVE PromptRead'
<1>1. \A id : Sleeping(id)' = {}
  BY RousedFacts DEF Sleeping, DeviceInv
<1> QED
  BY <1>1 DEF PromptRead

\* Channels that go while every sleeper is roused.
LEMMA PromptClosing ==
  ASSUME PromptInv, thread' = Roused(Threads), NEW S \in SUBSET DOMAIN channels,
         channels' = [id \in S |-> channels[id]]
  PROVE  ChannelsShaped' /\ Wanting' /\ PromptRead'
BY WantingStays, AllPrompt DEF PromptInv, ChannelsShaped

LEMMA NoChannels ==
  ASSUME channels' = <<>> PROVE channels' = [id \in {} |-> channels[id]]
OBVIOUS

\* Channels are changed that keep their messages or lose them all, or are new.
LEMMA PromptEditing ==
  ASSUME PromptInv, UNCHANGED <<thread, crossed>>,
         channels' = [id \in DOMAIN channels' |-> channels'[id]],
         \A id \in DOMAIN channels' :
           /\ IsChannel(channels'[id])
           /\ \/ channels'[id].rx = <<>>
              \/ id \in DOMAIN channels /\ channels'[id].rx = channels[id].rx
  PROVE  ChannelsShaped' /\ Wanting' /\ PromptRead'
<1>1. ChannelsShaped'
  BY QueueFacts DEF PromptInv, ChannelsShaped
<1>2. Wanting'
  BY DEF PromptInv, Wanting
<1>3. ASSUME NEW id \in DOMAIN channels' \ crossed' PROVE Prompt(id)'
  <2>1. CASE channels'[id].rx = <<>>
    BY <2>1, EmptyIsPrompt
  <2>2. CASE id \in DOMAIN channels /\ channels'[id].rx = channels[id].rx
    <3>1. Prompt(id) /\ Len(channels[id].rx) \in Nat
      BY <1>3, <2>2, QueueFacts DEF PromptInv, PromptRead, Prompt, ChannelsShaped
    <3>2. Sleeping(id)' = Sleeping(id) /\ Awake(id)' = Awake(id)
      BY DEF Sleeping, Awake
    <3> QED
      BY <2>2, <3>1, <3>2, PromptStays
  <2> QED
    BY <1>3, <2>1, <2>2
<1>4. PromptRead'
  BY <1>3 DEF PromptRead, Prompt
<1> QED
  BY <1>1, <1>2, <1>4

LEMMA SetFiltersFacts ==
  ASSUME ChannelsShaped, NEW id \in DOMAIN channels, NEW fs, SetFilters(id, fs)
  PROVE  /\ channels' = [c \in DOMAIN channels' |-> channels'[c]]
         /\ \A c \in DOMAIN channels' :
              IsChannel(channels'[c]) /\ c \in DOMAIN channels /\ channels'[c].rx = channels[c].rx
<1> DEFINE ch == [channels[id] EXCEPT !.filters = fs, !.flow = FlowId(fs)]
<1>1. channels' = [channels EXCEPT ![id] = ch]
  BY Zenon DEF SetFilters
<1>0. ASSUME NEW c, NEW f, NEW g, IsChannel(c)
      PROVE  IsChannel([c EXCEPT !.filters = f, !.flow = g])
             /\ [c EXCEPT !.filters = f, !.flow = g].rx = c.rx
  <2>1. PICK r : r = [c EXCEPT !.filters = f, !.flow = g]
    OBVIOUS
  <2>2. r.rx = c.rx /\ r = [x \in {"echo", "filters", "flow", "rx"} |-> r[x]]
    BY <1>0, <2>1 DEF IsChannel
  <2>3. IsChannel(r)
    BY <2>2 DEF IsChannel
  <2> QED
    BY <2>1, <2>2, <2>3
<1>2. IsChannel(ch) /\ ch.rx = channels[id].rx
  BY <1>0 DEF ChannelsShaped
<1> HIDE DEF ch
<1> QED
  BY <1>1, <1>2 DEF ChannelsShaped

LEMMA EmptiedFacts ==
  ASSUME ChannelsShaped, NEW id \in DOMAIN channels,
         NEW q, channels' = [channels EXCEPT ![id].rx = q]
  PROVE  /\ channels' = [c \in DOMAIN channels |-> channels'[c]]
         /\ channels'[id].rx = q
         /\ \A c \in DOMAIN channels :
              IsChannel(channels'[c]) /\ (c # id => channels'[c] = channels[c])
<1> DEFINE ch == [channels[id] EXCEPT !.rx = q]
<1>1. channels' = [channels EXCEPT ![id] = ch]
  BY Zenon
<1>2. IsChannel(ch) /\ ch.rx = q
  BY DEF IsChannel, ChannelsShaped
<1> HIDE DEF ch
<1> QED
  BY <1>1, <1>2 DEF ChannelsShaped

LEMMA PromptInit == Init => ChannelsShaped /\ Wanting /\ PromptRead
<1> SUFFICES ASSUME Init PROVE ChannelsShaped /\ Wanting /\ PromptRead
  OBVIOUS
<1>1. DOMAIN channels = {} /\ channels = [id \in {} |-> channels[id]]
  BY DEF Init
<1>2. \A t \in Threads : thread[t].at = "idle"
  BY DEF Init, Idle
<1> QED
  BY <1>1, <1>2 DEF ChannelsShaped, Wanting, PromptRead

LEMMA PromptOpenDevice ==
  ASSUME PromptInv, NEW t \in Threads, OpenDevice(t)
  PROVE  ChannelsShaped' /\ Wanting' /\ PromptRead'
<1>1. channels' = <<>> /\ UNCHANGED <<thread, crossed>>
  BY DEF OpenDevice
<1>2. DOMAIN channels' = {} /\ channels' = [id \in DOMAIN channels' |-> channels'[id]]
  BY <1>1
<1> QED
  BY <1>1, <1>2, PromptEditing

LEMMA PromptCloseDevice ==
  ASSUME PromptInv, NEW t \in Threads, CloseDevice(t)
  PROVE  ChannelsShaped' /\ Wanting' /\ PromptRead'
<1>1. thread' = Roused(Threads) /\ channels' = [id \in {} |-> channels[id]]
  BY NoChannels DEF CloseDevice
<1> QED
  BY <1>1, PromptClosing

LEMMA PromptConnect ==
  ASSUME PromptInv, NEW t \in Threads, NEW echo, Connect(t, echo)
  PROVE  ChannelsShaped' /\ Wanting' /\ PromptRead'
<1> DEFINE fresh == [echo |-> echo, filters |-> <<>>, flow |-> 0, rx |-> <<>>]
<1>1. PICK id : /\ channels' = [c \in DOMAIN channels \cup {id} |-> IF c = id THEN fresh ELSE channels[c]]
                /\ UNCHANGED <<thread, crossed>>
  BY DEF Connect
<1>2. IsChannel(fresh) /\ fresh.rx = <<>>
  BY DEF IsChannel
<1> HIDE DEF fresh
<1>3. \A c \in DOMAIN channels : IsChannel(channels[c])
  BY DEF PromptInv, ChannelsShaped
<1>4. DOMAIN channels' = DOMAIN channels \cup {id}
      /\ \A c \in DOMAIN channels' : channels'[c] = IF c = id THEN fresh ELSE channels[c]
  BY <1>1
<1>5. channels' = [c \in DOMAIN channels' |-> channels'[c]]
  BY <1>1
<1> QED
  BY <1>1, <1>2, <1>3, <1>4, <1>5, PromptEditing

LEMMA PromptDisconnect ==
  ASSUME PromptInv, NEW t \in Threads, NEW id, Disconnect(t, id)
  PROVE  ChannelsShaped' /\ Wanting' /\ PromptRead'
BY PromptClosing DEF Disconnect

LEMMA PromptShutdown ==
  ASSUME PromptInv, Shutdown PROVE ChannelsShaped' /\ Wanting' /\ PromptRead'
<1>1. CASE Unlocked
  <2>1. thread' = Roused(Threads) /\ channels' = [id \in {} |-> channels[id]]
    BY <1>1, NoChannels DEF Shutdown
  <2> QED
    BY <2>1, PromptClosing
<1>2. CASE ~Unlocked
  <2>1. UNCHANGED <<thread, channels, crossed>>
    BY <1>2 DEF Shutdown
  <2> QED
    BY <2>1 DEF PromptInv, ChannelsShaped, Wanting, PromptRead, Sleeping, Awake
<1> QED
  BY <1>1, <1>2

LEMMA PromptFilters ==
  ASSUME PromptInv, NEW t \in Threads, NEW id \in DOMAIN channels, NEW x,
         StartMsgFilter(t, id, x) \/ StopMsgFilter(t, id, x) \/ Ioctl(t, id)
  PROVE  ChannelsShaped' /\ Wanting' /\ PromptRead'
<1>1. UNCHANGED <<thread, crossed>> /\ ChannelsShaped
  BY DEF StartMsgFilter, StopMsgFilter, Ioctl, PromptInv
<1>2. (\E fs : SetFilters(id, fs)) \/ channels' = [channels EXCEPT ![id].rx = <<>>]
  BY Zenon DEF StartMsgFilter, StopMsgFilter, Ioctl
<1>3. CASE \E fs : SetFilters(id, fs)
  BY <1>1, <1>3, SetFiltersFacts, PromptEditing
<1>4. CASE channels' = [channels EXCEPT ![id].rx = <<>>]
  <2>1. /\ channels' = [c \in DOMAIN channels |-> channels'[c]]
        /\ channels'[id].rx = <<>>
        /\ \A c \in DOMAIN channels :
             IsChannel(channels'[c]) /\ (c # id => channels'[c] = channels[c])
    BY <1>1, <1>4, EmptiedFacts
  <2>2. DOMAIN channels' = DOMAIN channels
    BY <2>1
  <2> QED
    BY <1>1, <2>1, <2>2, PromptEditing
<1> QED
  BY <1>2, <1>3, <1>4

LEMMA PromptWriteMsgs ==
  ASSUME PromptInv, NEW t \in Threads, NEW id, NEW n, WriteMsgs(t, id, n)
  PROVE  ChannelsShaped' /\ Wanting' /\ PromptRead'
<1>1. /\ \A u \in Threads : u # t => thread'[u] = thread[u]
      /\ thread'[t].at = "writing" /\ thread[t].at = "idle"
      /\ UNCHANGED <<channels, crossed>>
  BY DEF WriteMsgs, Calls, PromptInv, DeviceInv, ThreadsShaped
<1>2. \A c : Sleeping(c)' = Sleeping(c) /\ Awake(c)' = Awake(c)
  BY <1>1 DEF Sleeping, Awake
<1> QED
  BY <1>1, <1>2 DEF PromptInv, ChannelsShaped, Wanting, PromptRead

\* A message is taken for every thread that no longer waits.
LEMMA PromptTake ==
  ASSUME PromptInv, NEW t \in Threads, NEW id \in DOMAIN channels, NEW want \in Nat \ {0},
         Take(t, id, want), crossed' = crossed,
         thread[t].at = "idle" \/ thread[t].channel = id
  PROVE  ChannelsShaped' /\ Wanting' /\ PromptRead'
<1>1. PICK rest : /\ rest = SubSeq(channels[id].rx, Smaller(want, Len(channels[id].rx)) + 1,
                                   Len(channels[id].rx))
                  /\ channels' = [channels EXCEPT ![id].rx = rest]
  BY Zenon DEF Take
<1>2. ChannelsShaped /\ IsQueue(channels[id].rx)
  BY DEF PromptInv, ChannelsShaped
<1>3. /\ channels' = [c \in DOMAIN channels |-> channels'[c]]
      /\ channels'[id].rx = rest
      /\ \A c \in DOMAIN channels :
           IsChannel(channels'[c]) /\ (c # id => channels'[c] = channels[c])
  BY <1>1, <1>2, EmptiedFacts
<1>4. /\ IsQueue(rest) /\ Len(rest) \in Nat /\ Len(channels[id].rx) \in Nat
      /\ Len(rest) = 0 \/ Len(rest) + 1 <= Len(channels[id].rx)
  BY <1>1, <1>2, TakenFacts, QueueFacts
<1>5. ChannelsShaped'
  BY <1>2, <1>3, <1>4 DEF ChannelsShaped
<1>6. /\ \A u \in Threads : u # t => thread'[u] = thread[u]
      /\ thread'[t].at = "idle"
  BY DEF Take, Idle, PromptInv, DeviceInv, ThreadsShaped
<1>7. Wanting'
  BY <1>6 DEF PromptInv, Wanting
<1>8. \A c : /\ Sleeping(c)' \subseteq Sleeping(c)
             /\ c # id => Awake(c) \subseteq Awake(c)'
             /\ Awake(c) \ {t} \subseteq Awake(c)'
  BY <1>6 DEF Sleeping, Awake
<1>9. ASSUME NEW c \in DOMAIN channels' \ crossed' PROVE Prompt(c)'
  <2>0. c \in DOMAIN channels \ crossed /\ Prompt(c) /\ Len(channels[c].rx) \in Nat
    BY <1>3, <1>9, QueueFacts DEF PromptInv, PromptRead, Prompt, ChannelsShaped
  <2>1. CASE c # id
    BY <1>3, <1>8, <2>0, <2>1, PromptStays
  <2>2. CASE c = id /\ Len(rest) = 0
    BY <1>3, <2>2, EmptyIsPrompt
  <2>3. CASE c = id /\ Len(rest) + 1 <= Len(channels[id].rx)
    <3>1. Awake(id) \in SUBSET Threads /\ Awake(id)' \in SUBSET Threads
      BY DEF Awake
    <3>2. /\ IsFiniteSet(Awake(id)) /\ Cardinality(Awake(id)) \in Nat
          /\ IsFiniteSet(Awake(id)') /\ Cardinality(Awake(id)') \in Nat
      BY <3>1, ThreadsFinite
    <3>3. Cardinality(Awake(id) \ {t}) >= Cardinality(Awake(id)) - 1
      <4>1. Cardinality(Awake(id) \ {t})
              = IF t \in Awake(id) THEN Cardinality(Awake(id)) - 1 ELSE Cardinality(Awake(id))
        BY <3>2, FS_RemoveElement, Zenon
      <4> QED
        BY <3>2, <4>1
    <3>4. /\ Cardinality(Awake(id) \ {t}) <= Cardinality(Awake(id)')
          /\ Cardinality(Awake(id) \ {t}) \in Nat
      BY <1>8, <3>2, FS_Subset, FS_CardinalityType
    <3>5. Sleeping(id)' # {} => Sleeping(id) # {}
      BY <1>8
    <3>6. Len(channels'[id].rx) = Len(rest)
      BY <1>3
    <3>7. Prompt(id)
      BY <2>0, <2>3
    <3> QED
      BY <1>4, <2>3, <3>2, <3>3, <3>4, <3>5, <3>6, <3>7 DEF Prompt
  <2> QED
    BY <1>4, <2>1, <2>2, <2>3
<1>10. PromptRead'
  BY <1>9 DEF PromptRead, Prompt
<1> QED
  BY <1>5, <1>7, <1>10

\* A thread goes to sleep on an empty queue only.
LEMMA PromptSleep ==
  ASSUME PromptInv, NEW t \in Threads, NEW id \in DOMAIN channels, channels[id].rx = <<>>,
         UNCHANGED <<channels, crossed>>,
         \A u \in Threads : u # t => thread'[u] = thread[u],
         thread[t].at = "idle" \/ thread[t].channel = id,
         thread'[t].at = "asleep", thread'[t].channel = id, thread'[t].left \in Nat \ {0}
  PROVE  ChannelsShaped' /\ Wanting' /\ PromptRead'
<1>1. ChannelsShaped' /\ Wanting'
  BY DEF PromptInv, ChannelsShaped, Wanting
<1>2. ASSUME NEW c \in DOMAIN channels' \ crossed' PROVE Prompt(c)'
  <2>1. CASE c = id
    BY <2>1, EmptyIsPrompt
  <2>2. CASE c # id
    <3>1. Sleeping(c)' \subseteq Sleeping(c) /\ Awake(c) \subseteq Awake(c)'
      BY <2>2 DEF Sleeping, Awake
    <3>2. Prompt(c) /\ Len(channels[c].rx) \in Nat
      BY <1>2, QueueFacts DEF PromptInv, PromptRead, Prompt, ChannelsShaped
    <3> QED
      BY <3>1, <3>2, PromptStays
  <2> QED
    BY <2>1, <2>2
<1>3. PromptRead'
  BY <1>2 DEF PromptRead, Prompt
<1> QED
  BY <1>1, <1>3

LEMMA PromptReadMsgs ==
  ASSUME PromptInv, NEW t \in Threads, NEW id \in DOMAIN channels, NEW want \in 1..MaxWants,
         NEW waits, ReadMsgs(t, id, want, waits)
  PROVE  ChannelsShaped' /\ Wanting' /\ PromptRead'
<1>0. want \in Nat \ {0} /\ thread[t].at = "idle" /\ crossed' = crossed
  BY DEF ReadMsgs, Calls
<1>1. CASE Take(t, id, want)
  BY <1>0, <1>1, PromptTake
<1>2. CASE ~Take(t, id, want)
  <2>1. channels[id].rx = <<>> /\ UNCHANGED <<channels, crossed>>
    BY <1>2 DEF ReadMsgs
  <2>2. /\ \A u \in Threads : u # t => thread'[u] = thread[u]
        /\ thread'[t] = [at |-> "asleep", channel |-> id, left |-> want]
    BY <1>2 DEF ReadMsgs, PromptInv, DeviceInv, ThreadsShaped
  <2> QED
    BY <1>0, <2>1, <2>2, PromptSleep
<1> QED
  BY <1>1, <1>2

LEMMA PromptResume ==
  ASSUME PromptInv, NEW t \in Threads, Resume(t)
  PROVE  ChannelsShaped' /\ Wanting' /\ PromptRead'
<1> DEFINE id == thread[t].channel
<1>0. /\ crossed' = crossed /\ thread[t].at \in {"awake", "asleep"}
      /\ thread[t].left \in Nat \ {0}
  BY DEF Resume, PromptInv, Wanting
<1>1. CASE id \in DOMAIN channels /\ Take(t, id, thread[t].left)
  BY <1>0, <1>1, PromptTake
<1>2. CASE /\ id \in DOMAIN channels /\ channels[id].rx = <<>> /\ UNCHANGED channels
           /\ thread' = [thread EXCEPT ![t].at = "asleep"]
  <2>1. /\ \A u \in Threads : u # t => thread'[u] = thread[u]
        /\ thread'[t].at = "asleep" /\ thread'[t].channel = thread[t].channel
        /\ thread'[t].left = thread[t].left
    BY <1>2 DEF PromptInv, DeviceInv, ThreadsShaped, IsCall
  <2> QED
    BY <1>0, <1>2, <2>1, PromptSleep
<1>3. CASE /\ id \notin DOMAIN channels /\ UNCHANGED channels
           /\ thread' = [thread EXCEPT ![t] = Idle]
  <2>1. (\A u \in Threads : u # t => thread'[u] = thread[u]) /\ thread'[t].at = "idle"
    BY <1>3 DEF PromptInv, DeviceInv, ThreadsShaped, Idle
  <2>2. ChannelsShaped' /\ Wanting'
    BY <1>3, <2>1 DEF PromptInv, ChannelsShaped, Wanting
  <2>3. ASSUME NEW c \in DOMAIN channels' \ crossed' PROVE Prompt(c)'
    <3>1. Sleeping(c)' \subseteq Sleeping(c) /\ Awake(c) \subseteq Awake(c)'
      BY <1>3, <2>1, <2>3 DEF Sleeping, Awake
    <3>2. Prompt(c) /\ Len(channels[c].rx) \in Nat
      BY <1>0, <1>3, <2>3, QueueFacts DEF PromptInv, PromptRead, Prompt, ChannelsShaped
    <3> QED
      BY <1>3, <3>1, <3>2, PromptStays
  <2>4. PromptRead'
    BY <2>3 DEF PromptRead, Prompt
  <2> QED
    BY <2>2, <2>4
<1> QED
  BY <1>1, <1>2, <1>3 DEF Resume

\* What one exchange leaves for the queue is a queue.
LEMMA ReceivedFacts ==
  ASSUME NEW id, NEW result, NEW messages \in Received(id, result) PROVE IsQueue(messages)
<1> DEFINE echo == IF channels[id].echo THEN <<Echo>> ELSE <<>>
           heard == IF channels[id].flow = 0 THEN Responders ELSE {channels[id].flow}
           passed == {r \in heard : RxFilterAllows(channels[id].filters, r)}
<1>1. IsQueue(echo)
  <2>1. <<>> \in Seq({Echo}) /\ <<Echo>> \in Seq({Echo})
    OBVIOUS
  <2> QED
    BY <2>1 DEF IsQueue
<1>2. IsFiniteSet(heard)
  <2>1. \A x : IsFiniteSet({x})
    BY FS_Singleton
  <2> QED
    BY <2>1, DeviceAssumption
<1>3. ASSUME NEW answers \in SUBSET passed PROVE IsQueue(SetToSeq(answers))
  <2>1. answers \in SUBSET heard
    OBVIOUS
  <2>2. IsFiniteSet(answers)
    BY <1>2, <2>1, FS_Subset
  <2> QED
    BY <2>2, AnswersAreQueue
<1>4. messages \in {echo \o SetToSeq(answers) : answers \in SUBSET passed} \/ messages = echo
      \/ messages = <<>>
  BY Zenon DEF Received
<1> HIDE DEF echo, passed
<1> QED
  BY <1>1, <1>3, <1>4, QueueFacts

\* A message that is queued wakes a reader: of the same channel, or the channel
\* counts as crossed.
LEMMA PromptWriteOne ==
  ASSUME PromptInv, NEW t \in Threads, WriteOne(t)
  PROVE  ChannelsShaped' /\ Wanting' /\ PromptRead'
<1>1. PICK id : id = thread[t].channel
  OBVIOUS
<1>2. thread[t].at = "writing" /\ id \in DOMAIN channels /\ ChannelsShaped
  BY <1>1 DEF WriteOne, PromptInv, DeviceInv, NobodyStranded
<1>3. PICK outcome, messages, who, c :
        /\ messages \in Received(id, outcome)
        /\ channels' = [channels EXCEPT ![id].rx = @ \o messages]
        /\ who \in Woken(id, Len(messages))
        /\ thread' = [Roused(who) EXCEPT ![t] = c]
        /\ c = Idle \/ c = OneLess(Roused(who)[t])
        /\ crossed' = IF \E r \in who : thread[r].channel # id THEN crossed \cup {id} ELSE crossed
  <2> DEFINE ends(outcome) == outcome[2] \notin {"Ok", "Silent"} \/ thread[t].left = 1
  <2>1. \E outcome \in Outcomes : \E messages \in Received(thread[t].channel, outcome[2]) :
          /\ channels' = [channels EXCEPT ![thread[t].channel].rx = @ \o messages]
          /\ \E who \in Woken(thread[t].channel, Len(messages)) :
             /\ thread' = [Roused(who) EXCEPT ![t] = IF ends(outcome) THEN Idle ELSE OneLess(@)]
             /\ crossed' = IF \E r \in who : thread[r].channel # thread[t].channel
                           THEN crossed \cup {thread[t].channel} ELSE crossed
    BY Zenon DEF WriteOne
  <2>2. PICK outcome, messages, who :
          /\ messages \in Received(thread[t].channel, outcome[2])
          /\ who \in Woken(thread[t].channel, Len(messages))
          /\ channels' = [channels EXCEPT ![thread[t].channel].rx = @ \o messages]
          /\ thread' = [Roused(who) EXCEPT ![t] = IF ends(outcome) THEN Idle ELSE OneLess(@)]
          /\ crossed' = IF \E r \in who : thread[r].channel # thread[t].channel
                        THEN crossed \cup {thread[t].channel} ELSE crossed
    BY <2>1, Zenon
  <2>3. PICK c : /\ thread' = [Roused(who) EXCEPT ![t] = c]
                 /\ c = Idle \/ c = OneLess(Roused(who)[t])
    BY <2>2, Zenon
  <2>4. messages \in Received(id, outcome[2]) /\ who \in Woken(id, Len(messages))
    BY <1>1, <2>2
  <2>5. channels' = [channels EXCEPT ![id].rx = @ \o messages]
    BY <1>1, <2>2
  <2>6. crossed' = IF \E r \in who : thread[r].channel # id THEN crossed \cup {id} ELSE crossed
    BY <1>1, <2>2
  <2> HIDE DEF ends
  <2> QED
    BY <2>3, <2>4, <2>5, <2>6, Zenon
<1>4. PICK queue : queue = channels[id].rx \o messages /\ channels' = [channels EXCEPT ![id].rx = queue]
  BY <1>3, Zenon
<1>5. /\ channels' = [d \in DOMAIN channels |-> channels'[d]]
      /\ channels'[id].rx = queue
      /\ \A d \in DOMAIN channels :
           IsChannel(channels'[d]) /\ (d # id => channels'[d] = channels[d])
  BY <1>2, <1>4, EmptiedFacts
<1>6. /\ IsQueue(queue) /\ Len(channels[id].rx) \in Nat /\ Len(messages) \in Nat
      /\ Len(queue) = Len(channels[id].rx) + Len(messages)
  BY <1>2, <1>3, <1>4, ReceivedFacts, QueueFacts DEF ChannelsShaped
<1>7. ChannelsShaped'
  BY <1>2, <1>5, <1>6 DEF ChannelsShaped
<1>8. /\ who \in SUBSET Asleep
      /\ Cardinality(who) = Smaller(Len(messages), Cardinality(Asleep))
  BY <1>3 DEF Woken
<1>9. /\ thread'[t].at \in {"idle", "writing"}
      /\ \A u \in Threads : u # t =>
           /\ u \in who => thread'[u].at = "awake"
           /\ u \notin who => thread'[u].at = thread[u].at
           /\ thread'[u].channel = thread[u].channel /\ thread'[u].left = thread[u].left
  <2>1. thread' = [u \in Threads |-> IF u = t THEN c ELSE Roused(who)[u]]
    BY <1>3 DEF Roused
  <2>2. c.at \in {"idle", "writing"}
    <3>1. CASE c = Idle
      BY <3>1 DEF Idle
    <3>2. CASE c = OneLess(Roused(who)[t])
      BY <1>2, <3>2 DEF OneLess, Roused, PromptInv, DeviceInv, ThreadsShaped, IsCall
    <3> QED
      BY <1>3, <3>1, <3>2
  <2>3. ASSUME NEW u \in Threads
        PROVE  /\ u \in who => Roused(who)[u].at = "awake"
               /\ u \notin who => Roused(who)[u].at = thread[u].at
               /\ Roused(who)[u].channel = thread[u].channel
               /\ Roused(who)[u].left = thread[u].left
    <3>1. IsCall(thread[u]) /\ (u \in who => thread[u].at = "asleep")
      BY <1>8 DEF PromptInv, DeviceInv, ThreadsShaped, Asleep
    <3>2. ASSUME NEW r, IsCall(r)
          PROVE  LET d == [r EXCEPT !.at = "awake"]
                 IN d.at = "awake" /\ d.channel = r.channel /\ d.left = r.left
      BY <3>2 DEF IsCall
    <3>3. Roused(who)[u] = IF u \in who THEN [thread[u] EXCEPT !.at = "awake"] ELSE thread[u]
      BY <3>1 DEF Roused
    <3> QED
      BY <3>1, <3>2, <3>3
  <2> QED
    BY <2>1, <2>2, <2>3
<1>10. Wanting'
  BY <1>8, <1>9 DEF PromptInv, Wanting, Asleep
<1>11. t \notin who /\ \A d : /\ Sleeping(d)' \subseteq Sleeping(d) \ who
                              /\ Awake(d) \subseteq Awake(d)'
  BY <1>2, <1>8, <1>9 DEF Sleeping, Awake, Asleep
<1>12. ASSUME NEW d \in DOMAIN channels' \ crossed' PROVE Prompt(d)'
  <2>0. d \in DOMAIN channels \ crossed /\ Prompt(d) /\ Len(channels[d].rx) \in Nat
    BY <1>2, <1>3, <1>5, <1>12, QueueFacts DEF PromptInv, PromptRead, Prompt, ChannelsShaped
  <2>1. CASE d # id
    BY <1>5, <1>11, <2>0, <2>1, PromptStays
  <2>2. CASE d = id
    <3> SUFFICES ASSUME Sleeping(id)' # {}
                 PROVE  Len(channels'[id].rx) <= Cardinality(Awake(id)')
      BY <2>2 DEF Prompt
    <3>1. \A r \in who : thread[r].channel = id
      BY <1>3, <1>12, <2>2
    <3>2. Asleep \in SUBSET Threads /\ Awake(id) \in SUBSET Threads /\ Awake(id)' \in SUBSET Threads
          /\ who \in SUBSET Threads
      BY <1>8 DEF Asleep, Awake
    <3>3. /\ IsFiniteSet(Asleep) /\ Cardinality(Asleep) \in Nat
          /\ IsFiniteSet(who) /\ Cardinality(who) \in Nat
          /\ IsFiniteSet(Awake(id)) /\ Cardinality(Awake(id)) \in Nat
          /\ IsFiniteSet(Awake(id)') /\ Cardinality(Awake(id)') \in Nat
      BY <3>2, ThreadsFinite
    <3>4. who # Asleep /\ Sleeping(id) # {}
      BY <1>11 DEF Sleeping, Asleep
    <3>5. Cardinality(who) # Cardinality(Asleep)
      BY <1>8, <3>3, <3>4, FS_Subset
    <3>6. Cardinality(who) = Len(messages)
      BY <1>6, <1>8, <3>3, <3>5 DEF Smaller
    <3>7. Awake(id) \cup who \subseteq Awake(id)'
      BY <1>8, <1>9, <1>11, <3>1, <3>2 DEF Awake
    <3>8. Awake(id) \cap who = {}
      BY <1>8 DEF Awake, Asleep
    <3>9. Cardinality(Awake(id) \cup who) = Cardinality(Awake(id)) + Cardinality(who)
      <4>1. Cardinality(Awake(id) \cup who)
              = Cardinality(Awake(id)) + Cardinality(who) - Cardinality(Awake(id) \cap who)
        BY <3>3, FS_Union, Zenon
      <4>2. Cardinality(Awake(id) \cap who) = 0
        BY <3>8, FS_EmptySet, Zenon
      <4> QED
        BY <3>3, <4>1, <4>2
    <3>10. Cardinality(Awake(id) \cup who) <= Cardinality(Awake(id)')
      BY <3>3, <3>7, FS_Subset
    <3>11. Len(channels[id].rx) <= Cardinality(Awake(id))
      BY <2>0, <2>2, <3>4 DEF Prompt
    <3> QED
      BY <1>5, <1>6, <3>3, <3>6, <3>9, <3>10, <3>11
  <2> QED
    BY <2>1, <2>2
<1>13. PromptRead'
  BY <1>12 DEF PromptRead, Prompt
<1> QED
  BY <1>7, <1>10, <1>13

LEMMA PromptStutter ==
  ASSUME PromptInv, UNCHANGED vars PROVE ChannelsShaped' /\ Wanting' /\ PromptRead'
BY DEF vars, PromptInv, ChannelsShaped, Wanting, PromptRead, Sleeping, Awake

\* While the wakes of a channel's messages have all gone to its own readers, no
\* message of it lies in the queue for which a reader sleeps with none awake.
THEOREM NoneWaitsInVain == Spec => []PromptRead
<1>1. Init => PromptInv
  BY InitDevice, PromptInit DEF PromptInv
<1>2. PromptInv /\ [Next]_vars => PromptInv'
  <2> SUFFICES ASSUME PromptInv, [Next]_vars PROVE PromptInv'
    OBVIOUS
  <2>0. DeviceInv'
    BY DeviceInductive DEF PromptInv
  <2> SUFFICES ChannelsShaped' /\ Wanting' /\ PromptRead'
    BY <2>0 DEF PromptInv
  <2>1. CASE Shutdown
    BY <2>1, PromptShutdown
  <2>2. ASSUME NEW t \in Threads,
               OpenDevice(t) \/ CloseDevice(t) \/ WriteOne(t) \/ Resume(t)
        PROVE  ChannelsShaped' /\ Wanting' /\ PromptRead'
    BY <2>2, PromptOpenDevice, PromptCloseDevice, PromptWriteOne, PromptResume
  <2>3. ASSUME NEW t \in Threads, NEW echo \in BOOLEAN, Connect(t, echo)
        PROVE  ChannelsShaped' /\ Wanting' /\ PromptRead'
    BY <2>3, PromptConnect
  <2>4. ASSUME NEW t \in Threads, NEW id \in DOMAIN channels, Disconnect(t, id)
        PROVE  ChannelsShaped' /\ Wanting' /\ PromptRead'
    BY <2>4, PromptDisconnect
  <2>5. ASSUME NEW t \in Threads, NEW id \in DOMAIN channels, NEW x,
               StartMsgFilter(t, id, x) \/ StopMsgFilter(t, id, x) \/ Ioctl(t, id)
        PROVE  ChannelsShaped' /\ Wanting' /\ PromptRead'
    BY <2>5, PromptFilters
  <2>6. ASSUME NEW t \in Threads, NEW id \in DOMAIN channels, NEW n, WriteMsgs(t, id, n)
        PROVE  ChannelsShaped' /\ Wanting' /\ PromptRead'
    BY <2>6, PromptWriteMsgs
  <2>7. ASSUME NEW t \in Threads, NEW id \in DOMAIN channels, NEW want \in 1..MaxWants,
               NEW waits \in BOOLEAN, ReadMsgs(t, id, want, waits)
        PROVE  ChannelsShaped' /\ Wanting' /\ PromptRead'
    BY <2>7, PromptReadMsgs
  <2>8. CASE UNCHANGED vars
    BY <2>8, PromptStutter
  <2> QED
    BY <2>1, <2>2, <2>3, <2>4, <2>5, <2>6, <2>7, <2>8 DEF Next
<1>3. PromptInv => PromptRead
  BY DEF PromptInv
<1> QED
  BY <1>1, <1>2, <1>3, PTL DEF Spec

-----------------------------------------------------------------------------
(* A port that is being opened *)

\* The inductive invariant: types, where each handle can be, what the two threads
\* in close() have in hand, which handles are open, and the counts.
OpenInv == TypeInv /\ Places /\ HandsMeet /\ Held /\ RefsCountUsers

\* It holds of the initial state.
LEMMA OpenInitInv == OpenInit => OpenInv
  BY OpenAssumption
  DEF OpenInit, OpenInv, TypeInv, CtxType, NewCtx, Handles, Places, HandsMeet, Held, InContext,
      LinkHolds, RefsCountUsers, CallerUses, WorkerUses, OpenAssumption

\* What leaving word in an OpenCtx changes.
LEMMA CtxFields ==
  ASSUME NEW c \in CtxType
  PROVE  /\ [c EXCEPT !.abandoned = TRUE] \in CtxType
         /\ [c EXCEPT !.abandoned = TRUE].abandoned = TRUE
         /\ [c EXCEPT !.abandoned = TRUE].refs = c.refs
         /\ [c EXCEPT !.abandoned = TRUE].result = c.result
         /\ [c EXCEPT !.abandoned = TRUE].finished = c.finished
  BY DEF CtxType

\* A step of an attempt's thread that assigns one context, seen field by field.
LEMMA CtxStep ==
  ASSUME TypeInv, NEW b \in Attempts, NEW c \in CtxType,
         ctx' = [ctx EXCEPT ![b] = c]
  PROVE  /\ ctx' \in [Attempts -> CtxType]
         /\ ctx'[b] = c
         /\ \A a \in Attempts \ {b} : ctx'[a] = ctx[a]
  BY DEF TypeInv

\* The actions that leave the contexts alone keep the invariant: first those of
\* the caller and of the unload on the link.
LEMMA LinkStep ==
  ASSUME OpenInv, Close \/ CloseOld \/ ClearOld \/ Configure \/ UnloadStep
  PROVE  OpenInv'
<1> USE DEF OpenInv
<1>1. UNCHANGED <<ctx, worker, got, taken>>
  BY DEF Close, CloseOld, ClearOld, Configure, UnloadStep, UnloadTest, UnloadClose, UnloadClear
<1>2. CASE Close
  <2>1. TypeInv'
    BY <1>2 DEF Close, Meet, InHand, TypeInv, Handles
  <2>2. Places' /\ RefsCountUsers'
    BY <1>2, OpenAssumption
    DEF Close, Meet, InHand, TypeInv, Handles, Places, RefsCountUsers, CallerUses, WorkerUses, OpenAssumption
  <2>3. HandsMeet'
    BY <1>2 DEF Close, Meet, InHand, Places, HandsMeet
  <2>4. Held'
    BY <1>2 DEF Close, Meet, InHand, Places, Held, InContext, LinkHolds
  <2> QED BY <2>1, <2>2, <2>3, <2>4
<1>3. CASE CloseOld
  <2>1. TypeInv'
    BY <1>3 DEF CloseOld, Closes, Meet, InHand, TypeInv, Handles
  <2>2. Places' /\ RefsCountUsers'
    BY <1>3, OpenAssumption
    DEF CloseOld, Closes, Meet, InHand, TypeInv, Handles, Places, RefsCountUsers, CallerUses, WorkerUses, OpenAssumption
  <2>3. HandsMeet'
    BY <1>3 DEF CloseOld, Closes, Meet, InHand, Places, HandsMeet
  <2>4. Held'
    BY <1>3, OpenAssumption
    DEF CloseOld, Closes, Meet, InHand, Places, HandsMeet, Held, InContext, LinkHolds, TypeInv, Handles, OpenAssumption
  <2> QED BY <2>1, <2>2, <2>3, <2>4
<1>4. CASE ClearOld
  <2>1. TypeInv'
    BY <1>4 DEF ClearOld, TypeInv, Handles
  <2>2. Places' /\ RefsCountUsers'
    BY <1>4, OpenAssumption
    DEF ClearOld, TypeInv, Handles, Places, RefsCountUsers, CallerUses, WorkerUses, OpenAssumption
  <2>3. HandsMeet'
    BY <1>4 DEF ClearOld, InHand, Places, HandsMeet
  <2>4. Held'
    BY <1>4, OpenAssumption
    DEF ClearOld, Places, InHand, HandsMeet, Held, InContext, LinkHolds, TypeInv, Handles, OpenAssumption
  <2> QED BY <2>1, <2>2, <2>3, <2>4
<1>5. CASE Configure
  <2>1. TypeInv'
    BY <1>5 DEF Configure, Closes, Meet, InHand, TypeInv, Handles
  <2>2. Places' /\ RefsCountUsers'
    BY <1>5, OpenAssumption
    DEF Configure, Closes, Meet, InHand, TypeInv, Handles, Places, RefsCountUsers, CallerUses, WorkerUses, OpenAssumption
  <2>3. HandsMeet'
    BY <1>5 DEF Configure, Closes, Meet, InHand, Places, HandsMeet
  <2>4. Held'
    BY <1>5, OpenAssumption
    DEF Configure, Closes, Meet, InHand, Places, HandsMeet, Held, InContext, LinkHolds, TypeInv, Handles, OpenAssumption
  <2> QED BY <2>1, <2>2, <2>3, <2>4
<1>6. CASE UnloadTest
  <2>1. TypeInv'
    BY <1>6 DEF UnloadTest, Meet, InHand, TypeInv, Handles
  <2>2. Places' /\ RefsCountUsers'
    BY <1>6, OpenAssumption
    DEF UnloadTest, Meet, InHand, TypeInv, Handles, Places, RefsCountUsers, CallerUses, WorkerUses, OpenAssumption
  <2>3. HandsMeet'
    BY <1>6 DEF UnloadTest, Meet, InHand, Places, HandsMeet
  <2>4. Held'
    BY <1>6 DEF UnloadTest, Meet, InHand, Places, Held, InContext, LinkHolds
  <2> QED BY <2>1, <2>2, <2>3, <2>4
<1>7. CASE UnloadClose
  <2>1. TypeInv'
    BY <1>7 DEF UnloadClose, Closes, TypeInv, Handles
  <2>2. Places' /\ RefsCountUsers'
    BY <1>7, OpenAssumption
    DEF UnloadClose, Closes, TypeInv, Handles, Places, RefsCountUsers, CallerUses, WorkerUses, OpenAssumption
  <2>3. HandsMeet'
    BY <1>7 DEF UnloadClose, Closes, InHand, Places, HandsMeet
  <2>4. Held'
    BY <1>7, OpenAssumption
    DEF UnloadClose, Closes, InHand, Places, HandsMeet, Held, InContext, LinkHolds, TypeInv, Handles, OpenAssumption
  <2> QED BY <2>1, <2>2, <2>3, <2>4
<1>8. CASE UnloadClear
  <2>1. TypeInv'
    BY <1>8 DEF UnloadClear, TypeInv, Handles
  <2>2. Places' /\ RefsCountUsers'
    BY <1>8, OpenAssumption
    DEF UnloadClear, TypeInv, Handles, Places, RefsCountUsers, CallerUses, WorkerUses, OpenAssumption
  <2>3. HandsMeet'
    BY <1>8 DEF UnloadClear, InHand, Places, HandsMeet
  <2>4. Held'
    BY <1>8, OpenAssumption
    DEF UnloadClear, Places, InHand, HandsMeet, Held, InContext, LinkHolds, TypeInv, Handles, OpenAssumption
  <2> QED BY <2>1, <2>2, <2>3, <2>4
<1> QED BY <1>2, <1>3, <1>4, <1>5, <1>6, <1>7, <1>8 DEF UnloadStep

LEMMA WaitedStep == OpenInv /\ Waited => OpenInv'
  BY DEF OpenInv, Waited, linkVars, TypeInv, Handles, Places, InHand, HandsMeet, RefsCountUsers,
         CallerUses, WorkerUses, Held, InContext, LinkHolds

LEMMA DecideStep == OpenInv /\ Decide => OpenInv'
<1> SUFFICES ASSUME OpenInv, Decide PROVE OpenInv'
  OBVIOUS
<1>1. cur \in Attempts /\ ctx[cur] \in CtxType
  BY DEF OpenInv, Decide, Places, TypeInv, Handles
<1>2. CASE ctx[cur].finished
  <2>1. TypeInv'
    BY <1>1, <1>2 DEF OpenInv, Decide, linkVars, TypeInv, CtxType
  <2>2. Places' /\ RefsCountUsers'
    BY <1>1, <1>2 DEF OpenInv, Decide, linkVars, TypeInv, Places, RefsCountUsers, CallerUses, WorkerUses
  <2>3. Held'
    BY <1>1, <1>2, OpenAssumption
    DEF OpenInv, Decide, linkVars, Held, InContext, LinkHolds, Places, OpenAssumption
  <2>4. HandsMeet'
    BY <1>2 DEF OpenInv, Decide, linkVars, Places, InHand, HandsMeet
  <2> QED BY <2>1, <2>2, <2>3, <2>4 DEF OpenInv
<1>3. CASE ~ctx[cur].finished
  <2> DEFINE c == [ctx[cur] EXCEPT !.abandoned = TRUE]
  <2>1. /\ c \in CtxType /\ c.abandoned = TRUE /\ c.refs = ctx[cur].refs
        /\ c.result = ctx[cur].result /\ c.finished = ctx[cur].finished
    BY <1>1, CtxFields
  <2>2. ctx' = [ctx EXCEPT ![cur] = c]
    BY <1>3 DEF Decide
  <2> HIDE DEF c
  <2>3. /\ ctx' \in [Attempts -> CtxType] /\ ctx'[cur] = c
        /\ \A a \in Attempts \ {cur} : ctx'[a] = ctx[a]
    BY <1>1, <2>1, <2>2, CtxStep DEF OpenInv
  <2>4. /\ caller = "decide" /\ caller' = "release" /\ taken' = NoHandle /\ taken = NoHandle
        /\ UNCHANGED <<worker, got, cur, live, handle, unload, mine, seen, raced, twice>>
    BY <1>3 DEF OpenInv, Places, Decide, linkVars
  <2>5. ctx[cur].result = NoHandle /\ worker[cur] # "none" /\ handle = NoHandle
    BY <1>1, <1>3, <2>4 DEF OpenInv, Places, TypeInv, Handles
  <2>6. TypeInv'
    BY <2>3, <2>4 DEF OpenInv, TypeInv, Handles
  <2>7. Places'
    BY <1>1, <1>3, <2>1, <2>3, <2>4, <2>5, OpenAssumption
    DEF OpenInv, Places, OpenAssumption
  <2>8. Held'
    BY <1>1, <2>1, <2>3, <2>4, <2>5, OpenAssumption
    DEF OpenInv, Places, Held, InContext, LinkHolds, OpenAssumption
  <2>9. RefsCountUsers'
    BY <1>1, <2>1, <2>3, <2>4 DEF OpenInv, RefsCountUsers, CallerUses, WorkerUses
  <2>10. HandsMeet'
    BY <2>4 DEF OpenInv, InHand, HandsMeet
  <2> QED BY <2>6, <2>7, <2>8, <2>9, <2>10 DEF OpenInv
<1> QED BY <1>2, <1>3

LEMMA CallerReleaseStep == OpenInv /\ CallerRelease => OpenInv'
<1> SUFFICES ASSUME OpenInv, CallerRelease PROVE OpenInv'
  OBVIOUS
<1> DEFINE c == [ctx[cur] EXCEPT !.refs = @ - 1]
<1>1. cur \in Attempts /\ ctx[cur] \in CtxType /\ ctx[cur].refs \in Int
  BY DEF OpenInv, CallerRelease, Places, TypeInv, Handles, CtxType
<1>2. /\ c \in CtxType /\ c.abandoned = ctx[cur].abandoned /\ c.refs = ctx[cur].refs - 1
      /\ c.result = ctx[cur].result /\ c.finished = ctx[cur].finished
  BY <1>1 DEF CtxType
<1>3. ctx' = [ctx EXCEPT ![cur] = c]
  BY DEF CallerRelease
<1> HIDE DEF c
<1>4. /\ ctx' \in [Attempts -> CtxType] /\ ctx'[cur] = c
      /\ \A a \in Attempts \ {cur} : ctx'[a] = ctx[a]
  BY <1>1, <1>2, <1>3, CtxStep DEF OpenInv
<1>5. /\ caller = "release" /\ taken' = NoHandle /\ handle = NoHandle /\ mine = NoHandle
      /\ UNCHANGED <<worker, got, live, unload, mine, seen, twice>>
      /\ \/ /\ taken = NoHandle /\ caller' = "idle" /\ cur' = NoHandle
            /\ UNCHANGED <<handle, raced>>
         \/ /\ taken = cur /\ caller' = "configure" /\ cur' = cur /\ handle' = taken
            /\ raced' = IF unload # "out" THEN raced \cup ({taken, seen} \ {NoHandle}) ELSE raced
  BY DEF OpenInv, Places, CallerRelease, Meet, InHand
<1>6. TypeInv'
  BY <1>4, <1>5 DEF OpenInv, TypeInv, Handles
<1>7. Places'
  <2>1. worker[cur] # "none"
    BY <1>1, <1>5 DEF OpenInv, Places
  <2> QED BY <1>1, <1>2, <1>4, <1>5, <2>1, OpenAssumption
          DEF OpenInv, Places, TypeInv, Handles, OpenAssumption
<1>8. Held'
  BY <1>1, <1>2, <1>4, <1>5, OpenAssumption
  DEF OpenInv, Places, Held, InContext, LinkHolds, OpenAssumption
<1>9. RefsCountUsers'
  <2> SUFFICES ASSUME NEW a \in Attempts
               PROVE  ctx'[a].refs = (IF CallerUses(a)' THEN 1 ELSE 0)
                                        + (IF WorkerUses(a)' THEN 1 ELSE 0)
    BY DEF RefsCountUsers
  <2>1. /\ ctx[a].refs = (IF CallerUses(a) THEN 1 ELSE 0) + (IF WorkerUses(a) THEN 1 ELSE 0)
        /\ WorkerUses(a)' <=> WorkerUses(a)
    BY <1>5 DEF OpenInv, RefsCountUsers, WorkerUses
  <2>2. ~CallerUses(a)'
    BY <1>5 DEF CallerUses
  <2>3. CallerUses(a) <=> a = cur
    BY <1>5 DEF CallerUses
  <2>4. CASE a = cur
    BY <1>2, <1>4, <2>1, <2>2, <2>3, <2>4
  <2>5. CASE a # cur
    BY <1>4, <2>1, <2>2, <2>3, <2>5
  <2> QED BY <2>4, <2>5
<1>10. HandsMeet'
  <2>1. CASE taken = NoHandle
    BY <1>5, <2>1 DEF OpenInv, InHand, HandsMeet
  <2>2. CASE taken # NoHandle
    BY <1>5, <2>2 DEF InHand, HandsMeet
  <2> QED BY <2>1, <2>2
<1> QED BY <1>6, <1>7, <1>8, <1>9, <1>10 DEF OpenInv

\* open() starts: the attempt is new, so nothing points to its handle yet.
LEMMA OpenCallStep == ASSUME OpenInv, NEW b \in Attempts, OpenCall(b) PROVE OpenInv'
<1>1. /\ caller = "idle" /\ cur = NoHandle /\ cur' = b /\ taken = NoHandle /\ worker[b] = "none"
      /\ mine' = handle
      /\ UNCHANGED <<ctx, worker, got, taken, live, handle, unload, seen, twice>>
      /\ \/ handle = NoHandle /\ caller' = "spawn" /\ raced' = raced
         \/ /\ handle # NoHandle /\ caller' = "closing"
            /\ raced' = IF unload # "out" THEN raced \cup InHand ELSE raced
  BY DEF OpenInv, Places, OpenCall, Meet
<1>2. TypeInv'
  BY <1>1 DEF OpenInv, TypeInv, Handles, InHand
<1>3. Places' /\ RefsCountUsers'
  BY <1>1, OpenAssumption
  DEF OpenInv, TypeInv, Handles, Places, InHand, RefsCountUsers, CallerUses, WorkerUses,
      OpenAssumption
<1>4. HandsMeet'
  BY <1>1 DEF OpenInv, Places, InHand, HandsMeet
<1>5. Held'
  BY <1>1, OpenAssumption
  DEF OpenInv, TypeInv, Handles, Places, InHand, Held, InContext, LinkHolds, OpenAssumption
<1> QED BY <1>2, <1>3, <1>4, <1>5 DEF OpenInv

\* The context and the worker of the attempt.
LEMMA SpawnStep == OpenInv /\ Spawn => OpenInv'
<1> SUFFICES ASSUME OpenInv, Spawn PROVE OpenInv'
  OBVIOUS
<1> DEFINE c == NewCtx(FirstRefs)
<1>1. /\ c \in CtxType /\ c.refs = 2 /\ c.result = NoHandle
      /\ ~c.finished /\ ~c.abandoned
  BY DEF CtxType, NewCtx, FirstRefs, Handles
<1>2. PICK b \in Attempts : b = cur
  BY DEF OpenInv, Spawn, Places, TypeInv, Handles
<1>3. /\ caller = "spawn" /\ taken = NoHandle /\ handle = NoHandle /\ worker[b] = "none"
      /\ UNCHANGED <<got, taken, live, handle, unload, mine, seen, raced, twice>>
      /\ ctx[b] = NewCtx(0) /\ got[b] = NoHandle
  BY <1>2 DEF OpenInv, Spawn, linkVars, Places, TypeInv, Handles
<1>4. ~ctx[b].finished /\ b \notin raced \cup {taken, handle, mine, seen}
  BY <1>3 DEF OpenInv, Places, NewCtx
<1>5. CASE /\ ctx' = [ctx EXCEPT ![b] = c]
           /\ worker' = [worker EXCEPT ![b] = "opening"]
           /\ caller' = "wait" /\ cur' = cur
  <2> HIDE DEF c
  <2>1. /\ ctx' \in [Attempts -> CtxType] /\ ctx'[b] = c
        /\ \A a \in Attempts \ {b} : ctx'[a] = ctx[a]
    BY <1>1, <1>5, CtxStep DEF OpenInv
  <2>2. TypeInv'
    BY <1>2, <1>3, <1>5, <2>1 DEF OpenInv, TypeInv, Handles
  <2>3. Places'
    BY <1>1, <1>2, <1>3, <1>4, <1>5, <2>1, OpenAssumption
    DEF OpenInv, Places, TypeInv, Handles, OpenAssumption
  <2>4. Held'
    BY <1>1, <1>2, <1>3, <1>4, <1>5, <2>1, OpenAssumption
    DEF OpenInv, Places, Held, InContext, LinkHolds, TypeInv, OpenAssumption
  <2>5. RefsCountUsers'
    BY <1>1, <1>2, <1>3, <1>5, <2>1, OpenAssumption
    DEF OpenInv, RefsCountUsers, CallerUses, WorkerUses, TypeInv, OpenAssumption
  <2>6. HandsMeet'
    BY <1>3, <1>5 DEF OpenInv, Places, InHand, HandsMeet
  <2> QED BY <2>2, <2>3, <2>4, <2>5, <2>6 DEF OpenInv
<1>6. CASE /\ worker' = [worker EXCEPT ![b] = "gone"]
           /\ caller' = "idle" /\ cur' = NoHandle /\ UNCHANGED ctx
  <2>1. TypeInv'
    BY <1>3, <1>6 DEF OpenInv, TypeInv, Handles
  <2>2. Places'
    BY <1>2, <1>3, <1>4, <1>6, OpenAssumption
    DEF OpenInv, Places, TypeInv, Handles, OpenAssumption
  <2>3. Held'
    BY <1>2, <1>3, <1>6, OpenAssumption
    DEF OpenInv, Places, Held, InContext, LinkHolds, TypeInv, OpenAssumption
  <2>4. RefsCountUsers'
    BY <1>2, <1>3, <1>6 DEF OpenInv, RefsCountUsers, CallerUses, WorkerUses, TypeInv
  <2>5. HandsMeet'
    BY <1>3, <1>6 DEF OpenInv, Places, InHand, HandsMeet
  <2> QED BY <2>1, <2>2, <2>3, <2>4, <2>5 DEF OpenInv
<1> QED BY <1>2, <1>5, <1>6 DEF Spawn

\* The actions of a worker leave the link alone, but for the history.
LEMMA HandsKept ==
  ASSUME HandsMeet, UNCHANGED <<caller, handle, unload, mine, seen, taken, raced>>
  PROVE  HandsMeet'
  BY DEF InHand, HandsMeet

\* The actions of a worker keep the invariant.
LEMMA OpenedStep == ASSUME OpenInv, NEW b \in Attempts, Opened(b) PROVE OpenInv'
<1>1. TypeInv'
  BY DEF OpenInv, Opened, linkVars, TypeInv, Handles
<1>2. Places' /\ RefsCountUsers'
  BY DEF OpenInv, Opened, linkVars, TypeInv, Places, RefsCountUsers, CallerUses, WorkerUses
<1>3. Held'
  BY OpenAssumption
  DEF OpenInv, Opened, linkVars, TypeInv, Places, Held, InContext, LinkHolds, OpenAssumption
<1>4. HandsMeet'
  BY HandsKept DEF OpenInv, Opened, linkVars
<1> QED BY <1>1, <1>2, <1>3, <1>4 DEF OpenInv

LEMMA PublishStep == ASSUME OpenInv, NEW b \in Attempts, Publish(b) PROVE OpenInv'
<1>0. HandsMeet'
  BY HandsKept DEF OpenInv, Publish, linkVars
<1>1. CASE ctx[b].abandoned
  <2>1. TypeInv'
    BY <1>1 DEF OpenInv, Publish, linkVars, TypeInv
  <2>2. Places' /\ RefsCountUsers' /\ Held'
    BY <1>1 DEF OpenInv, Publish, linkVars, TypeInv, Places, RefsCountUsers, CallerUses, WorkerUses,
                Held, InContext, LinkHolds
  <2> QED BY <1>0, <2>1, <2>2 DEF OpenInv
<1>2. CASE ~ctx[b].abandoned
  <2> DEFINE c == [ctx[b] EXCEPT !.result = got[b], !.finished = TRUE]
  <2>1. ctx[b] \in CtxType /\ got[b] \in Handles
    BY DEF OpenInv, TypeInv
  <2>2. /\ c \in CtxType /\ c.refs = ctx[b].refs /\ ~c.abandoned
        /\ c.result = got[b] /\ c.finished
    BY <1>2, <2>1 DEF CtxType
  <2>3. ctx' = [ctx EXCEPT ![b] = c]
    BY <1>2 DEF Publish
  <2> HIDE DEF c
  <2>4. /\ ctx' \in [Attempts -> CtxType] /\ ctx'[b] = c
        /\ \A a \in Attempts \ {b} : ctx'[a] = ctx[a]
    BY <2>2, <2>3, CtxStep DEF OpenInv
  <2>5. /\ worker[b] = "opened" /\ got' = [got EXCEPT ![b] = NoHandle]
        /\ worker' = [worker EXCEPT ![b] = "release"]
        /\ UNCHANGED <<caller, cur, taken, live, handle, unload, mine, seen, raced, twice>>
    BY <1>2 DEF Publish, linkVars
  <2>6. ~ctx[b].finished /\ taken # b /\ handle # b /\ ctx[b].result = NoHandle /\ b \notin raced
    BY <2>5, OpenAssumption DEF OpenInv, Places, OpenAssumption
  <2>7. got[b] = b => b \in live
    BY <2>6 DEF OpenInv, Held
  <2>8. TypeInv'
    BY <2>4, <2>5 DEF OpenInv, TypeInv, Handles
  <2>9. Places'
    BY <2>1, <2>2, <2>4, <2>5, <2>6, OpenAssumption
    DEF OpenInv, Places, TypeInv, Handles, OpenAssumption
  <2>10. cur = b /\ caller \in {"wait", "decide"}
    BY <1>2, <2>5 DEF OpenInv, Places
  <2>11. Held'
    BY <2>1, <2>2, <2>4, <2>5, <2>6, <2>10, OpenAssumption
    DEF OpenInv, Places, Held, InContext, LinkHolds, TypeInv, Handles, OpenAssumption
  <2>12. RefsCountUsers'
    BY <2>2, <2>4, <2>5 DEF OpenInv, RefsCountUsers, CallerUses, WorkerUses, TypeInv
  <2> QED BY <1>0, <2>8, <2>9, <2>11, <2>12 DEF OpenInv
<1> QED BY <1>1, <1>2

LEMMA CloseOrphanStep == ASSUME OpenInv, NEW b \in Attempts, CloseOrphan(b) PROVE OpenInv'
<1>1. TypeInv'
  BY DEF OpenInv, CloseOrphan, Closes, TypeInv, Handles
<1>2. Places' /\ RefsCountUsers'
  BY DEF OpenInv, CloseOrphan, Closes, TypeInv, Places, RefsCountUsers, CallerUses, WorkerUses
<1>3. Held'
  BY OpenAssumption
  DEF OpenInv, CloseOrphan, Closes, TypeInv, Handles, Places, Held, InContext, LinkHolds,
      OpenAssumption
<1>4. HandsMeet'
  BY HandsKept DEF OpenInv, CloseOrphan
<1> QED BY <1>1, <1>2, <1>3, <1>4 DEF OpenInv

LEMMA WorkerReleaseStep == ASSUME OpenInv, NEW b \in Attempts, WorkerRelease(b) PROVE OpenInv'
<1> DEFINE c == [ctx[b] EXCEPT !.refs = @ - 1]
<1>1. ctx[b] \in CtxType /\ ctx[b].refs \in Int
  BY DEF OpenInv, TypeInv, CtxType
<1>2. /\ c \in CtxType /\ c.abandoned = ctx[b].abandoned /\ c.refs = ctx[b].refs - 1
      /\ c.result = ctx[b].result /\ c.finished = ctx[b].finished
  BY <1>1 DEF CtxType
<1>3. ctx' = [ctx EXCEPT ![b] = c]
  BY DEF WorkerRelease
<1> HIDE DEF c
<1>4. /\ ctx' \in [Attempts -> CtxType] /\ ctx'[b] = c
      /\ \A a \in Attempts \ {b} : ctx'[a] = ctx[a]
  BY <1>2, <1>3, CtxStep DEF OpenInv
<1>5. /\ worker[b] = "release" /\ worker' = [worker EXCEPT ![b] = "gone"]
      /\ UNCHANGED <<got, caller, cur, taken, live, handle, unload, mine, seen, raced, twice>>
  BY DEF WorkerRelease, linkVars
<1>6. TypeInv'
  BY <1>4, <1>5 DEF OpenInv, TypeInv
<1>7. Places'
  BY <1>2, <1>4, <1>5 DEF OpenInv, Places, TypeInv
<1>8. Held'
  BY <1>2, <1>4, <1>5 DEF OpenInv, Held, InContext, LinkHolds
<1>9. RefsCountUsers'
  BY <1>1, <1>2, <1>4, <1>5 DEF OpenInv, RefsCountUsers, CallerUses, WorkerUses, TypeInv
<1>10. HandsMeet'
  BY <1>5, HandsKept DEF OpenInv
<1> QED BY <1>6, <1>7, <1>8, <1>9, <1>10 DEF OpenInv

LEMMA OpenStep == OpenInv /\ [OpenNext]_openVars => OpenInv'
<1> SUFFICES ASSUME OpenInv, [OpenNext]_openVars PROVE OpenInv'
  OBVIOUS
<1>1. CASE UNCHANGED openVars
  BY <1>1 DEF openVars, linkVars, OpenInv, TypeInv, Places, InHand, HandsMeet, Held, InContext,
              LinkHolds, RefsCountUsers, CallerUses, WorkerUses
<1>2. CASE Close \/ CallerStep \/ UnloadStep
  BY <1>2, LinkStep, SpawnStep, WaitedStep, DecideStep, CallerReleaseStep DEF CallerStep
<1>3. ASSUME NEW a \in Attempts, OpenCall(a) \/ Opened(a) \/ WorkerStep(a) PROVE OpenInv'
  BY <1>3, OpenCallStep, OpenedStep, PublishStep, CloseOrphanStep, WorkerReleaseStep
  DEF WorkerStep
<1> QED BY <1>1, <1>2, <1>3 DEF OpenNext

THEOREM OpenInvariant == OpenSpec => []OpenInv
  BY OpenInitInv, OpenStep, PTL DEF OpenSpec

\* Types hold in every reachable state, for every set of attempts.
THEOREM OpenTyped == OpenSpec => []TypeOK
<1>1. OpenInv => TypeOK
  BY DEF OpenInv, TypeOK, RefsCountUsers
<1> QED BY OpenInvariant, <1>1, PTL

\* The counts of every context are the number of its users, however many
\* workers are left behind: none is freed early, none is leaked.
THEOREM OpenCounted == OpenSpec => []RefsCountUsers
<1>1. OpenInv => RefsCountUsers
  BY DEF OpenInv
<1> QED BY OpenInvariant, <1>1, PTL

\* Every open handle has exactly one owner, and a closed one has none, but for
\* those that the caller and the unload had in hand at once, which were the link's.
THEOREM OpenOwned == OpenSpec => []OneOwner
<1>1. ASSUME OpenInv, NEW a \in Attempts \ raced
      PROVE  IF a \in live THEN \E o \in Owners(a) : Owners(a) = {o} ELSE Owners(a) = {}
  <2>1. a \in live <=> got[a] = a \/ InContext(a) \/ taken = a \/ LinkHolds(a)
    BY <1>1 DEF OpenInv, Held
  <2>2. CASE got[a] = a
    <3>1. ~InContext(a) /\ taken # a /\ ~LinkHolds(a)
      BY <1>1, <2>2, OpenAssumption DEF OpenInv, Places, InContext, LinkHolds, OpenAssumption
    <3> QED BY <2>1, <2>2, <3>1 DEF Owners
  <2>3. CASE InContext(a)
    <3>1. got[a] # a /\ taken # a /\ ~LinkHolds(a)
      BY <1>1, <2>3, OpenAssumption DEF OpenInv, Places, InContext, LinkHolds, OpenAssumption
    <3> QED BY <2>1, <2>3, <3>1 DEF Owners
  <2>4. CASE taken = a
    <3>1. got[a] # a /\ ~InContext(a) /\ ~LinkHolds(a)
      BY <1>1, <2>4, OpenAssumption DEF OpenInv, Places, InContext, LinkHolds, OpenAssumption
    <3> QED BY <2>1, <2>4, <3>1 DEF Owners
  <2>5. CASE LinkHolds(a)
    <3>1. got[a] # a /\ ~InContext(a) /\ taken # a
      BY <1>1, <2>5, OpenAssumption DEF OpenInv, Places, InContext, LinkHolds, OpenAssumption
    <3> QED BY <2>1, <2>5, <3>1 DEF Owners
  <2>6. CASE got[a] # a /\ ~InContext(a) /\ taken # a /\ ~LinkHolds(a)
    BY <2>1, <2>6 DEF Owners
  <2> QED BY <2>2, <2>3, <2>4, <2>5, <2>6
<1>2. ASSUME OpenInv, NEW a \in raced
      PROVE  Owners(a) \subseteq {"link"}
  <2>1. a \in Attempts /\ ctx[a].finished
    BY <1>2 DEF OpenInv, TypeInv, Places
  <2>2. got[a] # a /\ ~InContext(a) /\ taken # a
    BY <1>2, <2>1, OpenAssumption DEF OpenInv, Places, InContext, OpenAssumption
  <2> QED BY <2>2 DEF Owners
<1>3. OpenInv => OneOwner
  BY <1>1, <1>2 DEF OneOwner, OpenInv, Held
<1> QED BY OpenInvariant, <1>3, PTL
=============================================================================
