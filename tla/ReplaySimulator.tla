----------------------------- MODULE ReplaySimulator -----------------------------
(***************************************************************************)
(* ReplayJ2534: a scenario file answers for a device.  ConfigStore reads   *)
(* the scenario, Simulator keeps the device, its channels and filters      *)
(* under one lock, and Scheduler's thread brings the delayed replies and   *)
(* the periodic messages to the receive queues of the channels.            *)
(*                                                                         *)
(* A JSON object is a function on the keys it has.  The first element of a *)
(* message stands for its first four bytes, the CAN id.  Times are what is *)
(* left of them, in units of which EchoDelay, SomDelay, JoinTime and       *)
(* StartDelay name the 12, 27, 2000 and 5000 ms of the code.               *)
(***************************************************************************)
EXTENDS Integers, Sequences, SequencesExt, FiniteSets

CONSTANTS
  App, Readers, \* the client's threads: one makes all calls, the others read
  Scenarios,    \* the scenario files
  KnownReturns, KnownIoctls,       \* the names of ConfigStore's tables
  EchoDelay, SomDelay, JoinTime, StartDelay,  \* see above
  Instant,      \* REPLAY_J2534_INSTANT
  Params,       \* bound: the protocol, flags and baud rate of a connect
  Writes,       \* bound: the message lists of a write
  Timeouts,     \* bound: the timeouts of a read
  MaxStray,     \* bound: connects to handle 0 are among the first so many
  MaxConnects, MaxReplies, MaxFilters, MaxQueue  \* bounds

VARIABLES
  store,                \* ConfigStore: the scenario in use
  phase,                \* "up", "stopping" (lock_ held by shutdown()), "down", "failed"
  joinLeft,             \* what is left of shutdown()'s wait for the thread
  device,               \* deviceState_ and deviceId_
  channels, filters,    \* channels_, filters_
  nextChannelId, nextFilterId,
  pending, gens, due,   \* Scheduler: pendingReplies_, periodics_, the thread's batch
  thread,               \* what each client thread does
  connects, made,       \* counters: connections, scheduled messages
  delivered, inOrder,   \* history: messages received, whether in order,
  inFlight              \* and connections that left some in the batch

simVars == <<device, channels, filters, nextChannelId, nextFilterId>>
schedVars == <<pending, gens, due>>
ghosts == <<connects, made, delivered, inOrder, inFlight>>
vars == <<store, phase, joinLeft, simVars, schedVars, thread, ghosts>>

With(f, key, value) == [k \in DOMAIN f \cup {key} |-> IF k = key THEN value ELSE f[k]]
Without(f, keys) == [k \in DOMAIN f \ keys |-> f[k]]

\* The elements of s that are in S, in their order: SelectSeq in a form that can
\* be proved about.
Among(s, S) ==
  LET kept[i \in 0..Len(s)] ==
        IF i = 0 THEN <<>> ELSE IF s[i] \in S THEN Append(kept[i - 1], s[i]) ELSE kept[i - 1]
  IN kept[Len(s)]

Smaller(a, b) == IF a < b THEN a ELSE b
Less(left) == IF left > 0 THEN left - 1 ELSE 0

Threads == {App} \cup Readers

-----------------------------------------------------------------------------
(* ConfigStore *)

Get(object, key, default) == IF key \in DOMAIN object THEN object[key] ELSE default

\* A non-empty sequence makes a sequence rule, whatever the mode says.
ParseReply(v) ==
  LET match == Get(v, "match", <<>>)
      response == Get(v, "response", <<>>)
  IN [exact |-> Get(match, "mode", "prefix") = "exact", match |-> Get(match, "data", <<>>),
      data |-> Get(response, "data", <<>>), delay |-> Get(response, "delayMs", 0),
      sequence |-> Get(response, "sequence", <<>>),
      window |-> Get(response, "timeWindowMs", 2)]

\* Entries without a message, or with an empty one, are left out.
ParsePeriodic(list) ==
  LET usable(v) == "msg" \in DOMAIN v /\ Get(v.msg, "data", <<>>) # <<>>
      rule(v) == [data |-> v.msg.data, interval |-> Get(v, "intervalMs", 3),
                  onConnect |-> Get(v, "startOn", "connect") = "connect"]
      kept == Among(list, {v \in Range(list) : usable(v)})
  IN [i \in DOMAIN kept |-> rule(kept[i])]

ParseTarget(v) ==
  LET replies == Get(v, "replies", <<>>)
  IN [match |-> Get(v, "match", <<>>), preferred |-> Get(v, "preferredChannelId", 0),
      replies |-> [i \in DOMAIN replies |-> ParseReply(replies[i])],
      periodic |-> ParsePeriodic(Get(v, "periodic", <<>>))]

\* What is read as an unsigned number is one, and an array is a sequence.
IsSeq(s) == s \in Seq(Range(s))
ASSUME ScenarioAssumption ==
  \A root \in Scenarios :
    LET targets == Get(root, "targets", <<>>)
    IN /\ IsSeq(targets)
       /\ \A v \in Range(targets) :
            LET replies == Get(v, "replies", <<>>)
                periodic == Get(v, "periodic", <<>>)
            IN /\ Get(v, "preferredChannelId", 0) \in Nat
               /\ IsSeq(replies) /\ IsSeq(periodic)
               /\ \A r \in Range(replies) :
                    Get(Get(r, "response", <<>>), "delayMs", 0) \in Nat
               /\ \A r \in Range(periodic) : Get(r, "intervalMs", 3) \in Nat
ASSUME DelayAssumption ==
  EchoDelay \in Nat /\ SomDelay \in Nat /\ StartDelay \in Nat /\ Timeouts \subseteq Nat
ASSUME WriteAssumption == \A messages \in Writes : IsSeq(messages)

ParseIoctl(v) ==
  [key |-> v.key, code |-> Get(v, "return", "STATUS_NOERROR"), scope |-> Get(v, "scope", "any")]
IoctlsKnown(list) ==
  \A i \in DOMAIN list : list[i].key \in KnownIoctls
                           /\ Get(list[i], "return", "STATUS_NOERROR") \in KnownReturns

ParseScenario(root) ==
  LET ioctls == Get(root, "ioctls", <<>>)
      targets == Get(root, "targets", <<>>)
      states == Get(root, "states", <<>>)
  IN [ok |-> IoctlsKnown(ioctls), echo |-> Get(root, "emitEcho", FALSE),
      ioctls |-> [i \in DOMAIN ioctls |-> ParseIoctl(ioctls[i])],
      targets |-> [i \in DOMAIN targets |-> ParseTarget(targets[i])],
      initial |-> Get(states, "initial", ""),
      transitions |-> Get(states, "transitions", <<>>)]

\* The first target that asks for nothing else; 0 without one.
FindTarget(params) ==
  LET fits(m) == \A key \in DOMAIN m : m[key] = params[key]
  IN SelectInSeq(store.targets, LAMBDA target : fits(target.match))

-----------------------------------------------------------------------------
(* Simulator: device and channels *)

Idle == [at |-> "idle", channel |-> 0, conn |-> 0, left |-> 0, want |-> 0, woken |-> FALSE]

Init ==
  /\ store \in {ParseScenario(s) : s \in Scenarios}
  /\ phase = IF store.ok THEN "up" ELSE "failed"
  /\ joinLeft = 0
  /\ device = [state |-> IF store.initial = "" THEN "CLOSED" ELSE store.initial, id |-> 0]
  /\ channels = <<>> /\ filters = <<>> /\ nextChannelId = 1 /\ nextFilterId = 1
  /\ pending = <<>> /\ gens = <<>> /\ due = <<>>
  /\ thread = [t \in Threads |-> Idle]
  /\ connects = 0 /\ made = 0 /\ delivered = {} /\ inOrder = TRUE /\ inFlight = {}

Free(t) == phase = "up" /\ thread[t].at = "idle"

\* checkTransition(): the state an event leads to, none if it is refused.
Transition(event) ==
  LET fits == SelectSeq(store.transitions,
                        LAMBDA move : move.event = event /\ move.from = device.state)
  IN IF store.transitions = <<>> THEN {device.state}
     ELSE IF fits = <<>> THEN {} ELSE {Head(fits).to}

\* connect() and disconnect() do not ask whether the event was refused.
Moved(event) ==
  device' = [device EXCEPT !.state = IF Transition(event) = {} THEN @
                                     ELSE CHOOSE s \in Transition(event) : TRUE]

OpenDevice(t) ==
  /\ Free(t)
  /\ \E state \in Transition("PassThruOpen") : device' = [state |-> state, id |-> 1]
  /\ UNCHANGED <<store, phase, joinLeft, channels, filters, nextChannelId, nextFilterId,
                 schedVars, thread, ghosts>>

\* The one test of a handle is whether it is deviceId_, which is 0 while the device
\* is closed.
CloseDevice(t, handle) ==
  /\ Free(t) /\ handle = device.id /\ channels = <<>>
  /\ \E state \in Transition("PassThruClose") : device' = [state |-> state, id |-> 0]
  /\ UNCHANGED <<store, phase, joinLeft, channels, filters, nextChannelId, nextFilterId,
                 schedVars, thread, ghosts>>

\* The id wanted if it is free, else the first free one from nextChannelId_.
AllocateChannelId(preferred) ==
  IF preferred > 0 /\ preferred \notin DOMAIN channels THEN preferred
  ELSE LET start == IF preferred + 1 > nextChannelId THEN preferred + 1 ELSE nextChannelId
       IN CHOOSE id \in start..(start + Cardinality(DOMAIN channels)) :
            id \notin DOMAIN channels /\ \A other \in start..(id - 1) : other \in DOMAIN channels

\* startPeriodic(): the first messages come five seconds after the connect.
StartPeriodic(id, target) ==
  LET started == Among(target.periodic, {rule \in Range(target.periodic) : rule.onConnect})
      first(rule) == IF Instant THEN 0 ELSE StartDelay + rule.interval
  IN gens \o [i \in DOMAIN started |->
               [channel |-> id, conn |-> connects + 1, interval |-> started[i].interval,
                left |-> first(started[i])]]

Connect(t, handle, params) ==
  /\ Free(t) /\ handle = device.id /\ connects < (IF handle = 0 THEN MaxStray ELSE MaxConnects)
  /\ Moved("PassThruConnect")
  /\ LET n == FindTarget(params)
         preferred == IF n = 0 THEN 0 ELSE store.targets[n].preferred
         id == AllocateChannelId(preferred)
     IN /\ channels' = With(channels, id, [conn |-> connects + 1, dev |-> handle, target |-> n,
                                           rx |-> <<>>, filters |-> {}, seqs |-> <<>>])
        /\ nextChannelId' = IF id # preferred /\ id >= nextChannelId THEN id + 1
                            ELSE nextChannelId
        /\ gens' = IF n = 0 THEN gens ELSE StartPeriodic(id, store.targets[n])
  /\ connects' = connects + 1
  /\ UNCHANGED <<store, phase, joinLeft, filters, nextFilterId, pending, due, thread, made,
                 delivered, inOrder, inFlight>>

\* Scheduler::cancelReplies(), stopChannel()
MCancelReplies(id) == pending
CancelReplies(id) == Among(pending, {reply \in Range(pending) : reply.channel # id})
StopChannel(id) == Among(gens, {gen \in Range(gens) : gen.channel # id})

Disconnect(t, id) ==
  /\ Free(t) /\ id \in DOMAIN channels
  /\ gens' = StopChannel(id) /\ pending' = CancelReplies(id)
  /\ filters' = Without(filters, {f \in DOMAIN filters : filters[f] = id})
  /\ Moved("PassThruDisconnect")
  /\ channels' = Without(channels, {id})
  /\ thread' = [u \in Threads |-> IF thread[u].at = "waiting"
                                  THEN [thread[u] EXCEPT !.woken = TRUE] ELSE thread[u]]
  /\ inFlight' = inFlight \cup {channels[id].conn : m \in {m \in Range(due) : m.channel = id}}
  /\ UNCHANGED <<store, phase, joinLeft, nextChannelId, nextFilterId, due, connects, made,
                 delivered, inOrder>>

MStartMsgFilter(t, id) ==
  /\ Free(t) /\ id \in DOMAIN channels /\ nextFilterId <= MaxFilters
  /\ filters' = With(filters, nextFilterId, id)
  /\ UNCHANGED channels
  /\ nextFilterId' = nextFilterId + 1
  /\ UNCHANGED <<store, phase, joinLeft, device, nextChannelId, schedVars, thread, ghosts>>
StartMsgFilter(t, id) ==
  /\ Free(t) /\ id \in DOMAIN channels /\ nextFilterId <= MaxFilters
  /\ filters' = With(filters, nextFilterId, id)
  /\ channels' = [channels EXCEPT ![id].filters = @ \cup {nextFilterId}]
  /\ nextFilterId' = nextFilterId + 1
  /\ UNCHANGED <<store, phase, joinLeft, device, nextChannelId, schedVars, thread, ghosts>>

StopMsgFilter(t, id, f) ==
  /\ Free(t) /\ id \in DOMAIN channels
  /\ f \in DOMAIN filters /\ filters[f] = id
  /\ filters' = Without(filters, {f})
  /\ channels' = [channels EXCEPT ![id].filters = @ \ {f}]
  /\ UNCHANGED <<store, phase, joinLeft, device, nextChannelId, nextFilterId, schedVars, thread,
                 ghosts>>

\* ioctl() and readVersion() change nothing: what they answer in a state.
IoctlRule(key) == SelectInSeq(store.ioctls, LAMBDA rule : rule.key = key)
IoctlCode(handle, key) ==
  LET n == IoctlRule(key)
      isChannel == handle \in DOMAIN channels
      isDevice == handle = device.id
      allowed == CASE store.ioctls[n].scope = "device" -> isDevice
                   [] store.ioctls[n].scope = "channel" -> isChannel
                   [] OTHER -> isDevice \/ isChannel
  IN IF n = 0 THEN "ERR_NOT_SUPPORTED"
     ELSE IF ~allowed THEN "ERR_INVALID_CHANNEL_ID" ELSE store.ioctls[n].code
ReadVersionCode(handle) ==
  IF handle = device.id THEN "STATUS_NOERROR" ELSE "ERR_INVALID_DEVICE_ID"

-----------------------------------------------------------------------------
(* Simulator: messages *)

MatchReply(rule, data) ==
  \/ rule.match = <<>>
  \/ rule.exact /\ data = rule.match
  \/ ~rule.exact /\ IsPrefix(rule.match, data)

\* The first reply that matches; 0 without one.
FirstMatch(replies, data) == SelectInSeq(replies, LAMBDA rule : MatchReply(rule, data))

\* A sequence rule moves on when its window has passed since it last did.
NextSeq(seqs, n, rule) ==
  IF n \notin DOMAIN seqs THEN [index |-> 1, age |-> 0]
  ELSE IF seqs[n].age >= (IF Instant THEN 0 ELSE rule.window)
       THEN [index |-> (seqs[n].index % Len(rule.sequence)) + 1, age |-> 0]
       ELSE seqs[n]

\* scheduleReply(): before are the messages of the connection that are due no
\* later and were scheduled first.
MSchedule(work, id, delay) ==
  LET left == IF Instant THEN 0 ELSE delay
      conn == channels[id].conn
      before == {m.n : m \in {m \in Range(due) : m.conn = conn}}
        \cup {m.n : m \in {m \in Range(work.queue) : m.conn = conn /\ m.left <= left}}
  IN [work EXCEPT !.n = @ + 1,
        !.queue = <<[channel |-> id, conn |-> conn, n |-> work.n + 1, left |-> left,
                      before |-> before \ {0}]>> \o @]
Schedule(work, id, delay) ==
  LET left == IF Instant THEN 0 ELSE delay
      conn == channels[id].conn
      before == {m.n : m \in {m \in Range(due) : m.conn = conn}}
        \cup {m.n : m \in {m \in Range(work.queue) : m.conn = conn /\ m.left <= left}}
  IN [work EXCEPT !.n = @ + 1,
        !.queue = Append(@, [channel |-> id, conn |-> conn, n |-> work.n + 1, left |-> left,
                             before |-> before \ {0}])]

\* One message of a write: its echo, and the answer of the first rule that
\* matches, announced if it comes from another id.
WriteOne(id, work, data) ==
  LET target == channels[id].target
      replies == IF target = 0 THEN <<>> ELSE store.targets[target].replies
      n == FirstMatch(replies, data)
      seq == NextSeq(work.seqs, n, replies[n])
      reply == IF replies[n].sequence = <<>> THEN replies[n].data
               ELSE replies[n].sequence[seq.index]
      announced == store.echo /\ reply # <<>> /\ data # <<>> /\ reply[1] # data[1]
      echoed == IF store.echo THEN Schedule(work, id, EchoDelay) ELSE work
      told == IF announced THEN Schedule(echoed, id, SomDelay) ELSE echoed
  IN IF n = 0 THEN echoed
     ELSE [Schedule(told, id, replies[n].delay) EXCEPT
             !.seqs = IF replies[n].sequence = <<>> THEN @ ELSE With(@, n, seq)]

Written(id, messages) ==
  LET work[i \in 0..Len(messages)] ==
        IF i = 0 THEN [queue |-> pending, n |-> made, seqs |-> channels[id].seqs]
                 ELSE WriteOne(id, work[i - 1], messages[i])
  IN work[Len(messages)]

WriteMsgs(t, id, messages) ==
  /\ Free(t) /\ id \in DOMAIN channels
  /\ LET work == Written(id, messages)
     IN /\ work.n <= MaxReplies
        /\ pending' = work.queue /\ made' = work.n
        /\ channels' = [channels EXCEPT ![id].seqs = work.seqs]
  /\ UNCHANGED <<store, phase, joinLeft, device, filters, nextChannelId, nextFilterId, gens, due,
                 thread, connects, delivered, inOrder, inFlight>>

Taken(id, want) ==
  LET rx == channels[id].rx
  IN [channels EXCEPT ![id].rx = SubSeq(rx, Smaller(want, Len(rx)) + 1, Len(rx))]

\* readMsgs(): an empty queue is waited for.
ReadMsgs(t, id, want, timeout) ==
  /\ Free(t) /\ id \in DOMAIN channels
  /\ IF channels[id].rx = <<>> /\ timeout > 0
     THEN /\ thread' = [thread EXCEPT ![t] = [at |-> "waiting", channel |-> id,
                          conn |-> channels[id].conn, left |-> timeout, want |-> want,
                          woken |-> FALSE]]
          /\ UNCHANGED channels
     ELSE channels' = Taken(id, want) /\ UNCHANGED thread
  /\ UNCHANGED <<store, phase, joinLeft, device, filters, nextChannelId, nextFilterId, schedVars,
                 ghosts>>

\* The pointer to the channel is kept over the wait.
Alive(wait) == wait.channel \in DOMAIN channels /\ channels[wait.channel].conn = wait.conn

MSleepAgain(t) ==
  /\ phase = "up" /\ thread[t].at = "waiting" /\ thread[t].woken /\ thread[t].left > 0
  /\ Alive(thread[t]) => channels[thread[t].channel].rx = <<>>
  /\ \E timeout \in Timeouts \ {0} :
       thread' = [thread EXCEPT ![t].woken = FALSE, ![t].left = timeout]
  /\ UNCHANGED <<store, phase, joinLeft, simVars, schedVars, ghosts>>
SleepAgain(t) ==
  /\ phase = "up" /\ thread[t].at = "waiting" /\ thread[t].woken /\ thread[t].left > 0
  /\ Alive(thread[t]) => channels[thread[t].channel].rx = <<>>
  /\ thread' = [thread EXCEPT ![t].woken = FALSE]
  /\ UNCHANGED <<store, phase, joinLeft, simVars, schedVars, ghosts>>

\* A queue that was erased may look full: what is read of it is arbitrary.
ReadReturns(t) ==
  /\ phase = "up" /\ thread[t].at = "waiting"
  /\ \/ thread[t].left = 0
     \/ thread[t].woken /\ (Alive(thread[t]) => channels[thread[t].channel].rx # <<>>)
  /\ channels' \in (IF thread[t].channel \in DOMAIN channels
                    THEN {Taken(thread[t].channel, thread[t].want)} ELSE {})
                   \cup (IF Alive(thread[t]) THEN {} ELSE {channels})
  /\ thread' = [thread EXCEPT ![t] = Idle]
  /\ UNCHANGED <<store, phase, joinLeft, device, filters, nextChannelId, nextFilterId, schedVars,
                 ghosts>>

-----------------------------------------------------------------------------
(* Scheduler's thread *)

(* threadLoop(): the batch is collected under the scheduler's lock, in the *)
(* order of the queue, and delivered after it is released.                 *)
Scan ==
  /\ phase = "up" /\ due = <<>>
  /\ \E m \in Range(pending) \cup Range(gens) : m.left = 0
  /\ LET now == Among(pending, {reply \in Range(pending) : reply.left = 0})
         fired == Among(gens, {gen \in Range(gens) :
                    gen.left = 0 /\ Len(channels[gen.channel].rx) < MaxQueue})
     IN due' = now \o [i \in DOMAIN fired |->
                        [channel |-> fired[i].channel, conn |-> fired[i].conn, n |-> 0,
                         left |-> 0, before |-> {}]]
  /\ pending' = Among(pending, {reply \in Range(pending) : reply.left > 0})
  /\ gens' = [i \in DOMAIN gens |-> IF gens[i].left > 0 THEN gens[i]
                                    ELSE [gens[i] EXCEPT !.left = gens[i].interval]]
  /\ UNCHANGED <<store, phase, joinLeft, simVars, thread, ghosts>>

\* deliverRx() needs the lock; it wakes one of the waiting threads, whatever
\* channel it waits for.
WakeOne ==
  LET asleep == {t \in Threads : thread[t].at = "waiting" /\ ~thread[t].woken}
  IN IF asleep = {} THEN {thread}
     ELSE {[thread EXCEPT ![t].woken = TRUE] : t \in asleep}

DeliverRx ==
  /\ due # <<>> /\ phase # "stopping"
  /\ due' = Tail(due)
  /\ LET m == Head(due)
     IN IF m.channel \in DOMAIN channels
        THEN /\ channels' = [channels EXCEPT ![m.channel].rx = Append(@, m.conn)]
             /\ thread' \in WakeOne
             /\ IF m.conn = channels[m.channel].conn
                THEN /\ delivered' = delivered \cup {m.n}
                     /\ inOrder' = (inOrder /\ m.before \subseteq delivered)
                ELSE UNCHANGED <<delivered, inOrder>>
        ELSE UNCHANGED <<channels, thread, delivered, inOrder>>
  /\ UNCHANGED <<store, phase, joinLeft, device, filters, nextChannelId, nextFilterId, pending,
                 gens, connects, made, inFlight>>

\* shutdown(), at DLL detach, holds the lock while it waits for the thread, two
\* seconds at most.  The client's threads have returned by then.
BeginShutdown(t) ==
  /\ Free(t) /\ \A u \in Threads : thread[u].at = "idle"
  /\ phase' = "stopping" /\ joinLeft' = JoinTime
  /\ thread' = [thread EXCEPT ![t].at = "stopping"]
  /\ UNCHANGED <<store, simVars, schedVars, ghosts>>

EndShutdown(t) ==
  /\ thread[t].at = "stopping" /\ (due # <<>> => joinLeft = 0)
  /\ phase' = "down" /\ joinLeft' = 0 /\ thread' = [thread EXCEPT ![t] = Idle]
  /\ pending' = <<>> /\ gens' = <<>> /\ channels' = <<>> /\ filters' = <<>>
  /\ UNCHANGED <<store, device, nextChannelId, nextFilterId, due, ghosts>>

\* The clock, for everything that waits on it.
Aged(id) ==
  LET seqs == channels[id].seqs
      replies == store.targets[channels[id].target].replies
  IN [n \in DOMAIN seqs |-> [seqs[n] EXCEPT !.age = Smaller(@ + 1, replies[n].window)]]

Tick ==
  /\ phase \in {"up", "stopping"} /\ connects > 0
  /\ joinLeft' = Less(joinLeft)
  /\ pending' = [i \in DOMAIN pending |-> [pending[i] EXCEPT !.left = Less(@)]]
  /\ gens' = [i \in DOMAIN gens |-> [gens[i] EXCEPT !.left = Less(@)]]
  /\ thread' = [t \in Threads |-> [thread[t] EXCEPT !.left = Less(@)]]
  /\ channels' = [id \in DOMAIN channels |-> [channels[id] EXCEPT !.seqs = Aged(id)]]
  /\ UNCHANGED <<store, phase, device, filters, nextChannelId, nextFilterId, due, ghosts>>

\* What deviceId_ may be; other handles are refused.
Handles == {0, 1}

AppCalls ==
  \/ OpenDevice(App) \/ BeginShutdown(App)
  \/ \E handle \in Handles :
       CloseDevice(App, handle) \/ \E params \in Params : Connect(App, handle, params)
  \/ \E id \in DOMAIN channels :
       \/ Disconnect(App, id) \/ StartMsgFilter(App, id)
       \/ \E f \in DOMAIN filters : StopMsgFilter(App, id, f)
       \/ \E messages \in Writes : WriteMsgs(App, id, messages)
       \/ ReadMsgs(App, id, 1, 0)
Reads(t) == \E id \in DOMAIN channels, timeout \in Timeouts : ReadMsgs(t, id, 1, timeout)
Ends(t) == SleepAgain(t) \/ ReadReturns(t) \/ EndShutdown(t)

Next == \/ AppCalls
        \/ \E t \in Readers : Reads(t)
        \/ \E t \in Threads : Ends(t)
        \/ Scan \/ DeliverRx \/ Tick

\* The operating system runs every thread that can run, and its clock.
Fairness == WF_vars(Scan) /\ WF_vars(DeliverRx) /\ WF_vars(Tick)
            /\ \A t \in Threads : WF_vars(Ends(t))
Spec == Init /\ [][Next]_vars /\ Fairness
-----------------------------------------------------------------------------
(* A channel receives what was made for its own connection.  The one       *)
(* exception is a batch the scheduler's thread had already collected when  *)
(* an earlier connection with the same id was closed.                      *)
(* disconnect(): stopChannel(), cancelReplies(); deliverRx() by id.        *)
NothingOutlives ==
  \A id \in DOMAIN channels : \A conn \in Range(channels[id].rx) :
    conn = channels[id].conn \/ conn \in inFlight

(* While a connection lasts, a message is received after all those that    *)
(* were scheduled before it and due no later: late as the thread may be,   *)
(* an answer overtakes an echo only if its delay is shorter.               *)
(* scheduleReply(), threadLoop(), the order of writeMsgs().                *)
DeliveryOrder == inOrder

(* The filters of the device and those of its channels agree; no channel   *)
(* that was opened on a device outlives its close, and a closed device     *)
(* answers only handle 0, which nobody was given, and the channels that    *)
(* were connected to that handle.                                          *)
(* startMsgFilter() to disconnect(); closeDevice(), ioctl(), readVersion(). *)
HandlesHonest ==
  /\ \A f \in DOMAIN filters :
       filters[f] \in DOMAIN channels /\ f \in channels[filters[f]].filters
  /\ \A id \in DOMAIN channels : \A f \in channels[id].filters :
       f \in DOMAIN filters /\ filters[f] = id
  /\ device.id = 0 =>
       /\ \A id \in DOMAIN channels : channels[id].dev = 0
       /\ \A handle \in 0..nextChannelId :
            /\ ReadVersionCode(handle) = "STATUS_NOERROR" => handle = 0
            /\ \A key \in KnownIoctls :
                 IoctlCode(handle, key) = "STATUS_NOERROR" => handle \in {0} \cup DOMAIN channels

(* A closed device has no channels and answers no handle at all.  No run   *)
(* claims this: handle 0 passes for the closed device's own.               *)
ClosedIsSilent ==
  device.id = 0 =>
    /\ channels = <<>>
    /\ \A handle \in 0..nextChannelId :
         /\ ReadVersionCode(handle) # "STATUS_NOERROR"
         /\ \A key \in KnownIoctls : IoctlCode(handle, key) # "STATUS_NOERROR"

(* Every call returns: a read at its timeout at the latest, though the     *)
(* messages of other channels wake it, a shutdown though the thread wants  *)
(* the lock it holds.  readMsgs(), shutdown(), Scheduler::shutdown().      *)
CallsReturn == \A t \in Threads : thread[t].at # "idle" ~> thread[t].at = "idle"
=============================================================================
