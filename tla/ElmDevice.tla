-------------------------------- MODULE ElmDevice --------------------------------
(***************************************************************************)
(* ElmJ2534: the one device, its channels with their filters and receive   *)
(* queues, and the threads that call it.  One lock makes every call atomic *)
(* but two: a write keeps the lock through an exchange with the adapter    *)
(* for each of its messages, and a read that finds nothing releases it and *)
(* waits on a condition variable all channels share.  ElmSession has what  *)
(* happens inside an exchange.                                             *)
(***************************************************************************)
EXTENDS Integers, Sequences, SequencesExt, FiniteSets, TLC

CONSTANTS
  Threads,
  Responders,  \* the CAN ids that may answer; 0 is none of them
  FilterKinds, \* bound: [type, hits, pattern]; hits: the ids mask and pattern select
  Preferred,   \* ELM_PREFERRED_CHANNEL_ID
  MaxBatch, MaxWants, MaxConnects, MaxFilters, MaxWrites \* bounds

ASSUME DeviceAssumption == IsFiniteSet(Threads) /\ IsFiniteSet(Responders)

VARIABLES
  device,         \* "none" before the port is opened, "open", or "gone" once unloaded
  session,        \* session_: "live" or "freed"
  link,           \* the port: "open", "closed"
  channels, nextChannelId, nextFilterId,
  thread,         \* what each thread does
  connects, writes, \* counters
  crossed         \* history: channels whose message woke another channel's reader

ids == <<nextChannelId, nextFilterId>>
counts == <<connects, writes>>
vars == <<device, session, link, channels, ids, thread, counts, crossed>>

Idle == [at |-> "idle", channel |-> 0, left |-> 0]

Init ==
  /\ device = "none" /\ session = "live" /\ link = "closed"
  /\ channels = <<>> /\ nextChannelId = 1 /\ nextFilterId = 1
  /\ thread = [t \in Threads |-> Idle]
  /\ connects = 0 /\ writes = 0 /\ crossed = {}

\* lock_ is free; t may make a call.
Unlocked == \A t \in Threads : thread[t].at # "writing"
Calls(t) == Unlocked /\ device # "gone" /\ thread[t].at = "idle"

Sleeping(id) == {t \in Threads : thread[t].at = "asleep" /\ thread[t].channel = id}
Awake(id) == {t \in Threads : thread[t].at = "awake" /\ thread[t].channel = id}

Roused(who) ==
  [t \in Threads |-> IF t \in who /\ thread[t].at = "asleep"
                     THEN [thread[t] EXCEPT !.at = "awake"] ELSE thread[t]]

-----------------------------------------------------------------------------
(* Device and channels *)

\* bringUpSession() may fail, and leaves the port closed; an open device is
\* handed out again.
OpenDevice(t) ==
  /\ Calls(t) /\ device = "none"
  /\ \/ device' = "open" /\ link' = "open"
     \/ device' = "none" /\ link' = "closed"
  /\ channels' = <<>> /\ nextChannelId' = 1 /\ nextFilterId' = 1
  /\ UNCHANGED <<session, thread, counts, crossed>>

\* Channels die with the device.
CloseDevice(t) ==
  /\ Calls(t) /\ device = "open"
  /\ device' = "none" /\ link' = "closed"
  /\ channels' = <<>> /\ nextChannelId' = 1 /\ nextFilterId' = 1
  /\ thread' = Roused(Threads)
  /\ crossed' = {}
  /\ UNCHANGED <<session, counts>>

\* The preferred id if it is free, else the first free one above it.
AllocateChannelId ==
  IF Preferred \notin DOMAIN channels THEN Preferred
  ELSE LET start == IF Preferred + 1 > nextChannelId THEN Preferred + 1 ELSE nextChannelId
       IN CHOOSE id \in start..(start + Cardinality(DOMAIN channels)) :
            id \notin DOMAIN channels /\ \A other \in start..(id - 1) : other \in DOMAIN channels

Connect(t, echo) ==
  /\ Calls(t) /\ device = "open" /\ connects < MaxConnects
  /\ LET id == AllocateChannelId
         fresh == [echo |-> echo, filters |-> <<>>, flow |-> 0, rx |-> <<>>]
     IN /\ channels' = [c \in DOMAIN channels \cup {id} |-> IF c = id THEN fresh ELSE channels[c]]
        /\ nextChannelId' = IF id # Preferred /\ id >= nextChannelId THEN id + 1
                            ELSE nextChannelId
  /\ connects' = connects + 1
  /\ UNCHANGED <<device, session, link, nextFilterId, thread, writes, crossed>>

Disconnect(t, id) ==
  /\ Calls(t) /\ id \in DOMAIN channels
  /\ channels' = [c \in DOMAIN channels \ {id} |-> channels[c]]
  /\ thread' = Roused(Threads)
  /\ crossed' = crossed \ {id}
  /\ UNCHANGED <<device, session, link, ids, counts>>

\* DLL detach, while other threads may be inside.  shutdown() does not wait for
\* the lock: if a write has it, the port is closed under it and nothing else.
MShutdown ==
  /\ device # "gone"
  /\ device' = "gone" /\ link' = "closed"
  /\ session' = "freed" /\ channels' = <<>>
  /\ thread' = Roused(Threads)
  /\ nextChannelId' = 1 /\ nextFilterId' = 1
  /\ crossed' = {}
  /\ UNCHANGED counts
Shutdown ==
  /\ device # "gone"
  /\ device' = "gone" /\ link' = "closed"
  /\ IF Unlocked
     THEN /\ session' = "freed" /\ channels' = <<>>
          /\ thread' = Roused(Threads)
          /\ nextChannelId' = 1 /\ nextFilterId' = 1
          /\ crossed' = {}
     ELSE UNCHANGED <<session, channels, thread, ids, crossed>>
  /\ UNCHANGED counts

-----------------------------------------------------------------------------
(* Filters *)

\* applyFlowIds(): the last flow control filter owns the adapter's filter.
FlowId(filters) ==
  LET flows == SelectSeq(filters, LAMBDA f : f.type = "FLOW_CONTROL")
  IN IF flows = <<>> THEN 0 ELSE Last(flows).pattern

SetFilters(id, filters) ==
  channels' = [channels EXCEPT ![id].filters = filters, ![id].flow = FlowId(filters)]

StartMsgFilter(t, id, kind) ==
  /\ Calls(t) /\ id \in DOMAIN channels /\ nextFilterId <= MaxFilters
  /\ SetFilters(id, Append(channels[id].filters, [n |-> nextFilterId] @@ kind))
  /\ nextFilterId' = nextFilterId + 1
  /\ UNCHANGED <<device, session, link, nextChannelId, thread, counts, crossed>>

StopMsgFilter(t, id, n) ==
  /\ Calls(t) /\ id \in DOMAIN channels
  /\ \E f \in Range(channels[id].filters) : f.n = n
  /\ SetFilters(id, SelectSeq(channels[id].filters, LAMBDA f : f.n # n))
  /\ UNCHANGED <<device, session, link, ids, thread, counts, crossed>>

\* A responder passes unless a BLOCK filter selects it, or there are PASS
\* filters and none of them does.
RxFilterAllows(filters, responder) ==
  LET kind(type) == {f \in Range(filters) : f.type = type}
      hit(fs) == \E f \in fs : responder \in f.hits
  IN ~hit(kind("BLOCK")) /\ (kind("PASS") = {} \/ hit(kind("PASS")))

\* ioctl(): CLEAR_RX_BUFFER, CLEAR_MSG_FILTERS; the others change nothing here.
Ioctl(t, id) ==
  /\ Calls(t) /\ device = "open" /\ id \in DOMAIN channels
  /\ \/ channels' = [channels EXCEPT ![id].rx = <<>>]
     \/ SetFilters(id, <<>>)
  /\ UNCHANGED <<device, session, link, ids, thread, counts, crossed>>

-----------------------------------------------------------------------------
(* Messages *)

WriteMsgs(t, id, n) ==
  /\ Calls(t) /\ device = "open" /\ id \in DOMAIN channels /\ writes + n <= MaxWrites
  /\ thread' = [thread EXCEPT ![t] = [at |-> "writing", channel |-> id, left |-> n]]
  /\ writes' = writes + n
  /\ UNCHANGED <<device, session, link, channels, ids, connects, crossed>>

\* enqueueRx(): each of n messages wakes one of the sleeping threads, whichever
\* channel it reads.
Asleep == {t \in Threads : thread[t].at = "asleep"}
Smaller(a, b) == IF a < b THEN a ELSE b
MWoken(id, n) ==
  LET wakes == IF channels[id].rx = <<>> THEN Smaller(1, n) ELSE 0
  IN {who \in SUBSET Asleep : Cardinality(who) = Smaller(wakes, Cardinality(Asleep))}
Woken(id, n) == {who \in SUBSET Asleep : Cardinality(who) = Smaller(n, Cardinality(Asleep))}

\* What comes of an exchange: a lost link is opened again for the second
\* attempt, if it can be.
Outcomes ==
  ({"open"} \X {"Ok", "Silent", "Unsupported", "Failed", "LinkGone"})
  \cup ({"closed"} \X ({"LinkGone"} \cup IF link = "closed" THEN {"Failed"} ELSE {}))

Echo == 0

\* writeOne(): the echo of a frame that went out, and the answers the filters
\* let through, in any order.
Received(id, result) ==
  LET echo == IF channels[id].echo THEN <<Echo>> ELSE <<>>
      heard == IF channels[id].flow = 0 THEN Responders ELSE {channels[id].flow}
      passed == {r \in heard : RxFilterAllows(channels[id].filters, r)}
  IN CASE result = "Ok" -> {echo \o SetToSeq(answers) : answers \in SUBSET passed}
       [] result = "Silent" -> {echo}
       [] OTHER -> {<<>>}

OneLess(call) == [call EXCEPT !.left = @ - 1]

\* One message of a write.  An error ends the call.
WriteOne(t) ==
  LET id == thread[t].channel
  IN /\ thread[t].at = "writing"
     /\ \E outcome \in Outcomes :
          LET ends == outcome[2] \notin {"Ok", "Silent"} \/ thread[t].left = 1
          IN /\ link' = outcome[1]
             /\ \E messages \in Received(id, outcome[2]) :
                  /\ channels' = [channels EXCEPT ![id].rx = @ \o messages]
                  /\ \E who \in Woken(id, Len(messages)) :
                       /\ thread' = [Roused(who) EXCEPT
                                       ![t] = IF ends THEN Idle ELSE OneLess(@)]
                       /\ crossed' = IF \E r \in who : thread[r].channel # id
                                     THEN crossed \cup {id} ELSE crossed
  /\ UNCHANGED <<device, session, ids, counts>>

\* A read ends with what the queue holds, at most what it asked for.
Take(t, id, want) ==
  /\ channels' = [channels EXCEPT ![id].rx = SubSeq(@, Smaller(want, Len(@)) + 1, Len(@))]
  /\ thread' = [thread EXCEPT ![t] = Idle]

ReadMsgs(t, id, want, waits) ==
  /\ Calls(t) /\ id \in DOMAIN channels
  /\ IF waits /\ channels[id].rx = <<>>
     THEN /\ thread' = [thread EXCEPT ![t] = [at |-> "asleep", channel |-> id, left |-> want]]
          /\ UNCHANGED channels
     ELSE Take(t, id, want)
  /\ UNCHANGED <<device, session, link, ids, counts, crossed>>

\* A thread that is woken, or whose time is over, looks its channel up again.
Resume(t) ==
  LET id == thread[t].channel
  IN /\ Unlocked /\ thread[t].at \in {"awake", "asleep"}
     /\ IF id \in DOMAIN channels
        THEN \/ Take(t, id, thread[t].left)
             \/ /\ thread[t].at = "awake" /\ channels[id].rx = <<>>
                /\ thread' = [thread EXCEPT ![t].at = "asleep"]
                /\ UNCHANGED channels
        ELSE thread' = [thread EXCEPT ![t] = Idle] /\ UNCHANGED channels
     /\ UNCHANGED <<device, session, link, ids, counts, crossed>>

Next ==
  \/ Shutdown
  \/ \E t \in Threads :
       \/ OpenDevice(t) \/ CloseDevice(t) \/ WriteOne(t) \/ Resume(t)
       \/ \E echo \in BOOLEAN : Connect(t, echo)
       \/ \E id \in DOMAIN channels :
            \/ Disconnect(t, id) \/ Ioctl(t, id)
            \/ \E kind \in FilterKinds : StartMsgFilter(t, id, kind)
            \/ \E n \in 1..MaxFilters : StopMsgFilter(t, id, n)
            \/ \E n \in 1..MaxBatch : WriteMsgs(t, id, n)
            \/ \E want \in 1..MaxWants, waits \in BOOLEAN : ReadMsgs(t, id, want, waits)

Spec == Init /\ [][Next]_vars

-----------------------------------------------------------------------------
(* A call that another thread's close, disconnect or unload overtakes is   *)
(* not left behind: nobody sleeps on a queue that nothing can fill any     *)
(* more, and a write keeps the session and the channel it works with.      *)
(* readMsgs(), closeDevice(), disconnect(), shutdown().                    *)
NobodyStranded ==
  \A t \in Threads :
    /\ thread[t].at = "asleep" => thread[t].channel \in DOMAIN channels
    /\ thread[t].at = "writing" => session = "live" /\ thread[t].channel \in DOMAIN channels

(* A message does not lie in the queue while a thread sleeps that waits    *)
(* for it: as many of the channel's readers are awake as there are         *)
(* messages, until one of its wakes goes to the reader of another channel. *)
(* enqueueRx(), readMsgs().                                                *)
PromptRead ==
  \A id \in DOMAIN channels \ crossed :
    Sleeping(id) # {} => Len(channels[id].rx) <= Cardinality(Awake(id))
=============================================================================
