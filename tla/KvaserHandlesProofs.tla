------------------------- MODULE KvaserHandlesProofs -------------------------
(***************************************************************************)
(* No handle, engine or receive thread outlives its channel, no message    *)
(* goes to another channel and an engine follows the calls on its channel, *)
(* for every number of slots, channels and devices, if the client closes   *)
(* ISO 15765 channels before their device; types need no such client.      *)
(***************************************************************************)
EXTENDS KvaserHandles, WellFoundedInduction, FiniteSetTheorems, TLAPS

Less == {p \in Nat \X Nat : p[1] < p[2]}

LEMMA LowestIn ==
  ASSUME NEW S, S \subseteq Nat, S # {}
  PROVE  Lowest(S) \in S
<1>1. IsWellFoundedOn(Less, Nat)
  BY NatLessThanWellFounded DEF OpToRel, Less
<1>2. PICK x \in S : \A y \in S : ~(<<y, x>> \in Less)
  BY <1>1, WFMin
<1>3. ASSUME NEW y \in S PROVE x <= y
  <2>1. x \in Nat /\ y \in Nat /\ ~(<<y, x>> \in Less)
    BY <1>2
  <2> QED
    BY <2>1 DEF Less
<1> QED
  BY <1>3 DEF Lowest

Alive == {"poll", "read", "feed"}

Shaped ==
  /\ ch \in [Slots -> ChannelState]
  /\ devices \subseteq Nat /\ nextDevice \in Nat /\ opened \in 0..MaxOpens
  /\ handles \subseteq 1..opened /\ engines \subseteq 1..opened /\ signalled \subseteq 1..opened
  /\ thread \in [Opens -> {"none", "poll", "read", "feed", "done"}]
  /\ home \in [Opens -> Slots] /\ from \in [Opens -> 0..MaxOpens]
  /\ queue \in [Opens -> Seq(Opens)]
  /\ call \in [op : {"idle", "start", "join"}, slot : Slots \cup {0}]
  /\ ~Idle => call.slot \in Slots /\ ch[call.slot].active

\* openChannel() between the new slot and the new thread.
Starting ==
  call.op = "start" =>
    /\ ch[call.slot].iso /\ ch[call.slot].engine = 0
    /\ ch[call.slot].handle = opened /\ opened \notin signalled

\* What a slot holds belongs to it: an engine carries the number of its handle
\* and runs the thread that was given this slot; only a close stops it.
Attached(s) ==
  /\ ch[s].active => ch[s].handle \in handles
  /\ ~ch[s].active => ch[s].engine = 0
  /\ ch[s].event = ch[s].engine
  /\ ch[s].engine # 0 =>
       /\ ch[s].iso /\ ch[s].engine = ch[s].handle
       /\ ch[s].engine \in engines /\ home[ch[s].engine] = s
       /\ thread[ch[s].engine] # "none"
       /\ thread[ch[s].engine] = "done" \/ ch[s].engine \in signalled =>
            call.op = "join" /\ call.slot = s
  /\ ch[s].active /\ ch[s].iso /\ ch[s].engine = 0 => call.op = "start" /\ call.slot = s

Apart ==
  \A s, t \in Slots :
    ch[s].active /\ ch[t].active /\ ch[s].handle = ch[t].handle => s = t

\* And everything that is open is held by a slot.
Held ==
  /\ \A h \in handles : \E s \in Slots : ch[s].active /\ ch[s].handle = h
  /\ \A e \in engines : \E s \in Slots : ch[s].engine = e
  /\ \A n \in Opens : thread[n] \in Alive => ch[home[n]].engine = n

Fed ==
  \A n \in Opens :
    /\ from[n] \in {0, n} /\ (thread[n] = "feed" => from[n] = n)
    /\ \A i \in 1..Len(queue[n]) : queue[n][i] = n

HandlesInv ==
  Shaped /\ Starting /\ (\A s \in Slots : Attached(s)) /\ Apart /\ Held /\ Fed

LEMMA FreshType ==
  ASSUME NEW d \in Nat, NEW iso \in BOOLEAN, NEW n \in 0..MaxOpens
  PROVE  Fresh(d, iso, n) \in ChannelState
<1>1. NoFilters \in [1..MaxFilters -> FilterTypes \cup {"free"}]
  BY DEF NoFilters
<1>2. 0 \in 0..MaxOpens /\ 0 \in BlockSizes /\ 1 \in Nat /\ {} \in SUBSET (1..MaxPeriodic)
  BY KvaserHandlesAssumption DEF BlockSizes
<1> QED
  BY <1>1, <1>2 DEF Fresh, ChannelState

LEMMA ReleasedType ==
  ASSUME NEW c \in ChannelState
  PROVE  /\ Released(c) \in ChannelState
         /\ Released(c).engine = 0 /\ ~Released(c).active /\ Released(c).event = c.event
<1> DEFINE f == Fresh(0, FALSE, c.handle)
<1>1. f \in ChannelState /\ f.engine = 0
  BY FreshType DEF ChannelState, Fresh
<1>2. Released(c) = [f EXCEPT !.active = FALSE, !.event = c.event]
  BY DEF Released
<1> HIDE DEF f
<1> QED
  BY <1>1, <1>2 DEF ChannelState

LEMMA HandlesInit == Init => HandlesInv
<1> SUFFICES ASSUME Init PROVE HandlesInv
  OBVIOUS
<1>1. MaxOpens \in Nat /\ MaxFilters \in Nat /\ MaxPeriodic \in Nat /\ Slots # {}
  BY KvaserHandlesAssumption
<1>2. Released(Fresh(0, FALSE, 0)) \in ChannelState
  <2>0. 0 \in Nat /\ FALSE \in BOOLEAN /\ 0 \in 0..MaxOpens
    BY <1>1
  <2>1. Fresh(0, FALSE, 0) \in ChannelState
    BY <2>0, FreshType
  <2> QED
    BY <2>1, ReleasedType
<1>3. \A s \in Slots : /\ ~ch[s].active /\ ch[s].engine = 0 /\ ch[s].event = 0
  BY DEF Init, Released, Fresh
<1>4. home \in [Opens -> Slots]
  BY <1>1 DEF Init
<1>5. queue \in [Opens -> Seq(Opens)] /\ \A n \in Opens : Len(queue[n]) = 0
  BY DEF Init
<1>6. Shaped
  <2>1. ch \in [Slots -> ChannelState]
    BY <1>2 DEF Init
  <2>2. thread \in [Opens -> {"none", "poll", "read", "feed", "done"}]
        /\ from \in [Opens -> 0..MaxOpens]
    BY <1>1 DEF Init
  <2>3. call \in [op : {"idle", "start", "join"}, slot : Slots \cup {0}] /\ call.op = "idle"
    BY DEF Init
  <2>4. /\ devices \subseteq Nat /\ nextDevice \in Nat /\ opened \in 0..MaxOpens
        /\ handles = {} /\ engines = {} /\ signalled = {}
    BY <1>1 DEF Init
  <2> QED
    BY <1>4, <1>5, <2>1, <2>2, <2>3, <2>4 DEF Shaped, Idle
<1>7. Held
  BY DEF Init, Held, Alive
<1>8. Fed
  BY <1>5 DEF Init, Fed
<1> QED
  BY <1>3, <1>6, <1>7, <1>8 DEF Init, HandlesInv, Starting, Attached, Apart

\* The engine of a slot has the number of a channel that was opened.
LEMMA EngineNumber ==
  ASSUME HandlesInv, NEW s \in Slots, ch[s].engine # 0
  PROVE  ch[s].engine \in 1..opened /\ ch[s].engine \in Opens
<1>1. ch[s].engine \in engines /\ engines \subseteq 1..opened /\ opened \in 0..MaxOpens
  BY DEF HandlesInv, Attached, Shaped
<1>2. MaxOpens \in Nat
  BY KvaserHandlesAssumption
<1>3. \A e \in 1..opened : e \in 1..MaxOpens
  BY <1>1, <1>2
<1> QED
  BY <1>1, <1>3 DEF Opens

\* What a slot looks like to the other slots, the threads and the handles.
Skeleton(c) == <<c.active, c.iso, c.handle, c.engine, c.event>>

\* Operations on a channel that leave this alone.
LEMMA SkeletonKept ==
  ASSUME HandlesInv, ch' \in [Slots -> ChannelState],
         \A s \in Slots : Skeleton(ch'[s]) = Skeleton(ch[s]),
         UNCHANGED <<devices, nextDevice, opened, handles, engines, signalled, thread, home,
                     from, call>>,
         queue' \in [Opens -> Seq(Opens)], Fed'
  PROVE  HandlesInv'
<1>1. \A s \in Slots : /\ ch'[s].active = ch[s].active /\ ch'[s].iso = ch[s].iso
                       /\ ch'[s].handle = ch[s].handle /\ ch'[s].engine = ch[s].engine
                       /\ ch'[s].event = ch[s].event
  BY DEF Skeleton
<1>2. Shaped'
  BY <1>1 DEF HandlesInv, Shaped, Idle
<1>3. Starting'
  BY <1>1 DEF HandlesInv, Shaped, Starting, Idle
<1>4. \A s \in Slots : Attached(s)'
  BY <1>1 DEF HandlesInv, Attached
<1>5. Apart'
  BY <1>1 DEF HandlesInv, Apart
<1>6. Held'
  <2>1. \A n \in Opens : home[n] \in Slots
    BY DEF HandlesInv, Shaped
  <2>2. \A n \in Opens : thread[n] \in Alive => ch'[home[n]].engine = n
    BY <1>1, <2>1 DEF HandlesInv, Held
  <2>3. \A h \in handles : \E s \in Slots : ch'[s].active /\ ch'[s].handle = h
    BY <1>1 DEF HandlesInv, Held
  <2>4. \A e \in engines : \E s \in Slots : ch'[s].engine = e
    BY <1>1 DEF HandlesInv, Held
  <2> QED
    BY <2>2, <2>3, <2>4 DEF Held
<1> QED
  BY <1>2, <1>3, <1>4, <1>5, <1>6 DEF HandlesInv

\* Filters, periodic messages and parameters change fields of one slot.
Configures(s) ==
  \/ ClearMsgFilters(s) \/ StartPeriodic(s) \/ StopPeriodic(s) \/ ClearPeriodic(s)
  \/ \E type \in FilterTypes : AddFilter(s, type)
  \/ \E id \in 1..MaxFilterIds : RemoveFilter(s, id)
  \/ \E bs \in BlockSizes, ok \in BOOLEAN : SetConfig(s, bs, ok)

LEMMA SlotEdited ==
  ASSUME ch \in [Slots -> ChannelState], NEW s \in Slots, Configures(s)
  PROVE  /\ \E c \in ChannelState :
              /\ ch' = [ch EXCEPT ![s] = c] /\ Skeleton(c) = Skeleton(ch[s])
              /\ c.nextFilter \in {ch[s].nextFilter, ch[s].nextFilter + 1}
         /\ UNCHANGED <<devices, nextDevice, opened, handles, engines, queue, threads, call>>
<1> USE DEF heap
<1>1. ch[s] \in ChannelState
  OBVIOUS
<1>4. ASSUME ClearMsgFilters(s)
      PROVE  \E c \in ChannelState : /\ ch' = [ch EXCEPT ![s] = c]
                                     /\ Skeleton(c) = Skeleton(ch[s])
                                     /\ c.nextFilter = ch[s].nextFilter
  <2> DEFINE c == [ch[s] EXCEPT !.filters = NoFilters]
  <2>1. NoFilters \in [1..MaxFilters -> FilterTypes \cup {"free"}]
    BY DEF NoFilters
  <2>2. c \in ChannelState /\ Skeleton(c) = Skeleton(ch[s]) /\ c.nextFilter = ch[s].nextFilter
    BY <1>1, <2>1 DEF ChannelState, Skeleton
  <2>3. ch' = [ch EXCEPT ![s] = c]
    BY <1>4 DEF ClearMsgFilters
  <2> QED
    BY <2>2, <2>3
<1>5. ASSUME NEW set \in SUBSET (1..MaxPeriodic), Periodic(s, set)
      PROVE  \E c \in ChannelState : /\ ch' = [ch EXCEPT ![s] = c]
                                     /\ Skeleton(c) = Skeleton(ch[s])
                                     /\ c.nextFilter = ch[s].nextFilter
  <2> DEFINE c == [ch[s] EXCEPT !.periodic = set]
  <2>1. c \in ChannelState /\ Skeleton(c) = Skeleton(ch[s]) /\ c.nextFilter = ch[s].nextFilter
    BY <1>1 DEF ChannelState, Skeleton
  <2>2. ch' = [ch EXCEPT ![s] = c]
    BY <1>5 DEF Periodic
  <2> QED
    BY <2>1, <2>2
<1>6. ASSUME StartPeriodic(s)
      PROVE  \E c \in ChannelState : /\ ch' = [ch EXCEPT ![s] = c]
                                     /\ Skeleton(c) = Skeleton(ch[s])
                                     /\ c.nextFilter = ch[s].nextFilter
  <2> DEFINE free == (1..MaxPeriodic) \ ch[s].periodic
  <2>1. free \subseteq Nat /\ free # {} /\ Periodic(s, ch[s].periodic \cup {Lowest(free)})
    BY <1>6, KvaserHandlesAssumption DEF StartPeriodic
  <2>2. Lowest(free) \in 1..MaxPeriodic
    BY <2>1, LowestIn
  <2>3. ch[s].periodic \cup {Lowest(free)} \in SUBSET (1..MaxPeriodic)
    BY <1>1, <2>2 DEF ChannelState
  <2> QED
    BY <1>5, <2>1, <2>3
<1>7. ASSUME StopPeriodic(s)
      PROVE  \E c \in ChannelState : /\ ch' = [ch EXCEPT ![s] = c]
                                     /\ Skeleton(c) = Skeleton(ch[s])
                                     /\ c.nextFilter = ch[s].nextFilter
  <2>1. ch[s].periodic \ {Lowest(ch[s].periodic)} \in SUBSET (1..MaxPeriodic)
    BY <1>1 DEF ChannelState
  <2> QED
    BY <1>5, <1>7, <2>1 DEF StopPeriodic
<1>8. ASSUME ClearPeriodic(s)
      PROVE  \E c \in ChannelState : /\ ch' = [ch EXCEPT ![s] = c]
                                     /\ Skeleton(c) = Skeleton(ch[s])
                                     /\ c.nextFilter = ch[s].nextFilter
  BY <1>5, <1>8 DEF ClearPeriodic
<1>9. ASSUME NEW type \in FilterTypes, AddFilter(s, type)
      PROVE  \E c \in ChannelState : /\ ch' = [ch EXCEPT ![s] = c]
                                     /\ Skeleton(c) = Skeleton(ch[s])
                                     /\ c.nextFilter = ch[s].nextFilter + 1
  <2> DEFINE i == Lowest(FreeFilters(s))
             f == [ch[s].filters EXCEPT ![i] = type]
             c == [ch[s] EXCEPT !.filters = f, !.nextFilter = ch[s].nextFilter + 1]
  <2>0. ch[s].filters \in [1..MaxFilters -> FilterTypes \cup {"free"}] /\ ch[s].nextFilter \in Nat
    BY <1>1 DEF ChannelState
  <2>1. f \in [1..MaxFilters -> FilterTypes \cup {"free"}]
    BY <2>0
  <2>4. ch[s].nextFilter + 1 \in Nat
    BY <2>0
  <2> HIDE DEF f
  <2>2. /\ c \in ChannelState /\ Skeleton(c) = Skeleton(ch[s])
        /\ c.nextFilter = ch[s].nextFilter + 1
    BY <1>1, <2>1, <2>4 DEF ChannelState, Skeleton
  <2>3. ch' = [ch EXCEPT ![s] = c]
    BY <1>1, <1>9 DEF AddFilter, f, ChannelState
  <2> QED
    BY <2>2, <2>3
<1>10. ASSUME NEW id \in 1..MaxFilterIds, RemoveFilter(s, id)
       PROVE  \E c \in ChannelState : /\ ch' = [ch EXCEPT ![s] = c]
                                      /\ Skeleton(c) = Skeleton(ch[s])
                                      /\ c.nextFilter = ch[s].nextFilter
  <2> DEFINE i == Lowest(UsedFilters(s))
             f == [ch[s].filters EXCEPT ![i] = "free"]
             c == [ch[s] EXCEPT !.filters = f]
  <2>1. f \in [1..MaxFilters -> FilterTypes \cup {"free"}]
    BY <1>1 DEF ChannelState
  <2> HIDE DEF f
  <2>2. c \in ChannelState /\ Skeleton(c) = Skeleton(ch[s]) /\ c.nextFilter = ch[s].nextFilter
    BY <1>1, <2>1 DEF ChannelState, Skeleton
  <2>3. ch' = [ch EXCEPT ![s] = c]
    BY <1>1, <1>10 DEF RemoveFilter, f, ChannelState
  <2> QED
    BY <2>2, <2>3
<1>11. ASSUME NEW bs \in BlockSizes, NEW ok \in BOOLEAN, SetConfig(s, bs, ok)
       PROVE  \E c \in ChannelState : /\ ch' = [ch EXCEPT ![s] = c]
                                      /\ Skeleton(c) = Skeleton(ch[s])
                                      /\ c.nextFilter = ch[s].nextFilter
  <2> DEFINE c == [ch[s] EXCEPT !.bs = bs]
  <2>1. c \in ChannelState /\ Skeleton(c) = Skeleton(ch[s]) /\ c.nextFilter = ch[s].nextFilter
    BY <1>1 DEF ChannelState, Skeleton
  <2>2. ch' = [ch EXCEPT ![s] = c]
    BY <1>11 DEF SetConfig
  <2> QED
    BY <2>1, <2>2
<1>12. UNCHANGED <<devices, nextDevice, opened, handles, engines, queue, threads, call>>
  BY DEF Configures, ClearMsgFilters, StartPeriodic, StopPeriodic, ClearPeriodic, Periodic,
         AddFilter, RemoveFilter, SetConfig
<1>13. \E c \in ChannelState : /\ ch' = [ch EXCEPT ![s] = c] /\ Skeleton(c) = Skeleton(ch[s])
                               /\ c.nextFilter \in {ch[s].nextFilter, ch[s].nextFilter + 1}
  <2>1. CASE ClearMsgFilters(s)
    BY <1>4, <2>1
  <2>2. CASE StartPeriodic(s)
    BY <1>6, <2>2
  <2>3. CASE StopPeriodic(s)
    BY <1>7, <2>3
  <2>4. CASE ClearPeriodic(s)
    BY <1>8, <2>4
  <2>5. CASE \E type \in FilterTypes : AddFilter(s, type)
    BY <1>9, <2>5
  <2>6. CASE \E id \in 1..MaxFilterIds : RemoveFilter(s, id)
    BY <1>10, <2>6
  <2>7. CASE \E bs \in BlockSizes, ok \in BOOLEAN : SetConfig(s, bs, ok)
    BY <1>11, <2>7
  <2> QED
    BY <2>1, <2>2, <2>3, <2>4, <2>5, <2>6, <2>7 DEF Configures
<1> QED
  BY <1>12, <1>13

\* Reads take the oldest message away.
LEMMA TailOf ==
  ASSUME NEW S, NEW q \in Seq(S), q # <<>>
  PROVE  /\ Tail(q) \in Seq(S) /\ Len(Tail(q)) = Len(q) - 1 /\ Len(q) \in Nat
         /\ \A i \in 1..(Len(q) - 1) : Tail(q)[i] = q[i + 1]
OBVIOUS

LEMMA ConfigureStep ==
  ASSUME HandlesInv, NEW s \in Slots, ReadMsgs(s) \/ Configures(s)
  PROVE  HandlesInv'
<1> USE DEF slots, heap, threads
<1>1. ch \in [Slots -> ChannelState] /\ ch[s] \in ChannelState
  BY DEF HandlesInv, Shaped
<1>2. CASE Configures(s)
  <2>0. PICK c \in ChannelState : ch' = [ch EXCEPT ![s] = c] /\ Skeleton(c) = Skeleton(ch[s])
    BY <1>1, <1>2, SlotEdited
  <2>1. UNCHANGED <<devices, nextDevice, opened, handles, engines, queue, threads, call>>
    BY <1>1, <1>2, SlotEdited
  <2>2. ch' \in [Slots -> ChannelState] /\ \A t \in Slots : Skeleton(ch'[t]) = Skeleton(ch[t])
    BY <1>1, <2>0 DEF Skeleton
  <2>3. queue' \in [Opens -> Seq(Opens)] /\ Fed'
    BY <2>1 DEF HandlesInv, Shaped, Fed
  <2> QED
    BY <2>1, <2>2, <2>3, SkeletonKept
<1>3. CASE ReadMsgs(s)
  <2>0. PICK e : e = ch[s].engine
    OBVIOUS
  <2>1. e # 0 /\ queue' = [queue EXCEPT ![e] = Tail(queue[e])] /\ queue[e] # <<>>
        /\ UNCHANGED <<devices, nextDevice, slots, opened, handles, engines, threads, call>>
    BY <1>3, <2>0 DEF ReadMsgs
  <2>2. e \in Opens
    BY <2>0, <2>1, EngineNumber
  <2>3. /\ queue \in [Opens -> Seq(Opens)] /\ queue[e] \in Seq(Opens)
        /\ \A i \in 1..Len(queue[e]) : queue[e][i] = e
    BY <2>2 DEF HandlesInv, Shaped, Fed
  <2>4. /\ Tail(queue[e]) \in Seq(Opens)
        /\ \A i \in 1..Len(Tail(queue[e])) : Tail(queue[e])[i] = e
    BY <2>1, <2>3, TailOf
  <2>5. queue' \in [Opens -> Seq(Opens)]
    BY <2>1, <2>3, <2>4
  <2>6. \A n \in Opens : n # e => queue'[n] = queue[n]
    BY <2>1, <2>3
  <2>7. queue'[e] = Tail(queue[e])
    BY <2>1, <2>2, <2>3
  <2>8. Fed'
    BY <2>1, <2>4, <2>6, <2>7 DEF HandlesInv, Fed
  <2> QED
    BY <1>1, <2>1, <2>5, <2>8, SkeletonKept
<1> QED
  BY <1>2, <1>3

-----------------------------------------------------------------------------
(* Channels and devices                                                    *)

LEMMA OpenChannelStep ==
  ASSUME HandlesInv, NEW d \in devices, NEW iso \in BOOLEAN, OpenChannel(d, iso)
  PROVE  HandlesInv'
<1>0. PICK s, n : s = Lowest(Free) /\ n = opened + 1
  OBVIOUS
<1> USE DEF heap, threads
<1>1. /\ Idle /\ Free # {} /\ opened < MaxOpens
      /\ opened' = n /\ handles' = handles \cup {n}
      /\ ch' = [ch EXCEPT ![s] = Fresh(d, iso, n)]
      /\ call' = IF iso THEN [op |-> "start", slot |-> s] ELSE call
      /\ UNCHANGED <<devices, nextDevice, engines, queue, signalled, thread, home, from>>
  BY <1>0 DEF OpenChannel
<1>2. s \in Slots /\ ~ch[s].active
  BY <1>0, <1>1, LowestIn, KvaserHandlesAssumption DEF Free
<1>3. /\ MaxOpens \in Nat /\ opened \in Nat /\ n \in 1..MaxOpens /\ n \in 0..MaxOpens
      /\ \A i \in 1..opened : i \in 1..n /\ i # n
      /\ n \in 1..n
  BY <1>0, <1>1, KvaserHandlesAssumption DEF HandlesInv, Shaped
<1>4. Fresh(d, iso, n) \in ChannelState
  BY <1>3, FreshType DEF HandlesInv, Shaped
<1>5. ch' \in [Slots -> ChannelState]
  BY <1>1, <1>4 DEF HandlesInv, Shaped
<1>6. /\ ch'[s].active /\ ch'[s].iso = iso /\ ch'[s].handle = n
      /\ ch'[s].engine = 0 /\ ch'[s].event = 0
  BY <1>1, <1>2 DEF HandlesInv, Shaped, Fresh
<1>7. \A t \in Slots : t # s => ch'[t] = ch[t]
  BY <1>1 DEF HandlesInv, Shaped
<1>8. n \notin handles /\ n \notin signalled
  BY <1>3 DEF HandlesInv, Shaped
<1>9. Shaped'
  <2>1. /\ handles' \subseteq 1..opened' /\ engines' \subseteq 1..opened'
        /\ signalled' \subseteq 1..opened'
    BY <1>1, <1>3 DEF HandlesInv, Shaped
  <2>2. call' \in [op : {"idle", "start", "join"}, slot : Slots \cup {0}]
    BY <1>1, <1>2 DEF HandlesInv, Shaped
  <2>3. ~Idle' => call'.slot \in Slots /\ ch'[call'.slot].active
    BY <1>1, <1>2, <1>6 DEF Idle
  <2> QED
    BY <1>1, <1>3, <1>5, <2>1, <2>2, <2>3 DEF HandlesInv, Shaped
<1>10. Starting'
  BY <1>1, <1>6, <1>8 DEF Starting, Idle
<1>11. \A t \in Slots : Attached(t)'
  <2>1. Attached(s)'
    BY <1>1, <1>6 DEF Attached
  <2>2. ASSUME NEW t \in Slots, t # s PROVE Attached(t)'
    BY <1>1, <1>7, <2>2 DEF HandlesInv, Attached, Idle
  <2> QED
    BY <2>1, <2>2
<1>12. Apart'
  BY <1>2, <1>6, <1>7, <1>8 DEF HandlesInv, Attached, Apart
<1>13. Held'
  <2>1. \A h \in handles' : \E t \in Slots : ch'[t].active /\ ch'[t].handle = h
    BY <1>1, <1>2, <1>6, <1>7 DEF HandlesInv, Held
  <2>2. \A t \in Slots : ch'[t].engine = ch[t].engine
    BY <1>2, <1>6, <1>7 DEF HandlesInv, Attached
  <2>3. \A e \in engines' : \E t \in Slots : ch'[t].engine = e
    BY <1>1, <2>2 DEF HandlesInv, Held
  <2>4. \A i \in Opens : thread'[i] \in Alive => ch'[home'[i]].engine = i
    BY <1>1, <2>2 DEF HandlesInv, Held, Shaped
  <2> QED
    BY <2>1, <2>3, <2>4 DEF Held
<1>14. Fed'
  BY <1>1 DEF HandlesInv, Fed
<1> QED
  BY <1>9, <1>10, <1>11, <1>12, <1>13, <1>14 DEF HandlesInv

LEMMA StartReceiverStep == HandlesInv /\ StartReceiver => HandlesInv'
<1> SUFFICES ASSUME HandlesInv, StartReceiver PROVE HandlesInv'
  OBVIOUS
<1>0. PICK s, n : s = call.slot /\ n = opened
  OBVIOUS
<1> USE DEF heap, threads
<1>1. /\ call.op = "start"
      /\ engines' = engines \cup {n}
      /\ ch' = [ch EXCEPT ![s].engine = n, ![s].event = n]
      /\ thread' = [thread EXCEPT ![n] = "poll"]
      /\ home' = [home EXCEPT ![n] = s]
      /\ call' = [op |-> "idle", slot |-> 0]
      /\ UNCHANGED <<devices, nextDevice, opened, handles, queue, signalled, from>>
  BY <1>0 DEF StartReceiver
<1>2. /\ s \in Slots /\ ch[s] \in ChannelState /\ ch[s].active /\ ch[s].iso
      /\ ch[s].engine = 0 /\ ch[s].handle = n /\ n \notin signalled
  BY <1>0, <1>1 DEF HandlesInv, Shaped, Starting, Idle
<1>3. n \in 1..n /\ n \in 1..MaxOpens /\ n \in 0..MaxOpens /\ n # 0
  <2>1. n \in handles /\ handles \subseteq 1..n /\ n \in 0..MaxOpens
    BY <1>0, <1>2 DEF HandlesInv, Attached, Shaped
  <2>2. MaxOpens \in Nat
    BY KvaserHandlesAssumption
  <2> QED
    BY <2>1, <2>2
<1>4. n \in Opens
  BY <1>3 DEF Opens
<1>5. [ch[s] EXCEPT !.engine = n, !.event = n] \in ChannelState
  BY <1>2, <1>3 DEF ChannelState
<1>6. ch' = [ch EXCEPT ![s] = [ch[s] EXCEPT !.engine = n, !.event = n]]
  BY <1>1, <1>2 DEF HandlesInv, Shaped, ChannelState
<1>7. ch' \in [Slots -> ChannelState]
  BY <1>5, <1>6 DEF HandlesInv, Shaped
<1>8. /\ ch'[s].active /\ ch'[s].iso /\ ch'[s].handle = n /\ ch'[s].engine = n
      /\ ch'[s].event = n
  BY <1>2, <1>6 DEF HandlesInv, Shaped, ChannelState
<1>9. \A t \in Slots : t # s => ch'[t] = ch[t]
  BY <1>6 DEF HandlesInv, Shaped
<1>10. \A t \in Slots : t # s => ch[t].engine # n
  BY <1>2, <1>3 DEF HandlesInv, Attached, Apart
<1>11. /\ thread'[n] = "poll" /\ home'[n] = s
       /\ \A i \in Opens : i # n => thread'[i] = thread[i] /\ home'[i] = home[i]
  BY <1>1, <1>4 DEF HandlesInv, Shaped
<1>12. Shaped'
  <2>1. thread' \in [Opens -> {"none", "poll", "read", "feed", "done"}]
        /\ home' \in [Opens -> Slots]
    BY <1>1, <1>2, <1>4 DEF HandlesInv, Shaped
  <2>2. engines' \subseteq 1..opened'
    BY <1>0, <1>1, <1>3 DEF HandlesInv, Shaped
  <2>3. call' \in [op : {"idle", "start", "join"}, slot : Slots \cup {0}] /\ Idle'
    BY <1>1 DEF Idle
  <2> QED
    BY <1>1, <1>7, <2>1, <2>2, <2>3 DEF HandlesInv, Shaped
<1>13. Starting'
  BY <1>1 DEF Starting
<1>14. \A t \in Slots : Attached(t)'
  <2>1. Attached(s)'
    <3>1. s \in Slots /\ n \in handles
      BY <1>2 DEF HandlesInv, Attached
    <3> QED
      BY <1>1, <1>2, <1>3, <1>8, <1>11, <3>1 DEF Attached
  <2>2. ASSUME NEW t \in Slots, t # s PROVE Attached(t)'
    <3>1. ch[t].engine # 0 => ch[t].engine \in Opens
      BY EngineNumber
    <3>2. Attached(t) /\ ch'[t] = ch[t]
      BY <1>9, <2>2 DEF HandlesInv
    <3>3. ch[t].engine # 0 =>
            /\ thread'[ch[t].engine] = thread[ch[t].engine]
            /\ home'[ch[t].engine] = home[ch[t].engine]
      BY <1>10, <1>11, <2>2, <3>1
    <3>4. ch[t].engine # 0 => ~(thread[ch[t].engine] = "done" \/ ch[t].engine \in signalled)
      BY <1>1, <3>2 DEF Attached
    <3>5. ~(ch[t].active /\ ch[t].iso /\ ch[t].engine = 0)
      BY <1>0, <2>2, <3>2 DEF Attached
    <3>6. handles' = handles /\ engines \subseteq engines' /\ signalled' = signalled
      BY <1>1
    <3>7. CASE ch[t].engine = 0
      BY <3>2, <3>5, <3>6, <3>7 DEF Attached
    <3>8. CASE ch[t].engine # 0
      BY <3>2, <3>3, <3>4, <3>6, <3>8 DEF Attached
    <3> QED
      BY <3>7, <3>8
  <2> QED
    BY <2>1, <2>2
<1>15. Apart'
  BY <1>2, <1>8, <1>9 DEF HandlesInv, Apart
<1>16. Held'
  <2>1. \A h \in handles' : \E t \in Slots : ch'[t].active /\ ch'[t].handle = h
    <3>1. ASSUME NEW h \in handles
          PROVE  \E t \in Slots : ch'[t].active /\ ch'[t].handle = h
      <4>1. PICK t \in Slots : ch[t].active /\ ch[t].handle = h
        BY DEF HandlesInv, Held
      <4> QED
        BY <1>2, <1>8, <1>9, <4>1
    <3> QED
      BY <1>1, <3>1
  <2>2. \A e \in engines' : \E t \in Slots : ch'[t].engine = e
    <3>1. ASSUME NEW e \in engines, e # n PROVE \E t \in Slots : ch'[t].engine = e
      <4>1. PICK t \in Slots : ch[t].engine = e
        BY DEF HandlesInv, Held
      <4>2. e # 0
        BY <3>1 DEF HandlesInv, Shaped
      <4>3. t # s
        BY <1>2, <4>1, <4>2
      <4> QED
        BY <1>9, <4>1, <4>3
    <3> QED
      BY <1>1, <1>2, <1>8, <3>1
  <2>3. ASSUME NEW i \in Opens, thread'[i] \in Alive PROVE ch'[home'[i]].engine = i
    <3>1. CASE i = n
      BY <1>8, <1>11, <3>1
    <3>2. CASE i # n
      <4>1. thread[i] \in Alive /\ home[i] \in Slots /\ home'[i] = home[i]
        BY <1>11, <2>3, <3>2 DEF HandlesInv, Shaped
      <4>2. ch[home[i]].engine = i /\ i # 0
        BY <4>1 DEF HandlesInv, Held, Opens
      <4>3. home[i] # s
        BY <1>2, <4>2
      <4> QED
        BY <1>9, <4>1, <4>2, <4>3
    <3> QED
      BY <3>1, <3>2
  <2> QED
    BY <2>1, <2>2, <2>3 DEF Held
<1>17. Fed'
  <2>1. \A i \in Opens : thread'[i] = "feed" => thread[i] = "feed"
    BY <1>11
  <2> QED
    BY <1>1, <2>1 DEF HandlesInv, Fed
<1> QED
  BY <1>12, <1>13, <1>14, <1>15, <1>16, <1>17 DEF HandlesInv

\* Failed opens and new devices.
LEMMA SpareStep ==
  ASSUME HandlesInv, OpenDevice \/ \E d \in devices : OpenChannelFails(d)
  PROVE  HandlesInv'
<1> USE DEF slots, heap, threads
<1>1. /\ call.op = "idle" /\ opened' \in {opened, opened + 1} /\ opened' \in 0..MaxOpens
      /\ devices' \subseteq Nat /\ nextDevice' \in Nat
      /\ UNCHANGED <<ch, handles, engines, queue, signalled, thread, home, from, call>>
  <2>1. opened \in 0..MaxOpens /\ MaxOpens \in Nat /\ devices \subseteq Nat /\ nextDevice \in Nat
    BY KvaserHandlesAssumption DEF HandlesInv, Shaped
  <2>2. CASE OpenDevice
    BY <2>1, <2>2 DEF OpenDevice, Idle
  <2>3. CASE \E d \in devices : OpenChannelFails(d)
    BY <2>1, <2>3 DEF OpenChannelFails, Idle
  <2> QED
    BY <2>2, <2>3
<1>2. \A i \in 1..opened : i \in 1..opened'
  BY <1>1 DEF HandlesInv, Shaped
<1>3. Shaped'
  BY <1>1, <1>2 DEF HandlesInv, Shaped, Idle
<1>4. Starting'
  BY <1>1 DEF Starting
<1>5. \A s \in Slots : Attached(s)'
  BY <1>1 DEF HandlesInv, Attached
<1>6. Apart' /\ Held' /\ Fed'
  BY <1>1 DEF HandlesInv, Apart, Held, Fed
<1> QED
  BY <1>3, <1>4, <1>5, <1>6 DEF HandlesInv

\* The channels that a close of their device takes along have no engine.
LEMMA CloseDeviceStep ==
  ASSUME ~Orphaning, HandlesInv, NEW d \in devices, CloseDevice(d)
  PROVE  HandlesInv'
<1> USE DEF heap, threads
<1>1. /\ Idle /\ \A s \in Children(d) : ~ch[s].iso
      /\ devices' = devices \ {d} /\ handles' = handles \ Closed(d)
      /\ ch' = [s \in Slots |-> IF s \in Children(d) THEN Released(ch[s]) ELSE ch[s]]
      /\ UNCHANGED <<nextDevice, opened, engines, queue, signalled, thread, home, from, call>>
  BY DEF CloseDevice
<1>2. ch \in [Slots -> ChannelState] /\ Children(d) \subseteq Slots
  BY DEF HandlesInv, Shaped, Children
<1>3. \A s \in Children(d) : ch[s].active /\ ch[s].engine = 0 /\ ch[s].event = 0
  BY <1>1, <1>2 DEF HandlesInv, Attached, Children
<1>4. \A s \in Children(d) : /\ ch'[s] \in ChannelState /\ ~ch'[s].active
                             /\ ch'[s].engine = 0 /\ ch'[s].event = 0
  BY <1>1, <1>2, <1>3, ReleasedType
<1>5. \A s \in Slots : s \notin Children(d) => ch'[s] = ch[s]
  BY <1>1
<1>6. \A s \in Slots : ch'[s].engine = ch[s].engine
  BY <1>3, <1>4, <1>5
<1>7. \A s \in Slots : s \notin Children(d) /\ ch[s].active => ch[s].handle \in handles'
  BY <1>1, <1>2, <1>3 DEF HandlesInv, Attached, Apart, Closed
<1>8. Shaped'
  <2>1. ch' \in [Slots -> ChannelState]
    BY <1>1, <1>2, <1>4, <1>5
  <2> QED
    BY <1>1, <2>1 DEF HandlesInv, Shaped, Idle
<1>9. Starting'
  BY <1>1 DEF Starting, Idle
<1>10. \A s \in Slots : Attached(s)'
  <2>1. ASSUME NEW s \in Children(d) PROVE Attached(s)'
    BY <1>4, <2>1 DEF Attached
  <2>2. ASSUME NEW s \in Slots, s \notin Children(d) PROVE Attached(s)'
    BY <1>1, <1>5, <1>7, <2>2 DEF HandlesInv, Attached
  <2> QED
    BY <2>1, <2>2
<1>11. Apart'
  BY <1>4, <1>5 DEF HandlesInv, Apart
<1>12. Held'
  <2>1. ASSUME NEW h \in handles' PROVE \E s \in Slots : ch'[s].active /\ ch'[s].handle = h
    <3>1. PICK s \in Slots : ch[s].active /\ ch[s].handle = h
      BY <1>1, <2>1 DEF HandlesInv, Held
    <3>2. s \notin Children(d)
      BY <1>1, <2>1, <3>1 DEF Closed
    <3> QED
      BY <1>5, <3>1, <3>2
  <2>2. \A e \in engines' : \E s \in Slots : ch'[s].engine = e
    BY <1>1, <1>6 DEF HandlesInv, Held
  <2>3. \A n \in Opens : thread'[n] \in Alive => ch'[home'[n]].engine = n
    BY <1>1, <1>6 DEF HandlesInv, Held, Shaped
  <2> QED
    BY <2>1, <2>2, <2>3 DEF Held
<1>13. Fed'
  BY <1>1 DEF HandlesInv, Fed
<1> QED
  BY <1>8, <1>9, <1>10, <1>11, <1>12, <1>13 DEF HandlesInv

\* The stop event of a channel is that of its own thread only.
LEMMA CloseChannelStep ==
  ASSUME HandlesInv, NEW s \in Slots, CloseChannel(s)
  PROVE  HandlesInv'
<1> USE DEF slots, heap, threads
<1>1. /\ Idle /\ ch[s].active /\ signalled' = signalled \cup Stopped(s)
      /\ call' = [op |-> "join", slot |-> s]
      /\ UNCHANGED <<devices, nextDevice, ch, opened, handles, engines, queue, thread, home, from>>
  BY DEF CloseChannel
<1>2. Stopped(s) \subseteq 1..opened
  <2>1. ch[s].event = ch[s].engine
    BY DEF HandlesInv, Attached
  <2>2. CASE ch[s].engine = 0
    BY <2>1, <2>2 DEF Stopped
  <2>3. CASE ch[s].engine # 0
    BY <2>1, <2>3, EngineNumber DEF Stopped
  <2> QED
    BY <2>2, <2>3
<1>3. Shaped'
  <2>1. call' \in [op : {"idle", "start", "join"}, slot : Slots \cup {0}] /\ call'.slot = s
    BY <1>1
  <2> QED
    BY <1>1, <1>2, <2>1 DEF HandlesInv, Shaped
<1>4. Starting'
  BY <1>1 DEF Starting
<1>5. \A t \in Slots : Attached(t)'
  <2>1. ASSUME NEW t \in Slots, t # s, ch[t].engine # 0 PROVE ch[t].engine \notin Stopped(s)
    <3>1. ch[t].active /\ ch[t].engine = ch[t].handle
      BY <2>1 DEF HandlesInv, Attached
    <3>2. ch[s].event = ch[s].engine
      BY DEF HandlesInv, Attached
    <3>3. ch[s].engine # 0 => ch[s].engine = ch[s].handle
      BY DEF HandlesInv, Attached
    <3>4. ch[s].handle # ch[t].handle
      BY <1>1, <2>1, <3>1 DEF HandlesInv, Apart
    <3> QED
      BY <3>1, <3>2, <3>3, <3>4 DEF Stopped
  <2>2. call'.op = "join" /\ call'.slot = s
    BY <1>1
  <2>3. call.op = "idle"
    BY <1>1 DEF Idle
  <2>4. ASSUME NEW t \in Slots PROVE Attached(t)'
    <3>1. Attached(t)
      BY DEF HandlesInv
    <3>2. CASE ch[t].engine = 0
      BY <1>1, <2>3, <3>1, <3>2 DEF Attached
    <3>3. CASE ch[t].engine # 0
      <4>1. ~(thread[ch[t].engine] = "done" \/ ch[t].engine \in signalled)
        BY <2>3, <3>1, <3>3 DEF Attached
      <4>2. thread'[ch'[t].engine] = "done" \/ ch'[t].engine \in signalled' => t = s
        BY <1>1, <2>1, <3>3, <4>1
      <4> QED
        BY <1>1, <2>2, <3>1, <3>3, <4>2 DEF Attached
    <3> QED
      BY <3>2, <3>3
  <2> QED
    BY <2>4
<1>6. Apart' /\ Held' /\ Fed'
  BY <1>1 DEF HandlesInv, Apart, Held, Fed
<1> QED
  BY <1>3, <1>4, <1>5, <1>6 DEF HandlesInv

\* The thread whose engine is deleted has ended, and it had no other engine.
LEMMA JoinEndsStep == HandlesInv /\ JoinEnds => HandlesInv'
<1> SUFFICES ASSUME HandlesInv, JoinEnds PROVE HandlesInv'
  OBVIOUS
<1>0. PICK s, e : s = call.slot /\ e = ch[s].engine
  OBVIOUS
<1> USE DEF threads
<1>1. /\ call.op = "join" /\ Joined(s)
      /\ engines' = engines \ {e} /\ handles' = handles \ {ch[s].handle}
      /\ queue' = [n \in Opens |-> IF n = e THEN <<>> ELSE queue[n]]
      /\ ch' = [ch EXCEPT ![s] = [Released(ch[s]) EXCEPT !.event = 0]]
      /\ call' = [op |-> "idle", slot |-> 0]
      /\ UNCHANGED <<devices, nextDevice, opened, signalled, thread, home, from>>
  BY <1>0 DEF JoinEnds
<1>2. s \in Slots /\ ch \in [Slots -> ChannelState] /\ ch[s] \in ChannelState /\ ch[s].active
  BY <1>0, <1>1 DEF HandlesInv, Shaped, Idle
<1>3. e # 0 => thread[e] = "done" /\ e = ch[s].handle
  BY <1>0, <1>1, <1>2 DEF HandlesInv, Attached, Joined
<1>4. PICK c : c = [Released(ch[s]) EXCEPT !.event = 0]
  OBVIOUS
<1>5. c \in ChannelState /\ ~c.active /\ c.engine = 0 /\ c.event = 0
  <2>1. Released(ch[s]) \in ChannelState /\ ~Released(ch[s]).active /\ Released(ch[s]).engine = 0
    BY <1>2, ReleasedType
  <2>2. 0 \in 0..MaxOpens
    BY KvaserHandlesAssumption
  <2> QED
    BY <1>4, <2>1, <2>2 DEF ChannelState
<1>6. /\ ch' \in [Slots -> ChannelState] /\ ch'[s] = c
      /\ \A t \in Slots : t # s => ch'[t] = ch[t]
  BY <1>1, <1>2, <1>4, <1>5
<1>7. ASSUME NEW t \in Slots, t # s PROVE ch[t].engine # 0 => ch[t].engine # e
  <2>1. ch[t].engine # 0 => ch[t].active /\ ch[t].engine = ch[t].handle
    BY DEF HandlesInv, Attached
  <2>2. ch[t].active => ch[s].handle # ch[t].handle
    BY <1>2, <1>7 DEF HandlesInv, Apart
  <2> QED
    BY <1>3, <2>1, <2>2
<1>8. Shaped'
  <2>1. queue' \in [Opens -> Seq(Opens)]
    BY <1>1 DEF HandlesInv, Shaped
  <2>2. call' \in [op : {"idle", "start", "join"}, slot : Slots \cup {0}] /\ Idle'
    BY <1>1 DEF Idle
  <2> QED
    BY <1>1, <1>6, <2>1, <2>2 DEF HandlesInv, Shaped
<1>9. Starting'
  BY <1>1 DEF Starting
<1>10. \A t \in Slots : Attached(t)'
  <2>1. Attached(s)'
    BY <1>5, <1>6 DEF Attached
  <2>2. ASSUME NEW t \in Slots, t # s PROVE Attached(t)'
    <3>1. Attached(t) /\ ch'[t] = ch[t]
      BY <1>6, <2>2 DEF HandlesInv
    <3>2. ch[t].active => ch[t].handle \in handles'
      BY <1>1, <1>2, <2>2, <3>1 DEF HandlesInv, Attached, Apart
    <3>3. CASE ch[t].engine = 0
      BY <1>0, <1>1, <2>2, <3>1, <3>2, <3>3 DEF Attached
    <3>4. CASE ch[t].engine # 0
      <4>1. ch[t].engine \in engines'
        BY <1>1, <1>7, <2>2, <3>1, <3>4 DEF Attached
      <4>2. ~(thread[ch[t].engine] = "done" \/ ch[t].engine \in signalled)
        BY <1>0, <2>2, <3>1, <3>4 DEF Attached
      <4> QED
        BY <1>1, <3>1, <3>2, <3>4, <4>1, <4>2 DEF Attached
    <3> QED
      BY <3>3, <3>4
  <2> QED
    BY <2>1, <2>2
<1>11. Apart'
  BY <1>5, <1>6 DEF HandlesInv, Apart
<1>12. Held'
  <2>1. ASSUME NEW h \in handles' PROVE \E t \in Slots : ch'[t].active /\ ch'[t].handle = h
    <3>1. PICK t \in Slots : ch[t].active /\ ch[t].handle = h
      BY <1>1, <2>1 DEF HandlesInv, Held
    <3>2. t # s
      BY <1>1, <2>1, <3>1
    <3> QED
      BY <1>6, <3>1, <3>2
  <2>2. ASSUME NEW i \in engines' PROVE \E t \in Slots : ch'[t].engine = i
    <3>1. PICK t \in Slots : ch[t].engine = i
      BY <1>1, <2>2 DEF HandlesInv, Held
    <3>2. t # s
      BY <1>0, <1>1, <2>2, <3>1
    <3> QED
      BY <1>6, <3>1, <3>2
  <2>3. ASSUME NEW n \in Opens, thread[n] \in Alive PROVE ch'[home[n]].engine = n
    <3>1. home[n] \in Slots /\ ch[home[n]].engine = n /\ n # 0
      BY <2>3 DEF HandlesInv, Held, Shaped, Opens
    <3>2. home[n] # s
      BY <1>0, <1>3, <2>3, <3>1 DEF Alive
    <3> QED
      BY <1>6, <3>1, <3>2
  <2> QED
    BY <1>1, <2>1, <2>2, <2>3 DEF Held
<1>13. Fed'
  <2>1. ASSUME NEW n \in Opens, NEW i \in 1..Len(queue'[n]) PROVE queue'[n][i] = n
    <3>1. CASE n = e
      BY <1>1, <2>1, <3>1
    <3>2. CASE n # e
      BY <1>1, <2>1, <3>2 DEF HandlesInv, Fed
    <3> QED
      BY <3>1, <3>2
  <2> QED
    BY <1>1, <2>1 DEF HandlesInv, Fed
<1> QED
  BY <1>8, <1>9, <1>10, <1>11, <1>12, <1>13 DEF HandlesInv

-----------------------------------------------------------------------------
(* Receive threads                                                         *)

\* A step of a thread that ends only if its own stop event is set.
LEMMA ThreadKept ==
  ASSUME HandlesInv, NEW n \in Opens, thread[n] \in Alive,
         NEW w \in {"poll", "read", "feed", "done"}, thread' = [thread EXCEPT ![n] = w],
         w = "done" => n \in signalled,
         from' \in [Opens -> 0..MaxOpens], queue' \in [Opens -> Seq(Opens)], Fed',
         UNCHANGED <<devices, nextDevice, ch, opened, handles, engines, signalled, home, call>>
  PROVE  HandlesInv'
<1>1. thread'[n] = w /\ \A i \in Opens : i # n => thread'[i] = thread[i]
  BY DEF HandlesInv, Shaped
<1>2. Shaped'
  <2>1. thread' \in [Opens -> {"none", "poll", "read", "feed", "done"}]
    BY DEF HandlesInv, Shaped
  <2> QED
    BY <2>1 DEF HandlesInv, Shaped, Idle
<1>3. ASSUME NEW t \in Slots PROVE Attached(t)'
  <2>1. Attached(t)
    BY DEF HandlesInv
  <2>2. CASE ch[t].engine = 0
    BY <2>1, <2>2 DEF Attached
  <2>3. CASE ch[t].engine # 0
    <3>1. ch[t].engine \in Opens
      BY <2>3, EngineNumber
    <3>2. thread'[ch[t].engine] # "none"
      BY <1>1, <2>1, <2>3, <3>1 DEF Attached
    <3>3. thread'[ch[t].engine] = "done" =>
            thread[ch[t].engine] = "done" \/ ch[t].engine \in signalled
      BY <1>1, <3>1
    <3> QED
      BY <2>1, <2>3, <3>2, <3>3 DEF Attached
  <2> QED
    BY <2>2, <2>3
<1>4. Held'
  <2>1. \A i \in Opens : thread'[i] \in Alive => thread[i] \in Alive
    BY <1>1
  <2> QED
    BY <2>1 DEF HandlesInv, Held
<1>5. Starting' /\ Apart'
  BY DEF HandlesInv, Starting, Apart
<1> QED
  BY <1>2, <1>3, <1>4, <1>5 DEF HandlesInv

LEMMA ReceiverStep ==
  ASSUME HandlesInv, NEW n \in Opens, Receiver(n)
  PROVE  HandlesInv'
<1> USE DEF slots, heap
<1>1. thread[n] \in Alive
  BY DEF Receiver, CheckStop, ReadWait, Feed, Alive
<1>2. home[n] \in Slots /\ ch[home[n]].engine = n /\ n # 0
  BY <1>1 DEF HandlesInv, Held, Shaped, Opens
<1>3. ch[home[n]].event = n /\ ch[home[n]].handle = n
  BY <1>2 DEF HandlesInv, Attached
<1>4. n \in 0..MaxOpens /\ 0 \in 0..MaxOpens
  BY KvaserHandlesAssumption DEF Opens
<1>5. /\ from \in [Opens -> 0..MaxOpens] /\ queue \in [Opens -> Seq(Opens)]
      /\ thread \in [Opens -> {"none", "poll", "read", "feed", "done"}]
  BY DEF HandlesInv, Shaped
<1>6. CASE CheckStop(n)
  <2>1. PICK w : w = IF n = 0 \/ n \in signalled THEN "done" ELSE "read"
    OBVIOUS
  <2>2. /\ thread' = [thread EXCEPT ![n] = w]
        /\ UNCHANGED <<devices, nextDevice, ch, opened, handles, engines, queue, signalled,
                       home, from, call>>
    BY <1>3, <1>6, <2>1 DEF CheckStop
  <2>3. Fed'
    BY <1>5, <2>1, <2>2 DEF HandlesInv, Fed
  <2> QED
    BY <1>1, <1>2, <1>5, <2>1, <2>2, <2>3, ThreadKept
<1>7. CASE ReadWait(n)
  <2>1. UNCHANGED <<devices, nextDevice, ch, opened, handles, engines, queue, signalled, home, call>>
    BY <1>7 DEF ReadWait
  <2>2. CASE from' = [from EXCEPT ![n] = n] /\ thread' = [thread EXCEPT ![n] = "feed"]
    <3>1. from' \in [Opens -> 0..MaxOpens]
      BY <1>4, <1>5, <2>2
    <3>2. Fed'
      BY <1>5, <2>1, <2>2 DEF HandlesInv, Fed
    <3> QED
      BY <1>1, <1>5, <2>1, <2>2, <3>1, <3>2, ThreadKept
  <2>3. CASE thread' = [thread EXCEPT ![n] = "poll"] /\ UNCHANGED from
    <3>1. Fed'
      BY <1>5, <2>1, <2>3 DEF HandlesInv, Fed
    <3> QED
      BY <1>1, <1>5, <2>1, <2>3, <3>1, ThreadKept
  <2> QED
    BY <1>3, <1>7, <2>2, <2>3 DEF ReadWait
<1>8. CASE Feed(n)
  <2>1. /\ thread[n] = "feed" /\ thread' = [thread EXCEPT ![n] = "poll"]
        /\ from' = [from EXCEPT ![n] = 0]
        /\ queue' \in {queue, [queue EXCEPT ![n] = Append(queue[n], from[n])]}
        /\ UNCHANGED <<devices, nextDevice, ch, opened, handles, engines, signalled, home, call>>
    BY <1>8 DEF Feed
  <2>2. from[n] = n
    BY <2>1 DEF HandlesInv, Fed
  <2>3. from' \in [Opens -> 0..MaxOpens]
    BY <1>4, <1>5, <2>1
  <2>4. /\ queue[n] \in Seq(Opens) /\ Append(queue[n], n) \in Seq(Opens)
        /\ \A i \in 1..Len(Append(queue[n], n)) : Append(queue[n], n)[i] = n
    <3>1. queue[n] \in Seq(Opens) /\ \A i \in 1..Len(queue[n]) : queue[n][i] = n
      BY <1>5 DEF HandlesInv, Fed
    <3> QED
      BY <3>1
  <2>5. queue' \in [Opens -> Seq(Opens)]
    BY <1>5, <2>1, <2>2, <2>4
  <2>6. ASSUME NEW i \in Opens, NEW k \in 1..Len(queue'[i]) PROVE queue'[i][k] = i
    <3>1. queue'[i] \in {queue[i], IF i = n THEN Append(queue[n], n) ELSE queue[i]}
      BY <1>5, <2>1, <2>2
    <3>2. \A j \in 1..Len(queue[i]) : queue[i][j] = i
      BY DEF HandlesInv, Fed
    <3> QED
      BY <2>4, <2>6, <3>1, <3>2
  <2>7. Fed'
    BY <1>5, <2>1, <2>6 DEF HandlesInv, Fed
  <2> QED
    BY <1>1, <2>1, <2>3, <2>5, <2>7, ThreadKept
<1> QED
  BY <1>6, <1>7, <1>8 DEF Receiver

-----------------------------------------------------------------------------
LEMMA HandlesStep == ~Orphaning /\ HandlesInv /\ [Next]_vars => HandlesInv'
<1> SUFFICES ASSUME ~Orphaning, HandlesInv, [Next]_vars PROVE HandlesInv'
  OBVIOUS
<1>1. CASE OpenDevice \/ \E d \in devices : OpenChannelFails(d)
  BY <1>1, SpareStep
<1>2. CASE \E d \in devices : CloseDevice(d)
  BY <1>2, CloseDeviceStep
<1>3. CASE \E d \in devices, iso \in BOOLEAN : OpenChannel(d, iso)
  BY <1>3, OpenChannelStep
<1>4. CASE \E s \in Slots : CloseChannel(s)
  BY <1>4, CloseChannelStep
<1>5. CASE \E s \in Slots : ReadMsgs(s) \/ Configures(s)
  BY <1>5, ConfigureStep
<1>6. CASE StartReceiver
  BY <1>6, StartReceiverStep
<1>7. CASE JoinEnds
  BY <1>7, JoinEndsStep
<1>8. CASE \E n \in Opens : Receiver(n)
  BY <1>8, ReceiverStep
<1>9. CASE UNCHANGED vars
  <2> USE DEF slots, heap, threads
  <2>1. UNCHANGED <<devices, nextDevice, ch, opened, handles, engines, queue, signalled, thread,
                    home, from, call>>
    BY <1>9 DEF vars
  <2>2. ch' \in [Slots -> ChannelState] /\ queue' \in [Opens -> Seq(Opens)] /\ Fed'
    BY <2>1 DEF HandlesInv, Shaped, Fed
  <2> QED
    BY <2>1, <2>2, SkeletonKept DEF Skeleton
<1> QED
  BY <1>1, <1>2, <1>3, <1>4, <1>5, <1>6, <1>7, <1>8, <1>9 DEF Next, Client, Configures

LEMMA HandlesAlways == ~Orphaning => (Spec => []HandlesInv)
<1> SUFFICES ASSUME ~Orphaning PROVE Spec => []HandlesInv
  OBVIOUS
<1>1. HandlesInv /\ [Next]_vars => HandlesInv'
  BY HandlesStep
<1> QED
  BY <1>1, HandlesInit, PTL DEF Spec

(* If ISO 15765 channels are closed before their device (closeDevice()      *)
(* leaves their threads running), what a client reads from a channel came   *)
(* in through that channel's own handle, however slots are used again.      *)
THEOREM Contained == ~Orphaning => (Spec => []OwnMessages)
<1> SUFFICES ASSUME ~Orphaning PROVE Spec => []OwnMessages
  OBVIOUS
<1>1. HandlesInv => OwnMessages
  BY DEF HandlesInv, Fed, OwnMessages
<1> QED
  BY <1>1, HandlesAlways, PTL

(* For the same clients closeChannel() and closeDevice() give back what     *)
(* openChannel() took: between calls handles, engines and running threads   *)
(* are those of the active slots, and no thread runs without its engine.    *)
THEOREM Tidy == ~Orphaning => (Spec => []NothingLeaks)
<1> SUFFICES ASSUME ~Orphaning PROVE Spec => []NothingLeaks
  OBVIOUS
<1>1. HandlesInv => NothingLeaks
  <2> SUFFICES ASSUME HandlesInv PROVE NothingLeaks
    OBVIOUS
  <2>0. Running = {n \in Opens : thread[n] \in Alive}
    BY DEF Running, Alive
  <2>1. Running \subseteq engines
    <3>1. ASSUME NEW n \in Running PROVE n \in engines
      <4>1. home[n] \in Slots /\ ch[home[n]].engine = n /\ n # 0
        BY <2>0, <3>1 DEF HandlesInv, Held, Shaped, Opens
      <4> QED
        BY <4>1 DEF HandlesInv, Attached
    <3> QED
      BY <3>1
  <2>2. ASSUME Idle
        PROVE  /\ handles = {ch[s].handle : s \in {t \in Slots : ch[t].active}}
               /\ engines = {ch[s].engine : s \in {t \in Slots : ch[t].active /\ ch[t].iso}}
               /\ engines \subseteq Running
    <3>0. call.op = "idle"
      BY <2>2 DEF Idle
    <3>1. handles = {ch[s].handle : s \in {t \in Slots : ch[t].active}}
      BY DEF HandlesInv, Attached, Held
    <3>2. ASSUME NEW e \in engines
          PROVE  \E s \in Slots : ch[s].active /\ ch[s].iso /\ ch[s].engine = e
      <4>1. PICK s \in Slots : ch[s].engine = e /\ e # 0
        BY DEF HandlesInv, Held, Shaped
      <4> QED
        BY <4>1 DEF HandlesInv, Attached
    <3>3. ASSUME NEW s \in Slots, ch[s].active, ch[s].iso PROVE ch[s].engine \in engines
      BY <3>0, <3>3 DEF HandlesInv, Attached
    <3>4. ASSUME NEW e \in engines PROVE e \in Running
      <4>1. PICK s \in Slots : ch[s].engine = e /\ e # 0
        BY DEF HandlesInv, Held, Shaped
      <4>2. e \in Opens
        BY <4>1, EngineNumber
      <4>3. thread[e] # "none" /\ thread[e] # "done"
        BY <3>0, <4>1 DEF HandlesInv, Attached
      <4> QED
        BY <2>0, <4>2, <4>3 DEF HandlesInv, Shaped, Alive
    <3> QED
      BY <3>1, <3>2, <3>3, <3>4
  <2> QED
    BY <2>1, <2>2 DEF NothingLeaks
<1> QED
  BY <1>1, HandlesAlways, PTL

-----------------------------------------------------------------------------
(* Types, whatever the client does                                         *)

DevicesTyped ==
  /\ devices \subseteq 1..(nextDevice - 1) /\ nextDevice \in Nat \ {0}
  /\ Cardinality(devices) <= MaxDevices

SlotsTyped ==
  /\ ch \in [Slots -> ChannelState] /\ opened \in 0..MaxOpens
  /\ handles \subseteq 1..opened /\ engines \subseteq 1..opened /\ signalled \subseteq 1..opened
  /\ \A s \in Slots : /\ ch[s].nextFilter >= 1
                      /\ {ch[s].handle, ch[s].engine, ch[s].event} \subseteq 0..opened

ThreadsTyped ==
  /\ thread \in [Opens -> {"none", "poll", "read", "feed", "done"}]
  /\ home \in [Opens -> Slots] /\ from \in [Opens -> 0..MaxOpens]
  /\ \A n \in Opens : thread[n] = "feed" => from[n] \in Opens
  /\ call \in [op : {"idle", "start", "join"}, slot : Slots \cup {0}]
  /\ ~Idle => call.slot \in Slots
  /\ call.op = "start" => opened \in Opens

HeapTyped ==
  /\ sessions \in [Opens -> SUBSET (1..MaxFilterIds)]
  /\ \A n \in Opens : Cardinality(sessions[n]) <= MaxSessions
  /\ blockSize \in [Opens -> BlockSizes]
  /\ queue \in [Opens -> Seq(Opens)]
  /\ \A n \in Opens : Len(queue[n]) <= MaxQueue
  /\ wanted \in [Slots -> SUBSET (1..MaxFilterIds)]
  /\ agreed \in [Slots -> BOOLEAN]

Typed == DevicesTyped /\ SlotsTyped /\ ThreadsTyped /\ HeapTyped

LEMMA FewerDevices ==
  ASSUME NEW n \in Nat, NEW D, D \subseteq 1..n
  PROVE  /\ IsFiniteSet(D) /\ Cardinality(D) \in Nat
         /\ \A E : E \subseteq D => Cardinality(E) <= Cardinality(D)
         /\ \A x : x \notin D => Cardinality(D \cup {x}) = Cardinality(D) + 1
         /\ \A x : Cardinality(D \cup {x}) <= Cardinality(D) + 1
<1>1. IsFiniteSet(D)
  <2>1. 1 \in Int /\ n \in Int
    OBVIOUS
  <2> QED
    BY <2>1, FS_Interval, FS_Subset
<1>2. Cardinality(D) \in Nat
  BY <1>1, FS_CardinalityType
<1>3. ASSUME NEW E, E \subseteq D PROVE Cardinality(E) <= Cardinality(D)
  BY <1>1, <1>3, FS_Subset
<1>4. ASSUME NEW x, x \notin D PROVE Cardinality(D \cup {x}) = Cardinality(D) + 1
  BY <1>1, <1>4, FS_AddElement
<1>5. ASSUME NEW x PROVE Cardinality(D \cup {x}) <= Cardinality(D) + 1
  <2>1. CASE x \in D
    <3>1. D \cup {x} = D
      BY <2>1
    <3>2. Cardinality(D \cup {x}) = Cardinality(D)
      BY <3>1, Zenon
    <3> QED
      BY <1>2, <3>2
  <2>2. CASE x \notin D
    <3>1. Cardinality(D \cup {x}) = Cardinality(D) + 1 /\ Cardinality(D) + 1 \in Nat
      BY <1>2, <1>4, <2>2
    <3> QED
      BY <3>1
  <2> QED
    BY <2>1, <2>2
<1> QED
  BY <1>1, <1>2, <1>3, <1>4, <1>5

LEMMA DevicesTypedStep == DevicesTyped /\ Next => DevicesTyped'
<1> SUFFICES ASSUME DevicesTyped, Next PROVE DevicesTyped'
  OBVIOUS
<1>0. /\ nextDevice - 1 \in Nat /\ MaxDevices \in Nat
      /\ devices \subseteq 1..(nextDevice - 1)
  BY KvaserHandlesAssumption DEF DevicesTyped
<1>1. CASE UNCHANGED <<devices, nextDevice>>
  BY <1>1 DEF DevicesTyped
<1>2. CASE OpenDevice
  <2>1. /\ devices' = devices \cup {nextDevice} /\ nextDevice' = nextDevice + 1
        /\ Cardinality(devices) < MaxDevices
    BY <1>2 DEF OpenDevice, FreeDevice
  <2>2. Cardinality(devices') <= MaxDevices
    <3>1. Cardinality(devices') <= Cardinality(devices) + 1 /\ Cardinality(devices) \in Nat
      BY <1>0, <2>1, FewerDevices
    <3>2. Cardinality(devices') \in Nat
      BY <1>0, <2>1, FewerDevices, FS_AddElement, FS_CardinalityType
    <3> QED
      BY <1>0, <2>1, <3>1, <3>2
  <2>3. devices' \subseteq 1..(nextDevice' - 1) /\ nextDevice' \in Nat \ {0}
    BY <2>1 DEF DevicesTyped
  <2> QED
    BY <2>2, <2>3 DEF DevicesTyped
<1>3. ASSUME NEW d \in devices, CloseDevice(d) PROVE DevicesTyped'
  <2>1. devices' \subseteq devices /\ nextDevice' = nextDevice
    BY <1>3 DEF CloseDevice
  <2>2. Cardinality(devices') <= MaxDevices
    <3>1. Cardinality(devices') <= Cardinality(devices) /\ Cardinality(devices) \in Nat
      BY <1>0, <2>1, FewerDevices
    <3>2. Cardinality(devices') \in Nat
      BY <1>0, <2>1, FewerDevices, FS_Subset, FS_CardinalityType
    <3> QED
      BY <1>0, <3>1, <3>2 DEF DevicesTyped
  <2> QED
    BY <2>1, <2>2 DEF DevicesTyped
<1>4. ASSUME NEW s \in Slots, ReadMsgs(s) \/ Configures(s) PROVE UNCHANGED <<devices, nextDevice>>
  BY <1>4
  DEF ReadMsgs, Configures, ClearMsgFilters, StartPeriodic, StopPeriodic, ClearPeriodic, Periodic,
      AddFilter, RemoveFilter, SetConfig
<1> QED
  BY <1>1, <1>2, <1>3, <1>4
  DEF Next, Client, Configures, OpenChannelFails, OpenChannel, CloseChannel, StartReceiver,
      JoinEnds, Receiver, CheckStop, ReadWait, Feed

LEMMA SlotsTypedStep == Typed /\ Next => SlotsTyped'
<1> SUFFICES ASSUME Typed, Next PROVE SlotsTyped'
  OBVIOUS
<1> USE DEF slots, heap, threads
<1>0. /\ ch \in [Slots -> ChannelState] /\ opened \in 0..MaxOpens /\ MaxOpens \in Nat
      /\ opened \in Nat /\ 0 \in 0..opened /\ 0 \in 0..MaxOpens
  BY KvaserHandlesAssumption DEF Typed, SlotsTyped
\* Nothing but one slot changes, and it holds numbers that were given out.
<1>1. ASSUME NEW s \in Slots, NEW c \in ChannelState, ch' = [ch EXCEPT ![s] = c],
             c.nextFilter >= 1, {c.handle, c.engine, c.event} \subseteq 0..opened,
             opened' = opened, handles' \subseteq handles, engines' \subseteq 1..opened,
             signalled' = signalled
      PROVE  SlotsTyped'
  BY <1>0, <1>1 DEF Typed, SlotsTyped
<1>2. CASE UNCHANGED <<ch, opened, handles, engines, signalled>>
  BY <1>2 DEF Typed, SlotsTyped
<1>3. ASSUME NEW d \in devices, CloseDevice(d) PROVE SlotsTyped'
  <2>1. /\ ch' = [s \in Slots |-> IF s \in Children(d) THEN Released(ch[s]) ELSE ch[s]]
        /\ handles' \subseteq handles /\ UNCHANGED <<opened, engines, signalled>>
    BY <1>3 DEF CloseDevice
  <2>2. ASSUME NEW s \in Slots
        PROVE  /\ ch'[s] \in ChannelState /\ ch'[s].nextFilter >= 1
               /\ {ch'[s].handle, ch'[s].engine, ch'[s].event} \subseteq 0..opened
    <3>1. CASE s \in Children(d)
      <4>1. ch'[s] = Released(ch[s]) /\ Released(ch[s]) \in ChannelState
        BY <1>0, <2>1, <3>1, ReleasedType
      <4>2. /\ Released(ch[s]).nextFilter = 1 /\ Released(ch[s]).engine = 0
            /\ Released(ch[s]).handle = ch[s].handle /\ Released(ch[s]).event = ch[s].event
        BY DEF Released, Fresh
      <4> QED
        BY <1>0, <4>1, <4>2 DEF Typed, SlotsTyped
    <3>2. CASE s \notin Children(d)
      BY <1>0, <2>1, <3>2 DEF Typed, SlotsTyped
    <3> QED
      BY <3>1, <3>2
  <2> QED
    BY <1>0, <2>1, <2>2 DEF Typed, SlotsTyped
<1>4. ASSUME NEW d \in devices, OpenChannelFails(d) PROVE SlotsTyped'
  <2>1. /\ opened < MaxOpens /\ opened' = opened + 1
        /\ UNCHANGED <<ch, handles, engines, signalled>>
    BY <1>4 DEF OpenChannelFails
  <2>2. opened' \in 0..MaxOpens /\ (0..opened) \subseteq 0..opened' /\ (1..opened) \subseteq 1..opened'
    BY <1>0, <2>1
  <2> QED
    BY <2>1, <2>2 DEF Typed, SlotsTyped
<1>5. ASSUME NEW d \in devices, NEW iso \in BOOLEAN, OpenChannel(d, iso) PROVE SlotsTyped'
  <2>0. PICK s, n : s = Lowest(Free) /\ n = opened + 1
    OBVIOUS
  <2>1. /\ Free # {} /\ opened < MaxOpens /\ opened' = n /\ handles' = handles \cup {n}
        /\ ch' = [ch EXCEPT ![s] = Fresh(d, iso, n)] /\ UNCHANGED <<engines, signalled>>
    BY <1>5, <2>0 DEF OpenChannel
  <2>2. s \in Slots
    BY <2>0, <2>1, LowestIn, KvaserHandlesAssumption DEF Free
  <2>3. /\ n \in 0..MaxOpens /\ (0..opened) \subseteq 0..n /\ (1..opened) \subseteq 1..n
        /\ n \in 1..n /\ n \in 0..n /\ 0 \in 0..n
    BY <1>0, <2>0, <2>1
  <2>4. d \in Nat
    BY DEF Typed, DevicesTyped
  <2>5. Fresh(d, iso, n) \in ChannelState
    BY <2>3, <2>4, FreshType
  <2>6. /\ Fresh(d, iso, n).nextFilter = 1 /\ Fresh(d, iso, n).handle = n
        /\ Fresh(d, iso, n).engine = 0 /\ Fresh(d, iso, n).event = 0
    BY DEF Fresh
  <2>7. PICK c \in ChannelState : c = Fresh(d, iso, n)
    BY <2>5
  <2> QED
    BY <1>0, <2>1, <2>2, <2>3, <2>6, <2>7 DEF Typed, SlotsTyped
<1>6. CASE StartReceiver
  <2>0. PICK s, n : s = call.slot /\ n = opened
    OBVIOUS
  <2>1. /\ call.op = "start" /\ engines' = engines \cup {n}
        /\ ch' = [ch EXCEPT ![s].engine = n, ![s].event = n]
        /\ UNCHANGED <<opened, handles, signalled>>
    BY <1>6, <2>0 DEF StartReceiver
  <2>2. s \in Slots /\ n \in Opens
    BY <2>0, <2>1 DEF Typed, ThreadsTyped, Idle
  <2>3. n \in 1..opened /\ n \in 0..opened /\ n \in 0..MaxOpens
    BY <1>0, <2>0, <2>2 DEF Opens
  <2>4. PICK c : c = [ch[s] EXCEPT !.engine = n, !.event = n]
    OBVIOUS
  <2>5. c \in ChannelState /\ ch' = [ch EXCEPT ![s] = c]
    BY <1>0, <2>1, <2>2, <2>3, <2>4 DEF ChannelState
  <2>6. /\ c.nextFilter = ch[s].nextFilter /\ c.handle = ch[s].handle
        /\ c.engine = n /\ c.event = n
    BY <1>0, <2>2, <2>4 DEF ChannelState
  <2>7. engines' \subseteq 1..opened
    BY <2>1, <2>3 DEF Typed, SlotsTyped
  <2> QED
    BY <1>0, <1>1, <2>1, <2>2, <2>3, <2>5, <2>6, <2>7 DEF Typed, SlotsTyped
<1>7. ASSUME NEW s \in Slots, CloseChannel(s) PROVE SlotsTyped'
  <2>1. signalled' = signalled \cup Stopped(s) /\ UNCHANGED <<ch, opened, handles, engines>>
    BY <1>7 DEF CloseChannel
  <2>2. Stopped(s) \subseteq 1..opened
    BY <1>0 DEF Stopped, Typed, SlotsTyped
  <2> QED
    BY <2>1, <2>2 DEF Typed, SlotsTyped
<1>8. CASE JoinEnds
  <2>0. PICK s : s = call.slot
    OBVIOUS
  <2>1. /\ call.op = "join" /\ engines' \subseteq engines /\ handles' \subseteq handles
        /\ ch' = [ch EXCEPT ![s] = [Released(ch[s]) EXCEPT !.event = 0]]
        /\ UNCHANGED <<opened, signalled>>
    BY <1>8, <2>0 DEF JoinEnds
  <2>2. s \in Slots
    BY <2>0, <2>1 DEF Typed, ThreadsTyped, Idle
  <2>3. Released(ch[s]) \in ChannelState
    BY <1>0, <2>2, ReleasedType
  <2>4. /\ Released(ch[s]).nextFilter = 1 /\ Released(ch[s]).engine = 0
        /\ Released(ch[s]).handle = ch[s].handle
    BY DEF Released, Fresh
  <2>5. PICK c : c = [Released(ch[s]) EXCEPT !.event = 0]
    OBVIOUS
  <2>6. /\ c \in ChannelState /\ c.nextFilter = 1 /\ c.handle = ch[s].handle
        /\ c.engine = 0 /\ c.event = 0
    BY <1>0, <2>3, <2>4, <2>5 DEF ChannelState
  <2>7. engines' \subseteq 1..opened
    BY <2>1 DEF Typed, SlotsTyped
  <2> QED
    BY <1>0, <1>1, <2>1, <2>2, <2>5, <2>6, <2>7 DEF Typed, SlotsTyped
<1>9. ASSUME NEW s \in Slots, Configures(s) PROVE SlotsTyped'
  <2>1. PICK c \in ChannelState : /\ ch' = [ch EXCEPT ![s] = c] /\ Skeleton(c) = Skeleton(ch[s])
                                  /\ c.nextFilter \in {ch[s].nextFilter, ch[s].nextFilter + 1}
    BY <1>0, <1>9, SlotEdited
  <2>2. UNCHANGED <<opened, handles, engines, signalled>>
    BY <1>0, <1>9, SlotEdited
  <2>3. c.handle = ch[s].handle /\ c.engine = ch[s].engine /\ c.event = ch[s].event
    BY <2>1 DEF Skeleton
  <2>4. c.nextFilter >= 1
    BY <1>0, <2>1 DEF Typed, SlotsTyped, ChannelState
  <2> QED
    BY <1>0, <1>1, <2>1, <2>2, <2>3, <2>4 DEF Typed, SlotsTyped
<1> QED
  BY <1>2, <1>3, <1>4, <1>5, <1>6, <1>7, <1>8, <1>9
  DEF Next, Client, Configures, OpenDevice, ReadMsgs, Receiver, CheckStop, ReadWait, Feed

LEMMA ThreadsTypedStep == Typed /\ Next => ThreadsTyped'
<1> SUFFICES ASSUME Typed, Next PROVE ThreadsTyped'
  OBVIOUS
<1> USE DEF slots, heap, threads
<1>0. /\ opened \in 0..MaxOpens /\ MaxOpens \in Nat /\ opened \in Nat /\ 0 \in 0..MaxOpens
      /\ thread \in [Opens -> {"none", "poll", "read", "feed", "done"}]
      /\ home \in [Opens -> Slots] /\ from \in [Opens -> 0..MaxOpens]
      /\ \A n \in Opens : n \in 0..MaxOpens
  BY KvaserHandlesAssumption DEF Typed, SlotsTyped, ThreadsTyped, Opens
<1>1. CASE UNCHANGED <<thread, home, from, call, opened>>
  BY <1>1 DEF Typed, ThreadsTyped, Idle
\* Calls that begin and end.
<1>2. ASSUME UNCHANGED <<thread, home, from>>,
             call' \in [op : {"idle", "start", "join"}, slot : Slots \cup {0}],
             call'.op # "idle" => call'.slot \in Slots,
             call'.op = "start" => opened' \in Opens
      PROVE  ThreadsTyped'
  BY <1>2 DEF Typed, ThreadsTyped, Idle
<1>3. ASSUME NEW d \in devices, OpenChannelFails(d) PROVE ThreadsTyped'
  BY <1>3, <1>2 DEF OpenChannelFails, Typed, ThreadsTyped, Idle
<1>4. ASSUME NEW d \in devices, NEW iso \in BOOLEAN, OpenChannel(d, iso) PROVE ThreadsTyped'
  <2>0. PICK s, n : s = Lowest(Free) /\ n = opened + 1
    OBVIOUS
  <2>1. /\ Free # {} /\ opened < MaxOpens /\ opened' = n /\ call.op = "idle"
        /\ call' = IF iso THEN [op |-> "start", slot |-> s] ELSE call
        /\ UNCHANGED <<thread, home, from>>
    BY <1>4, <2>0 DEF OpenChannel, Idle
  <2>2. s \in Slots
    BY <2>0, <2>1, LowestIn, KvaserHandlesAssumption DEF Free
  <2>3. n \in Opens
    BY <1>0, <2>0, <2>1 DEF Opens
  <2> QED
    BY <1>2, <2>1, <2>2, <2>3 DEF Typed, ThreadsTyped
<1>5. ASSUME NEW s \in Slots, CloseChannel(s) PROVE ThreadsTyped'
  BY <1>2, <1>5 DEF CloseChannel
<1>6. CASE JoinEnds
  BY <1>2, <1>6 DEF JoinEnds
<1>7. CASE StartReceiver
  <2>0. PICK s, n : s = call.slot /\ n = opened
    OBVIOUS
  <2>1. /\ call.op = "start" /\ thread' = [thread EXCEPT ![n] = "poll"]
        /\ home' = [home EXCEPT ![n] = s] /\ call' = [op |-> "idle", slot |-> 0]
        /\ from' = from
    BY <1>7, <2>0 DEF StartReceiver
  <2>2. s \in Slots /\ n \in Opens
    BY <2>0, <2>1 DEF Typed, ThreadsTyped, Idle
  <2> QED
    BY <1>0, <2>1, <2>2 DEF Typed, ThreadsTyped, Idle
<1>8. ASSUME NEW n \in Opens, Receiver(n) PROVE ThreadsTyped'
  <2>1. /\ \E w \in {"poll", "read", "done"} : thread' = [thread EXCEPT ![n] = w] /\ from' \in {from, [from EXCEPT ![n] = 0]}
        \/ \E h \in Opens : thread' = [thread EXCEPT ![n] = "feed"] /\ from' = [from EXCEPT ![n] = h]
    <3>1. \A h \in handles : h \in Opens
      BY <1>0 DEF Typed, SlotsTyped, Opens
    <3> QED
      BY <1>8, <3>1 DEF Receiver, CheckStop, ReadWait, Feed
  <2>2. UNCHANGED <<home, call, opened>>
    BY <1>8 DEF Receiver, CheckStop, ReadWait, Feed
  <2>3. /\ thread' \in [Opens -> {"none", "poll", "read", "feed", "done"}]
        /\ from' \in [Opens -> 0..MaxOpens]
        /\ \A i \in Opens : thread'[i] = "feed" => from'[i] \in Opens
    BY <1>0, <2>1 DEF Typed, ThreadsTyped
  <2> QED
    BY <2>2, <2>3 DEF Typed, ThreadsTyped, Idle
<1>9. ASSUME NEW s \in Slots, Configures(s) PROVE UNCHANGED <<thread, home, from, call, opened>>
  BY <1>9, SlotEdited DEF Typed, SlotsTyped
<1> QED
  BY <1>1, <1>3, <1>4, <1>5, <1>6, <1>7, <1>8, <1>9
  DEF Next, Client, Configures, OpenDevice, CloseDevice, ReadMsgs

LEMMA HeapTypedStep == Typed /\ Next => HeapTyped'
<1> SUFFICES ASSUME Typed, Next PROVE HeapTyped'
  OBVIOUS
<1> USE DEF slots, heap, threads
<1>0. /\ sessions \in [Opens -> SUBSET (1..MaxFilterIds)]
      /\ blockSize \in [Opens -> BlockSizes] /\ queue \in [Opens -> Seq(Opens)]
      /\ wanted \in [Slots -> SUBSET (1..MaxFilterIds)] /\ agreed \in [Slots -> BOOLEAN]
      /\ MaxSessions \in Nat /\ MaxFilterIds \in Nat /\ MaxQueue \in Nat
  BY KvaserHandlesAssumption DEF Typed, HeapTyped
<1>1. ASSUME NEW s \in Slots, ch[s].engine # 0 PROVE ch[s].engine \in Opens
  BY <1>1, KvaserHandlesAssumption DEF Typed, SlotsTyped, Opens, ChannelState
<1>2. CASE UNCHANGED <<sessions, blockSize, queue, wanted, agreed>>
  BY <1>2 DEF Typed, HeapTyped
<1>3. ASSUME NEW d \in devices, CloseDevice(d) PROVE HeapTyped'
  BY <1>3 DEF CloseDevice, Typed, HeapTyped
<1>4. CASE JoinEnds
  <2>1. PICK e, s : /\ sessions' = [n \in Opens |-> IF n = e THEN {} ELSE sessions[n]]
                    /\ blockSize' = [n \in Opens |-> IF n = e THEN 0 ELSE blockSize[n]]
                    /\ queue' = [n \in Opens |-> IF n = e THEN <<>> ELSE queue[n]]
                    /\ wanted' = [wanted EXCEPT ![s] = {}] /\ agreed' = [agreed EXCEPT ![s] = TRUE]
    BY <1>4 DEF JoinEnds
  <2>2. Cardinality({}) = 0 /\ Len(<<>>) = 0 /\ <<>> \in Seq(Opens) /\ 0 \in BlockSizes
    BY FS_EmptySet DEF BlockSizes
  <2>3. /\ sessions' \in [Opens -> SUBSET (1..MaxFilterIds)]
        /\ \A n \in Opens : Cardinality(sessions'[n]) <= MaxSessions
    BY <1>0, <2>1, <2>2 DEF Typed, HeapTyped
  <2>4. /\ queue' \in [Opens -> Seq(Opens)] /\ \A n \in Opens : Len(queue'[n]) <= MaxQueue
    <3>1. ASSUME NEW n \in Opens PROVE Len(queue'[n]) <= MaxQueue
      <4>1. CASE n = e
        <5>1. queue'[n] = <<>>
          BY <2>1, <4>1
        <5> QED
          BY <1>0, <5>1
      <4>2. CASE n # e
        <5>1. queue'[n] = queue[n]
          BY <2>1, <4>2
        <5> QED
          BY <5>1 DEF Typed, HeapTyped
      <4> QED
        BY <4>1, <4>2
    <3> QED
      BY <1>0, <2>1, <2>2, <3>1
  <2>5. /\ blockSize' \in [Opens -> BlockSizes]
        /\ wanted' \in [Slots -> SUBSET (1..MaxFilterIds)] /\ agreed' \in [Slots -> BOOLEAN]
    BY <1>0, <2>1, <2>2
  <2> QED
    BY <2>3, <2>4, <2>5 DEF HeapTyped
<1>5. ASSUME NEW s \in Slots, ReadMsgs(s) PROVE HeapTyped'
  <2>1. PICK e \in Opens : queue' = [queue EXCEPT ![e] = Tail(queue[e])] /\ queue[e] # <<>>
    BY <1>1, <1>5 DEF ReadMsgs
  <2>2. UNCHANGED <<sessions, blockSize, wanted, agreed>>
    BY <1>5 DEF ReadMsgs
  <2>3. /\ Tail(queue[e]) \in Seq(Opens) /\ Len(Tail(queue[e])) = Len(queue[e]) - 1
        /\ Len(queue[e]) \in Nat /\ Len(queue[e]) <= MaxQueue
    BY <1>0, <2>1, TailOf DEF Typed, HeapTyped
  <2>4. queue' \in [Opens -> Seq(Opens)] /\ queue'[e] = Tail(queue[e])
        /\ \A n \in Opens : n # e => queue'[n] = queue[n]
    BY <1>0, <2>1, <2>3
  <2>5. ASSUME NEW n \in Opens PROVE Len(queue'[n]) <= MaxQueue
    <3>1. Len(queue[e]) - 1 <= MaxQueue
      BY <1>0, <2>3
    <3>2. CASE n = e
      <4>1. Len(queue'[n]) = Len(queue[e]) - 1
        BY <2>3, <2>4, <3>2, Zenon
      <4> QED
        BY <3>1, <4>1
    <3>3. CASE n # e
      BY <2>4, <3>3 DEF Typed, HeapTyped
    <3> QED
      BY <3>2, <3>3
  <2> QED
    BY <2>2, <2>4, <2>5 DEF Typed, HeapTyped
<1>6. ASSUME NEW n \in Opens, Feed(n) PROVE HeapTyped'
  <2>1. /\ thread[n] = "feed" /\ UNCHANGED <<sessions, blockSize, wanted, agreed>>
        /\ \/ queue' = queue
           \/ Len(queue[n]) < MaxQueue /\ queue' = [queue EXCEPT ![n] = Append(queue[n], from[n])]
    BY <1>6 DEF Feed
  <2>2. from[n] \in Opens
    BY <2>1 DEF Typed, ThreadsTyped
  <2>3. CASE queue' = queue
    BY <2>1, <2>3 DEF Typed, HeapTyped
  <2>4. CASE Len(queue[n]) < MaxQueue /\ queue' = [queue EXCEPT ![n] = Append(queue[n], from[n])]
    <3>1. /\ Append(queue[n], from[n]) \in Seq(Opens)
          /\ Len(Append(queue[n], from[n])) = Len(queue[n]) + 1 /\ Len(queue[n]) \in Nat
      BY <1>0, <2>2
    <3>2. /\ queue' \in [Opens -> Seq(Opens)] /\ queue'[n] = Append(queue[n], from[n])
          /\ \A i \in Opens : i # n => queue'[i] = queue[i]
      BY <1>0, <2>4, <3>1
    <3>3. \A i \in Opens : Len(queue'[i]) <= MaxQueue
      BY <1>0, <2>4, <3>1, <3>2 DEF Typed, HeapTyped
    <3> QED
      BY <2>1, <3>2, <3>3 DEF Typed, HeapTyped
  <2> QED
    BY <2>1, <2>3, <2>4
\* The sessions of an engine are numbers of filters, so they are finite.
<1>7. ASSUME NEW s \in Slots, NEW type \in FilterTypes, AddFilter(s, type) PROVE HeapTyped'
  <2>0. PICK id, e : id = ch[s].nextFilter /\ e = ch[s].engine
    OBVIOUS
  <2>1. /\ id <= MaxFilterIds /\ UNCHANGED <<blockSize, queue, agreed>>
        /\ sessions' = IF (type = "flow" /\ e # 0) /\ Cardinality(sessions[e]) < MaxSessions
                       THEN [sessions EXCEPT ![e] = @ \cup {id}] ELSE sessions
        /\ wanted' = IF type = "flow" /\ e # 0 THEN [wanted EXCEPT ![s] = @ \cup {id}] ELSE wanted
    BY <1>7, <2>0 DEF AddFilter
  <2>2. id \in 1..MaxFilterIds
    BY <1>0, <2>0, <2>1 DEF Typed, SlotsTyped, ChannelState
  <2>3. wanted' \in [Slots -> SUBSET (1..MaxFilterIds)]
    BY <1>0, <2>1, <2>2
  <2>4. CASE sessions' = sessions
    BY <2>1, <2>3, <2>4 DEF Typed, HeapTyped
  <2>5. CASE e # 0 /\ Cardinality(sessions[e]) < MaxSessions
             /\ sessions' = [sessions EXCEPT ![e] = sessions[e] \cup {id}]
    <3>1. e \in Opens
      BY <1>1, <2>0, <2>5
    <3>2. /\ sessions' \in [Opens -> SUBSET (1..MaxFilterIds)]
          /\ sessions'[e] = sessions[e] \cup {id}
          /\ \A n \in Opens : n # e => sessions'[n] = sessions[n]
      BY <1>0, <2>2, <2>5, <3>1
    <3>3. Cardinality(sessions'[e]) <= MaxSessions
      <4>1. sessions[e] \subseteq 1..MaxFilterIds /\ sessions'[e] \subseteq 1..MaxFilterIds
        BY <1>0, <3>1, <3>2
      <4>2. /\ Cardinality(sessions[e]) \in Nat /\ Cardinality(sessions'[e]) \in Nat
            /\ Cardinality(sessions[e] \cup {id}) <= Cardinality(sessions[e]) + 1
        BY <1>0, <4>1, FewerDevices
      <4> QED
        BY <1>0, <2>5, <3>2, <4>2
    <3>4. \A n \in Opens : Cardinality(sessions'[n]) <= MaxSessions
      BY <3>2, <3>3 DEF Typed, HeapTyped
    <3> QED
      BY <2>1, <2>3, <3>2, <3>4 DEF Typed, HeapTyped
  <2> QED
    BY <2>1, <2>4, <2>5
<1>8. ASSUME NEW s \in Slots, NEW id \in 1..MaxFilterIds, RemoveFilter(s, id) PROVE HeapTyped'
  <2>0. PICK e : e = ch[s].engine
    OBVIOUS
  <2>1. /\ UNCHANGED <<blockSize, queue, agreed>>
        /\ wanted' = [wanted EXCEPT ![s] = @ \ {id}]
        /\ sessions' = IF e = 0 THEN sessions ELSE [sessions EXCEPT ![e] = @ \ Dropped(s, id)]
    BY <1>8, <2>0 DEF RemoveFilter
  <2>2. wanted' \in [Slots -> SUBSET (1..MaxFilterIds)]
    BY <1>0, <2>1
  <2>3. ASSUME NEW n \in Opens PROVE sessions'[n] \subseteq sessions[n]
    BY <1>0, <2>1
  <2>4. sessions' \in [Opens -> SUBSET (1..MaxFilterIds)]
    BY <1>0, <2>1
  <2>5. ASSUME NEW n \in Opens PROVE Cardinality(sessions'[n]) <= MaxSessions
    <3>1. sessions[n] \subseteq 1..MaxFilterIds /\ sessions'[n] \subseteq 1..MaxFilterIds
      BY <1>0, <2>4
    <3>2. /\ Cardinality(sessions[n]) \in Nat /\ Cardinality(sessions'[n]) \in Nat
          /\ Cardinality(sessions'[n]) <= Cardinality(sessions[n])
      BY <1>0, <2>3, <3>1, FewerDevices
    <3> QED
      BY <1>0, <3>2 DEF Typed, HeapTyped
  <2> QED
    BY <2>1, <2>2, <2>4, <2>5 DEF Typed, HeapTyped
<1>9. ASSUME NEW s \in Slots, ClearMsgFilters(s) PROVE HeapTyped'
  BY <1>0, <1>9 DEF ClearMsgFilters, Typed, HeapTyped
<1>10. ASSUME NEW s \in Slots, StartPeriodic(s) \/ StopPeriodic(s) \/ ClearPeriodic(s)
       PROVE  HeapTyped'
  BY <1>2, <1>10 DEF StartPeriodic, StopPeriodic, ClearPeriodic, Periodic
<1>11. ASSUME NEW s \in Slots, NEW bs \in BlockSizes, NEW ok \in BOOLEAN, SetConfig(s, bs, ok)
       PROVE  HeapTyped'
  BY <1>0, <1>11 DEF SetConfig, Typed, HeapTyped
<1> QED
  BY <1>2, <1>3, <1>4, <1>5, <1>6, <1>7, <1>8, <1>9, <1>10, <1>11
  DEF Next, Client, OpenDevice, OpenChannelFails, OpenChannel, CloseChannel, StartReceiver,
      Receiver, CheckStop, ReadWait

LEMMA TypedInit == Init => Typed
<1> SUFFICES ASSUME Init PROVE Typed
  OBVIOUS
<1>1. HandlesInv
  BY HandlesInit
<1>2. MaxDevices \in Nat /\ MaxSessions \in Nat /\ MaxOpens \in Nat /\ MaxQueue \in Nat
  BY KvaserHandlesAssumption
<1>3. DevicesTyped
  BY <1>2, FS_EmptySet DEF Init, DevicesTyped
<1>4. SlotsTyped
  <2>1. \A s \in Slots : ch[s].nextFilter = 1 /\ ch[s].handle = 0 /\ ch[s].engine = 0
                         /\ ch[s].event = 0
    BY DEF Init, Released, Fresh
  <2>2. opened = 0 /\ handles = {} /\ engines = {} /\ signalled = {} /\ 0 \in 0..0
    BY DEF Init
  <2>3. ch \in [Slots -> ChannelState] /\ opened \in 0..MaxOpens
    BY <1>1 DEF HandlesInv, Shaped
  <2> QED
    BY <2>1, <2>2, <2>3 DEF SlotsTyped
<1>5. ThreadsTyped
  BY <1>1 DEF HandlesInv, Shaped, ThreadsTyped, Init, Idle
<1>6. HeapTyped
  BY <1>1, <1>2, FS_EmptySet DEF HandlesInv, Shaped, HeapTyped, Init, BlockSizes
<1> QED
  BY <1>3, <1>4, <1>5, <1>6 DEF Typed

LEMMA TypedStep == Typed /\ [Next]_vars => Typed'
<1> SUFFICES ASSUME Typed, [Next]_vars PROVE Typed'
  OBVIOUS
<1>1. CASE Next
  BY <1>1, DevicesTypedStep, SlotsTypedStep, ThreadsTypedStep, HeapTypedStep DEF Typed
<1>2. CASE UNCHANGED vars
  BY <1>2
  DEF vars, Typed, DevicesTyped, SlotsTyped, ThreadsTyped, HeapTyped, slots, heap, threads, Idle
<1> QED
  BY <1>1, <1>2

(* Type correctness for every client, with the sizes of the tables: open   *)
(* devices, an engine's sessions and its queued messages are bounded       *)
(* (HandleManager.cpp 87-341, IsoTpEngine.cpp 58-77).                      *)
THEOREM Types == Spec => []TypeOK
<1>1. Typed /\ [Next]_vars => Typed'
  BY TypedStep
<1>2. Typed => TypeOK
  BY DEF Typed, DevicesTyped, SlotsTyped, ThreadsTyped, HeapTyped, TypeOK
<1> QED
  BY <1>1, <1>2, TypedInit, PTL DEF Spec

-----------------------------------------------------------------------------
(* An engine and the slot it belongs to                                    *)

\* What a new engine finds in its number and in its slot.
Blank(s) ==
  wanted[s] = {} /\ agreed[s] /\ ch[s].bs = 0 /\ ch[s].filters = NoFilters

Following(s) ==
  /\ ~ch[s].active \/ (ch[s].iso /\ ch[s].engine = 0) => Blank(s)
  /\ ch[s].engine # 0 /\ agreed[s] => blockSize[ch[s].engine] = ch[s].bs
  /\ Careful /\ ch[s].engine # 0 =>
       /\ sessions[ch[s].engine] = wanted[s]
       /\ \A i \in 1..MaxFilters : ch[s].filters[i] # "pass"

Unused == \A n \in Opens : n \notin engines => sessions[n] = {} /\ blockSize[n] = 0

FollowInv == HandlesInv /\ Typed /\ Unused /\ \A s \in Slots : Following(s)

\* A slot that an operation on another slot or engine leaves alone.
LEMMA FollowsOn ==
  ASSUME NEW s \in Slots, Following(s),
         UNCHANGED <<ch[s], wanted[s], agreed[s]>>,
         ch[s].engine # 0 =>
           UNCHANGED <<sessions[ch[s].engine], blockSize[ch[s].engine]>>
  PROVE  Following(s)'
BY DEF Following, Blank

LEMMA BlankFollows ==
  ASSUME NEW s \in Slots, Blank(s)', ch'[s].engine = 0
  PROVE  Following(s)'
BY DEF Following

LEMMA EnginesApart ==
  ASSUME HandlesInv, NEW s \in Slots, NEW t \in Slots, s # t, ch[s].engine # 0
  PROVE  ch[s].engine # ch[t].engine
BY DEF HandlesInv, Attached, Apart

\* A channel in use has its engine if it is to have one.
LEMMA InUse ==
  ASSUME HandlesInv, NEW s \in Slots, Usable(s)
  PROVE  ch[s].active /\ (ch[s].iso => ch[s].engine # 0) /\ (ch[s].engine # 0 => ch[s].iso)
BY DEF HandlesInv, Attached, Usable, Idle

\* A configuration call on a channel in use: its own slot is the only one to check.
LEMMA ConfiguredOnly ==
  ASSUME FollowInv, NEW s \in Slots, Usable(s), NEW c \in ChannelState,
         ch' = [ch EXCEPT ![s] = c], Skeleton(c) = Skeleton(ch[s]), engines' = engines,
         \A t \in Slots : t # s => wanted'[t] = wanted[t] /\ agreed'[t] = agreed[t],
         \A n \in Opens : n # ch[s].engine => sessions'[n] = sessions[n] /\ blockSize'[n] = blockSize[n],
         ch[s].engine # 0 /\ agreed'[s] => blockSize'[ch[s].engine] = c.bs,
         Careful /\ ch[s].engine # 0 =>
           /\ sessions'[ch[s].engine] = wanted'[s]
           /\ \A i \in 1..MaxFilters : c.filters[i] # "pass"
  PROVE  Unused' /\ \A t \in Slots : Following(t)'
<1>1. /\ ch'[s] = c /\ c.active = ch[s].active /\ c.iso = ch[s].iso /\ c.engine = ch[s].engine
      /\ \A t \in Slots : t # s => ch'[t] = ch[t]
  BY DEF FollowInv, Typed, SlotsTyped, Skeleton
<1>2. Following(s)'
  BY <1>1, InUse DEF FollowInv, Following
<1>3. ASSUME NEW t \in Slots, t # s PROVE Following(t)'
  <2>1. ch[t].engine # 0 => ch[t].engine \in Opens /\ ch[t].engine # ch[s].engine
    BY <1>3, EngineNumber, EnginesApart DEF FollowInv
  <2> QED
    BY <1>1, <1>3, <2>1, FollowsOn DEF FollowInv
<1>4. Unused'
  <2>1. ch[s].engine # 0 => ch[s].engine \in engines
    BY DEF FollowInv, HandlesInv, Attached
  <2>2. \A n \in Opens : n \notin engines => n # ch[s].engine
    BY <2>1 DEF Opens
  <2> QED
    BY <2>2 DEF FollowInv, Unused
<1> QED
  BY <1>2, <1>3, <1>4

LEMMA ConfiguresFollow ==
  ASSUME FollowInv, NEW s \in Slots, Configures(s)
  PROVE  Unused' /\ \A t \in Slots : Following(t)'
<1> USE DEF heap, threads
<1>0. /\ ch \in [Slots -> ChannelState] /\ ch[s] \in ChannelState
      /\ sessions \in [Opens -> SUBSET (1..MaxFilterIds)] /\ blockSize \in [Opens -> BlockSizes]
      /\ wanted \in [Slots -> SUBSET (1..MaxFilterIds)] /\ agreed \in [Slots -> BOOLEAN]
      /\ ch[s].engine # 0 => ch[s].engine \in Opens
      /\ Following(s)
  BY EngineNumber DEF FollowInv, Typed, SlotsTyped, HeapTyped
<1>1. PICK c \in ChannelState : ch' = [ch EXCEPT ![s] = c] /\ Skeleton(c) = Skeleton(ch[s])
  BY <1>0, SlotEdited
<1>2. UNCHANGED <<engines, call>> /\ ch'[s] = c
  BY <1>0, <1>1, SlotEdited
<1>3. Usable(s)
  BY DEF Configures, ClearMsgFilters, StartPeriodic, StopPeriodic, ClearPeriodic, Periodic,
         MayConfigure, AddFilter, RemoveFilter, SetConfig
<1>4. ch[s].active /\ (ch[s].iso => ch[s].engine # 0) /\ (ch[s].engine # 0 => ch[s].iso)
  BY <1>3, InUse DEF FollowInv
<1>5. CASE ClearMsgFilters(s)
  <2>1. /\ c.bs = ch[s].bs /\ wanted' = [wanted EXCEPT ![s] = {}]
        /\ UNCHANGED <<sessions, blockSize, agreed>> /\ (Careful => ~ch[s].iso)
    BY <1>0, <1>2, <1>5 DEF ClearMsgFilters, ChannelState
  <2> QED
    BY <1>0, <1>1, <1>2, <1>3, <1>4, <2>1, ConfiguredOnly DEF Following
<1>6. CASE StartPeriodic(s) \/ StopPeriodic(s) \/ ClearPeriodic(s)
  <2>1. PICK set : Periodic(s, set)
    BY <1>6 DEF StartPeriodic, StopPeriodic, ClearPeriodic
  <2>2. /\ c.bs = ch[s].bs /\ c.filters = ch[s].filters
        /\ UNCHANGED <<sessions, blockSize, wanted, agreed>>
    BY <1>0, <1>2, <2>1 DEF Periodic, ChannelState
  <2> QED
    BY <1>0, <1>1, <1>2, <1>3, <1>4, <2>2, ConfiguredOnly DEF Following
<1>7. ASSUME NEW bs \in BlockSizes, NEW ok \in BOOLEAN, SetConfig(s, bs, ok)
      PROVE  Unused' /\ \A t \in Slots : Following(t)'
  <2>0. PICK e : e = ch[s].engine
    OBVIOUS
  <2>1. /\ c.bs = bs /\ c.filters = ch[s].filters /\ agreed' = [agreed EXCEPT ![s] = ok]
        /\ blockSize' = IF ok /\ e # 0 THEN [blockSize EXCEPT ![e] = bs] ELSE blockSize
        /\ UNCHANGED <<sessions, wanted>>
    BY <1>0, <1>2, <1>7, <2>0 DEF SetConfig, ChannelState
  <2>2. e # 0 /\ agreed'[s] => blockSize'[e] = c.bs
    BY <1>0, <2>0, <2>1
  <2>3. \A n \in Opens : n # e => blockSize'[n] = blockSize[n]
    BY <1>0, <2>1
  <2>4. \A t \in Slots : t # s => wanted'[t] = wanted[t] /\ agreed'[t] = agreed[t]
    BY <1>0, <2>1
  <2>5. Careful /\ e # 0 =>
          sessions'[e] = wanted'[s] /\ \A i \in 1..MaxFilters : c.filters[i] # "pass"
    BY <1>0, <2>0, <2>1 DEF Following
  <2>6. \A n \in Opens : n # e => sessions'[n] = sessions[n] /\ blockSize'[n] = blockSize[n]
    BY <2>1, <2>3
  <2> QED
    BY <1>1, <1>2, <1>3, <2>0, <2>2, <2>4, <2>5, <2>6, ConfiguredOnly
<1>8. ASSUME NEW type \in FilterTypes, AddFilter(s, type)
      PROVE  Unused' /\ \A t \in Slots : Following(t)'
  <2>0. PICK e, id, i, f : /\ e = ch[s].engine /\ id = ch[s].nextFilter /\ i = Lowest(FreeFilters(s))
                           /\ f = [ch[s].filters EXCEPT ![i] = type]
    OBVIOUS
  <2>1. /\ ch' = [ch EXCEPT ![s].filters[i] = type, ![s].nextFilter = id + 1]
        /\ sessions' = IF (type = "flow" /\ e # 0) /\ Cardinality(sessions[e]) < MaxSessions
                       THEN [sessions EXCEPT ![e] = sessions[e] \cup {id}] ELSE sessions
        /\ wanted' = IF type = "flow" /\ e # 0 THEN [wanted EXCEPT ![s] = wanted[s] \cup {id}] ELSE wanted
        /\ UNCHANGED <<blockSize, agreed>>
        /\ Careful /\ ch[s].iso => type = "flow" /\ Cardinality(wanted[s]) < MaxSessions
    BY <1>8, <2>0 DEF AddFilter, MayStart
  <2>2. c = [ch[s] EXCEPT !.filters = f, !.nextFilter = id + 1]
    BY <1>0, <1>2, <2>0, <2>1 DEF ChannelState
  <2>3. c.bs = ch[s].bs /\ c.filters = f
    BY <1>0, <2>2 DEF ChannelState
  <2>4. ASSUME Careful, e # 0
        PROVE  sessions'[e] = wanted'[s] /\ \A k \in 1..MaxFilters : f[k] # "pass"
    <3>1. /\ type = "flow" /\ Cardinality(wanted[s]) < MaxSessions /\ sessions[e] = wanted[s]
          /\ \A k \in 1..MaxFilters : ch[s].filters[k] # "pass"
      BY <1>0, <1>4, <2>0, <2>1, <2>4 DEF Following
    <3>2. /\ sessions' = [sessions EXCEPT ![e] = sessions[e] \cup {id}]
          /\ wanted' = [wanted EXCEPT ![s] = wanted[s] \cup {id}]
      BY <2>1, <2>4, <3>1
    <3>3. \A k \in 1..MaxFilters : f[k] # "pass"
      BY <1>0, <2>0, <3>1 DEF ChannelState
    <3> QED
      BY <1>0, <2>0, <2>4, <3>1, <3>2, <3>3
  <2>5. \A n \in Opens : n # e => sessions'[n] = sessions[n]
    BY <1>0, <2>1
  <2>6. \A t \in Slots : t # s => wanted'[t] = wanted[t] /\ agreed'[t] = agreed[t]
    BY <1>0, <2>1
  <2>7. e # 0 /\ agreed'[s] => blockSize'[e] = c.bs
    BY <1>0, <2>0, <2>1, <2>3 DEF Following
  <2>8. \A n \in Opens : n # e => sessions'[n] = sessions[n] /\ blockSize'[n] = blockSize[n]
    BY <2>1, <2>5
  <2>9. Careful /\ e # 0 =>
          sessions'[e] = wanted'[s] /\ \A k \in 1..MaxFilters : c.filters[k] # "pass"
    BY <2>3, <2>4
  <2> QED
    BY <1>1, <1>2, <1>3, <2>0, <2>6, <2>7, <2>8, <2>9, ConfiguredOnly
<1>9. ASSUME NEW id \in 1..MaxFilterIds, RemoveFilter(s, id)
      PROVE  Unused' /\ \A t \in Slots : Following(t)'
  <2>0. PICK e, i, f : /\ e = ch[s].engine /\ i = Lowest(UsedFilters(s))
                       /\ f = [ch[s].filters EXCEPT ![i] = "free"]
    OBVIOUS
  <2>1. /\ ch' = [ch EXCEPT ![s].filters[i] = "free"] /\ UsedFilters(s) # {}
        /\ sessions' = IF e = 0 THEN sessions ELSE [sessions EXCEPT ![e] = @ \ Dropped(s, id)]
        /\ wanted' = [wanted EXCEPT ![s] = wanted[s] \ {id}]
        /\ UNCHANGED <<blockSize, agreed>>
    BY <1>9, <2>0 DEF RemoveFilter
  <2>2. c = [ch[s] EXCEPT !.filters = f]
    BY <1>0, <1>2, <2>0, <2>1 DEF ChannelState
  <2>3. c.bs = ch[s].bs /\ c.filters = f
    BY <1>0, <2>2 DEF ChannelState
  <2>4. ASSUME Careful, e # 0
        PROVE  sessions'[e] = wanted'[s] /\ \A k \in 1..MaxFilters : f[k] # "pass"
    <3>1. sessions[e] = wanted[s] /\ \A k \in 1..MaxFilters : ch[s].filters[k] # "pass"
      BY <1>0, <2>0, <2>4 DEF Following
    <3>2. i \in 1..MaxFilters /\ ch[s].filters[i] # "free"
      BY <2>0, <2>1, LowestIn, KvaserHandlesAssumption DEF UsedFilters, FreeFilters
    <3>3. Dropped(s, id) = {id}
      BY <1>0, <2>0, <2>4, <3>1, <3>2 DEF Dropped, FlowFirst, FilterTypes, ChannelState
    <3>4. \A k \in 1..MaxFilters : f[k] # "pass"
      BY <1>0, <2>0, <3>1 DEF ChannelState
    <3> QED
      BY <1>0, <2>0, <2>1, <2>4, <3>1, <3>3, <3>4
  <2>5. \A n \in Opens : n # e => sessions'[n] = sessions[n]
    BY <1>0, <2>1
  <2>6. \A t \in Slots : t # s => wanted'[t] = wanted[t] /\ agreed'[t] = agreed[t]
    BY <1>0, <2>1
  <2>7. e # 0 /\ agreed'[s] => blockSize'[e] = c.bs
    BY <1>0, <2>0, <2>1, <2>3 DEF Following
  <2>8. \A n \in Opens : n # e => sessions'[n] = sessions[n] /\ blockSize'[n] = blockSize[n]
    BY <2>1, <2>5
  <2>9. Careful /\ e # 0 =>
          sessions'[e] = wanted'[s] /\ \A k \in 1..MaxFilters : c.filters[k] # "pass"
    BY <2>3, <2>4
  <2> QED
    BY <1>1, <1>2, <1>3, <2>0, <2>6, <2>7, <2>8, <2>9, ConfiguredOnly
<1> QED
  BY <1>5, <1>6, <1>7, <1>8, <1>9 DEF Configures

LEMMA FollowStep == ~Orphaning /\ FollowInv /\ [Next]_vars => FollowInv'
<1> SUFFICES ASSUME ~Orphaning, FollowInv, [Next]_vars PROVE FollowInv'
  OBVIOUS
<1> USE DEF slots, heap, threads
<1>0. HandlesInv' /\ Typed'
  BY HandlesStep, TypedStep DEF FollowInv
<1>1. /\ ch \in [Slots -> ChannelState] /\ wanted \in [Slots -> SUBSET (1..MaxFilterIds)]
      /\ agreed \in [Slots -> BOOLEAN] /\ \A s \in Slots : Following(s)
      /\ \A s \in Slots : ch[s].engine # 0 => ch[s].engine \in Opens
  BY EngineNumber DEF FollowInv, Typed, SlotsTyped, HeapTyped
<1>2. CASE UNCHANGED <<ch, engines, sessions, blockSize, wanted, agreed>>
  <2>1. Unused'
    BY <1>2 DEF FollowInv, Unused
  <2>2. \A s \in Slots : Following(s)'
    BY <1>1, <1>2 DEF Following, Blank
  <2> QED
    BY <1>0, <2>1, <2>2 DEF FollowInv
<1>3. ASSUME NEW d \in devices, CloseDevice(d) PROVE FollowInv'
  <2>1. /\ \A s \in Children(d) : ~ch[s].iso
        /\ ch' = [s \in Slots |-> IF s \in Children(d) THEN Released(ch[s]) ELSE ch[s]]
        /\ wanted' = [s \in Slots |-> IF s \in Children(d) THEN {} ELSE wanted[s]]
        /\ agreed' = [s \in Slots |-> s \in Children(d) \/ agreed[s]]
        /\ UNCHANGED <<engines, sessions, blockSize>>
    BY <1>3 DEF CloseDevice
  <2>2. ASSUME NEW s \in Slots, s \in Children(d) PROVE Following(s)'
    BY <2>1, <2>2, BlankFollows DEF Blank, Released, Fresh
  <2>3. ASSUME NEW s \in Slots, s \notin Children(d) PROVE Following(s)'
    BY <1>1, <2>1, <2>3, FollowsOn
  <2>4. Unused'
    BY <2>1 DEF FollowInv, Unused
  <2> QED
    BY <1>0, <2>2, <2>3, <2>4 DEF FollowInv
<1>4. ASSUME NEW d \in devices, NEW iso \in BOOLEAN, OpenChannel(d, iso) PROVE FollowInv'
  <2>0. PICK s, n : s = Lowest(Free) /\ n = opened + 1
    OBVIOUS
  <2>1. /\ Free # {} /\ ch' = [ch EXCEPT ![s] = Fresh(d, iso, n)]
        /\ UNCHANGED <<engines, sessions, blockSize, wanted, agreed>>
    BY <1>4, <2>0 DEF OpenChannel
  <2>2. s \in Slots /\ ~ch[s].active
    BY <2>0, <2>1, LowestIn, KvaserHandlesAssumption DEF Free
  <2>3. ch'[s] = Fresh(d, iso, n) /\ \A t \in Slots : t # s => ch'[t] = ch[t]
    BY <1>1, <2>1, <2>2
  <2>4. Following(s)'
    <3>1. wanted[s] = {} /\ agreed[s]
      BY <1>1, <2>2 DEF Following, Blank
    <3> QED
      BY <2>1, <2>2, <2>3, <3>1, BlankFollows DEF Blank, Fresh
  <2>5. ASSUME NEW t \in Slots, t # s PROVE Following(t)'
    BY <1>1, <2>1, <2>3, <2>5, FollowsOn
  <2>6. Unused'
    BY <2>1 DEF FollowInv, Unused
  <2> QED
    BY <1>0, <2>4, <2>5, <2>6 DEF FollowInv
<1>5. CASE StartReceiver
  <2>0. PICK s, n : s = call.slot /\ n = opened
    OBVIOUS
  <2>1. /\ call.op = "start" /\ engines' = engines \cup {n}
        /\ ch' = [ch EXCEPT ![s].engine = n, ![s].event = n]
        /\ UNCHANGED <<sessions, blockSize, wanted, agreed>>
    BY <1>5, <2>0 DEF StartReceiver
  <2>2. /\ s \in Slots /\ n \in Opens /\ ch[s].active /\ ch[s].iso /\ ch[s].engine = 0
        /\ ch[s].handle = n
    BY <2>0, <2>1 DEF FollowInv, HandlesInv, Shaped, Starting, Typed, ThreadsTyped, Idle
  <2>3. n \notin engines
    <3>1. ASSUME n \in engines PROVE FALSE
      <4>1. PICK t \in Slots : ch[t].engine = n
        BY <3>1 DEF FollowInv, HandlesInv, Held
      <4>2. ch[t].active /\ ch[t].handle = n
        BY <2>2, <4>1 DEF FollowInv, HandlesInv, Attached, Opens
      <4> QED
        BY <2>2, <4>1, <4>2 DEF FollowInv, HandlesInv, Apart, Opens
    <3> QED
      BY <3>1
  <2>4. sessions[n] = {} /\ blockSize[n] = 0
    BY <2>2, <2>3 DEF FollowInv, Unused
  <2>5. /\ ch'[s].active /\ ch'[s].engine = n /\ ch'[s].bs = ch[s].bs
        /\ ch'[s].filters = ch[s].filters /\ \A t \in Slots : t # s => ch'[t] = ch[t]
    BY <1>1, <2>1, <2>2 DEF ChannelState
  <2>6. Following(s)'
    <3>1. Blank(s) /\ n # 0
      BY <1>1, <2>2 DEF Following, Opens
    <3> QED
      BY <2>1, <2>4, <2>5, <3>1 DEF Blank, Following, NoFilters
  <2>7. ASSUME NEW t \in Slots, t # s PROVE Following(t)'
    BY <1>1, <2>1, <2>5, <2>7, FollowsOn
  <2>8. Unused'
    BY <2>1 DEF FollowInv, Unused
  <2> QED
    BY <1>0, <2>6, <2>7, <2>8 DEF FollowInv
<1>6. CASE JoinEnds
  <2>0. PICK s, e : s = call.slot /\ e = ch[s].engine
    OBVIOUS
  <2>1. /\ call.op = "join" /\ engines' = engines \ {e}
        /\ sessions' = [n \in Opens |-> IF n = e THEN {} ELSE sessions[n]]
        /\ blockSize' = [n \in Opens |-> IF n = e THEN 0 ELSE blockSize[n]]
        /\ ch' = [ch EXCEPT ![s] = [Released(ch[s]) EXCEPT !.event = 0]]
        /\ wanted' = [wanted EXCEPT ![s] = {}] /\ agreed' = [agreed EXCEPT ![s] = TRUE]
    BY <1>6, <2>0 DEF JoinEnds
  <2>2. s \in Slots
    BY <2>0, <2>1 DEF FollowInv, HandlesInv, Shaped, Idle
  <2>3. /\ ch'[s] = [Released(ch[s]) EXCEPT !.event = 0]
        /\ \A t \in Slots : t # s => ch'[t] = ch[t] /\ wanted'[t] = wanted[t] /\ agreed'[t] = agreed[t]
        /\ wanted'[s] = {} /\ agreed'[s]
    BY <1>1, <2>1, <2>2
  <2>4. ch'[s].bs = 0 /\ ch'[s].filters = NoFilters /\ ch'[s].engine = 0
    BY <2>3 DEF Released, Fresh
  <2>5. Following(s)'
    BY <2>2, <2>3, <2>4, BlankFollows DEF Blank
  <2>6. ASSUME NEW t \in Slots, t # s PROVE Following(t)'
    <3>1. ch[t].engine # 0 => ch[t].engine # e /\ ch[t].engine \in Opens
      BY <1>1, <2>0, <2>2, <2>6, EnginesApart DEF FollowInv
    <3> QED
      BY <1>1, <2>1, <2>3, <2>6, <3>1, FollowsOn
  <2>7. Unused'
    BY <2>1 DEF FollowInv, Unused
  <2> QED
    BY <1>0, <2>5, <2>6, <2>7 DEF FollowInv
<1>7. ASSUME NEW s \in Slots, Configures(s) PROVE FollowInv'
  BY <1>0, <1>7, ConfiguresFollow DEF FollowInv
<1> QED
  BY <1>2, <1>3, <1>4, <1>5, <1>6, <1>7
  DEF Next, Client, vars, Configures, OpenDevice, OpenChannelFails, CloseChannel, ReadMsgs,
      Receiver, CheckStop, ReadWait, Feed

LEMMA FollowAlways == ~Orphaning => (Spec => []FollowInv)
<1> SUFFICES ASSUME ~Orphaning PROVE Spec => []FollowInv
  OBVIOUS
<1>1. Init => FollowInv
  <2> SUFFICES ASSUME Init PROVE FollowInv
    OBVIOUS
  <2>1. Unused
    BY DEF Init, Unused
  <2>2. ASSUME NEW s \in Slots PROVE Following(s)
    BY DEF Init, Following, Blank, Released, Fresh
  <2> QED
    BY <2>1, <2>2, HandlesInit, TypedInit DEF FollowInv
<1>2. FollowInv /\ [Next]_vars => FollowInv'
  BY FollowStep
<1> QED
  BY <1>1, <1>2, PTL DEF Spec

(* For clients that close ISO 15765 channels before their device, keep to   *)
(* flow control filters on them, at most as many as an engine has sessions, *)
(* and never clear them: the engine has a session for each filter the       *)
(* client wants, although removeFilter() takes the first filter and the     *)
(* session of the id, and works with the parameters of its slot unless the  *)
(* last SET_CONFIG was refused (HandleManager.cpp 351-438, J2534Api.cpp).   *)
THEOREM Obeys == ~Orphaning /\ Careful => (Spec => []EngineFollows)
<1> SUFFICES ASSUME ~Orphaning, Careful PROVE Spec => []EngineFollows
  OBVIOUS
<1>1. FollowInv => EngineFollows
  BY InUse DEF FollowInv, Following, EngineFollows, SessionsFollow, ConfigFollows
<1> QED
  BY <1>1, FollowAlways, PTL

(* The parameters follow without that care.                                *)
THEOREM ParametersFollow == ~Orphaning => (Spec => []ConfigFollows)
<1> SUFFICES ASSUME ~Orphaning PROVE Spec => []ConfigFollows
  OBVIOUS
<1>1. FollowInv => ConfigFollows
  BY InUse DEF FollowInv, Following, ConfigFollows
<1> QED
  BY <1>1, FollowAlways, PTL
=============================================================================
