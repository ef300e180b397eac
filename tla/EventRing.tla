------------------------------- MODULE EventRing -------------------------------
(***************************************************************************)
(* EventRingBuffer of PassThruLogger: a ring of the last Capacity events   *)
(* and a copy of the newest for comparison.  push() and read() hold        *)
(* m_lock, so that each is one step.  read() has no caller in the DLL yet; *)
(* its reader is modelled from its declaration.                            *)
(***************************************************************************)
EXTENDS Integers, Sequences

CONSTANTS
  Capacity, \* m_capacity, EventBufferSize in the registry
  Events,   \* funcId and parameters
  Codes,    \* return codes
  MaxIndex, \* bound: m_head stays below 2^32
  MaxRead   \* the most entries a reader asks for

ASSUME EventRingAssumption ==
  /\ Capacity \in Nat \ {0} /\ MaxIndex \in Nat /\ MaxRead \in Nat
  /\ Events # {} /\ Codes # {}

VARIABLES
  ring,      \* m_buffer
  head,      \* m_head
  stored,    \* m_count
  hasLast,   \* m_hasLast
  lastEvent, \* m_lastEvent: what isDuplicate() compares
  next, got, \* outNextIndex and outBuf of the last read()
  hist       \* every entry ever written: what the ring forgets

ringVars == <<ring, head, stored, hasLast, lastEvent, next, got, hist>>

Larger(a, b) == IF a > b THEN a ELSE b
Smaller(a, b) == IF a < b THEN a ELSE b

Entry == [event : Events, code : Codes, count : Nat]
New(e, c) == [event |-> e, code |-> c, count |-> 1]
Again(r) == [event |-> r.event, code |-> r.code, count |-> r.count + 1]

\* memset(): entries nobody reads.
NoEvent == CHOOSE e \in Events : TRUE
NoEntry == [event |-> NoEvent, code |-> CHOOSE c \in Codes : TRUE, count |-> 0]

RingInit ==
  /\ ring = [i \in 0..(Capacity - 1) |-> NoEntry] /\ lastEvent = NoEvent
  /\ head = 0 /\ stored = 0 /\ hasLast = FALSE
  /\ next = 0 /\ got = <<>> /\ hist = <<>>

IsDuplicate(e) == hasLast /\ lastEvent = e

\* The entry that repeats.
LastIndex == (IF head = 0 THEN Capacity - 1 ELSE head - 1) % Capacity
HeadIndex == head % Capacity

PushAgain ==
  /\ ring' = [ring EXCEPT ![LastIndex] = Again(ring[LastIndex])]
  /\ hist' = [hist EXCEPT ![Len(hist)] = Again(hist[Len(hist)])]
  /\ UNCHANGED <<head, stored, hasLast, lastEvent, next, got>>

PushNew(e, c) ==
  /\ head < MaxIndex
  /\ ring' = [ring EXCEPT ![HeadIndex] = New(e, c)]
  /\ hist' = Append(hist, New(e, c))
  /\ head' = head + 1
  /\ stored' = IF stored < Capacity THEN stored + 1 ELSE stored
  /\ hasLast' = TRUE /\ lastEvent' = e
  /\ UNCHANGED <<next, got>>

Push(e, c) == IF IsDuplicate(e) THEN PushAgain ELSE PushNew(e, c)

MOldest == IF head > Capacity THEN head - Capacity - 1 ELSE 0
Oldest == IF head > Capacity THEN head - Capacity ELSE 0
First(start) == Larger(start, Oldest)
Copied(start, max) == Larger(0, Smaller(max, head - First(start)))

Read(start, max) ==
  /\ got' = [i \in 1..Copied(start, max) |-> ring[(First(start) + i - 1) % Capacity]]
  /\ next' = First(start) + Copied(start, max)
  /\ UNCHANGED <<ring, head, stored, hasLast, lastEvent, hist>>

RingNext ==
  \/ \E e \in Events, c \in Codes : Push(e, c)
  \/ \E start \in 0..MaxIndex, max \in 0..MaxRead : Read(start, max)

RingSpec == RingInit /\ [][RingNext]_ringVars

-----------------------------------------------------------------------------
RingTypeOK ==
  /\ ring \in [0..(Capacity - 1) -> Entry]
  /\ head \in Nat /\ stored \in Nat /\ hasLast \in BOOLEAN /\ lastEvent \in Events
  /\ hist \in Seq(Entry) /\ next \in Nat

(* The ring holds the newest entries of the history at their places, the   *)
(* copy for comparison is of the newest, and count() is what is readable.  *)
(* The inductive invariant of the refinement.                              *)
RingMatches ==
  /\ Len(hist) = head
  /\ stored = Smaller(head, Capacity)
  /\ hasLast <=> head > 0
  /\ hasLast => lastEvent = hist[head].event
  /\ \A i \in Nat : i < head /\ head - Capacity <= i => ring[i % Capacity] = hist[i + 1]

Log == INSTANCE EventLog WITH Keep <- Capacity, log <- hist

(* The ring with its wrapping index, its copy of the newest entry and its  *)
(* clamped reads is the abstract log: repetitions are counted in the right *)
(* entry and a reader gets exactly the entries that follow its index.      *)
RingImplementsLog == Log!Spec
=============================================================================
