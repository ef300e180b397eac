------------------------------- MODULE EventLog -------------------------------
(***************************************************************************)
(* What the logger's event buffer promises (the comments of               *)
(* EventRingBuffer.h): a log of calls in which a call that repeats the     *)
(* last one only raises its count, and readers that get, from the index    *)
(* they name or the oldest entry still kept, the next entries in order.    *)
(***************************************************************************)
EXTENDS Integers, Sequences

CONSTANTS
  Keep,     \* entries a reader can still get
  Events,   \* a call and the parameters that are compared
  Codes,    \* return codes
  MaxIndex, \* the largest index
  MaxRead   \* the most entries a reader asks for

VARIABLES
  log,   \* every entry ever written
  next,  \* index after the last entry read
  got    \* the entries of the last read

vars == <<log, next, got>>

Larger(a, b) == IF a > b THEN a ELSE b
Smaller(a, b) == IF a < b THEN a ELSE b

New(e, c) == [event |-> e, code |-> c, count |-> 1]
Again(r) == [event |-> r.event, code |-> r.code, count |-> r.count + 1]

Init == log = <<>> /\ next = 0 /\ got = <<>>

Repeats(e) == log # <<>> /\ log[Len(log)].event = e

Push(e, c) ==
  /\ log' = IF Repeats(e) THEN [log EXCEPT ![Len(log)] = Again(log[Len(log)])]
            ELSE Append(log, New(e, c))
  /\ UNCHANGED <<next, got>>

First(start) == Larger(start, Len(log) - Keep)
Copied(start, max) == Larger(0, Smaller(max, Len(log) - First(start)))

Read(start, max) ==
  /\ got' = [i \in 1..Copied(start, max) |-> log[First(start) + i]]
  /\ next' = First(start) + Copied(start, max)
  /\ UNCHANGED log

Next ==
  \/ \E e \in Events, c \in Codes : Push(e, c)
  \/ \E start \in 0..MaxIndex, max \in 0..MaxRead : Read(start, max)

Spec == Init /\ [][Next]_vars
=============================================================================
