----------------------------- MODULE WireTapProofs -----------------------------
(***************************************************************************)
(* The logger's two channels: the ring of EventRing implements the         *)
(* abstract log of EventLog, and the window of WireTap shows what the      *)
(* wrappers have written, for every capacity and set of events, every      *)
(* buffer size, any number of calls with arrays of any length, and         *)
(* connections that break anywhere.                                        *)
(***************************************************************************)
EXTENDS WireTap, WellFoundedInduction, TLAPS

-----------------------------------------------------------------------------
(* Indices modulo the capacity *)

LEMMA ModRange ==
  ASSUME NEW a \in Nat, NEW c \in Nat \ {0}
  PROVE a % c \in 0..(c - 1)
  OBVIOUS

LEMMA Division ==
  ASSUME NEW a \in Nat, NEW c \in Nat \ {0}
  PROVE a = c * (a \div c) + (a % c) /\ a \div c \in Nat
  OBVIOUS

LEMMA NoMultipleBetween ==
  ASSUME NEW p \in Int, NEW q \in Int, NEW c \in Nat \ {0}, c * q - c * p < c, c * q - c * p > 0
  PROVE FALSE
  <1>1. c * (q - p) < c /\ c * (q - p) > 0
    OBVIOUS
  <1>2. CASE q - p <= 0
    <2>1. c * (q - p) <= 0 BY <1>2
    <2> QED BY <1>1, <2>1
  <1>3. CASE q - p >= 1
    <2>1. c * (q - p) >= c BY <1>3
    <2> QED BY <1>1, <2>1
  <1> QED BY <1>2, <1>3

(* Entries closer than the capacity have different places.                 *)
LEMMA PlacesDiffer ==
  ASSUME NEW a \in Nat, NEW b \in Nat, NEW c \in Nat \ {0}, a < b, b - a < c
  PROVE a % c # b % c
  <1> SUFFICES ASSUME a % c = b % c PROVE FALSE
    OBVIOUS
  <1>1. a = c * (a \div c) + (a % c) /\ a \div c \in Nat BY Division
  <1>2. b = c * (b \div c) + (b % c) /\ b \div c \in Nat BY Division
  <1> DEFINE p == a \div c
             q == b \div c
  <1>3. a % c \in Int BY ModRange
  <1>4. c * q - c * p = b - a
    <2> HIDE DEF p, q
    <2>1. p \in Nat /\ q \in Nat /\ a = c * p + (a % c) /\ b = c * q + (a % c)
      BY <1>1, <1>2 DEF p, q
    <2>2. c * p \in Int /\ c * q \in Int BY <2>1
    <2> DEFINE x == c * p
               y == c * q
               r == a % c
    <2>3. x \in Int /\ y \in Int /\ r \in Int /\ a = x + r /\ b = y + r BY <1>3, <2>1, <2>2
    <2> HIDE DEF x, y, r
    <2>4. y - x = b - a BY <2>3
    <2> QED BY <2>4 DEF x, y
  <1>5. p \in Int /\ q \in Int BY <1>1, <1>2
  <1>6. c * q - c * p < c /\ c * q - c * p > 0 BY <1>4
  <1> HIDE DEF p, q
  <1> QED BY <1>5, <1>6, NoMultipleBetween

(* The place of the newest entry, as push() computes it.                   *)
LEMMA LastPlace ==
  ASSUME RingTypeOK, head > 0
  PROVE LastIndex = (head - 1) % Capacity
  BY DEF RingTypeOK, LastIndex

-----------------------------------------------------------------------------
(* The invariant *)

RingInv == RingTypeOK /\ RingMatches

LEMMA EntryFields ==
  ASSUME NEW e \in Events, NEW c \in Codes, NEW r \in Entry
  PROVE /\ New(e, c) \in Entry /\ New(e, c).event = e
        /\ Again(r) \in Entry /\ Again(r).event = r.event
  BY DEF New, Again, Entry

LEMMA InitInv == RingInit => RingInv
  <1> SUFFICES ASSUME RingInit PROVE RingInv
    OBVIOUS
  <1>1. NoEvent \in Events /\ (CHOOSE c \in Codes : TRUE) \in Codes
    BY EventRingAssumption DEF NoEvent
  <1>2. NoEntry \in Entry BY <1>1 DEF NoEntry, Entry
  <1>3. RingTypeOK
    <2>1. ring \in [0..(Capacity - 1) -> Entry] BY <1>2 DEF RingInit
    <2>2. hist \in Seq(Entry) BY DEF RingInit
    <2> QED BY <1>1, <2>1, <2>2 DEF RingInit, RingTypeOK
  <1>4. RingMatches BY EventRingAssumption DEF RingInit, RingMatches, Smaller
  <1> QED BY <1>3, <1>4 DEF RingInv

LEMMA AgainInv ==
  ASSUME RingInv, NEW e \in Events, IsDuplicate(e), PushAgain
  PROVE RingInv'
  <1>1. /\ head \in Nat /\ head > 0 /\ Len(hist) = head /\ hist \in Seq(Entry)
        /\ ring \in [0..(Capacity - 1) -> Entry]
    BY DEF RingInv, RingTypeOK, RingMatches, IsDuplicate
  <1>2. LastIndex = (head - 1) % Capacity BY LastPlace DEF RingInv, IsDuplicate, RingMatches
  <1>3. LastIndex \in 0..(Capacity - 1) BY <1>1, <1>2, ModRange, EventRingAssumption
  <1>4. ring[LastIndex] = hist[head]
    <2>1. head - 1 \in Nat /\ head - 1 < head /\ head - Capacity <= head - 1
      BY <1>1, EventRingAssumption
    <2>2. ring[(head - 1) % Capacity] = hist[(head - 1) + 1]
      BY <2>1 DEF RingInv, RingMatches
    <2> QED BY <1>1, <1>2, <2>2
  <1>5. ring[LastIndex] \in Entry /\ hist[head] \in Entry BY <1>1, <1>3
  <1>6. Again(ring[LastIndex]) \in Entry /\ Again(hist[head]) \in Entry
        /\ Again(hist[head]).event = hist[head].event
    BY <1>5 DEF Again, Entry
  <1>7. /\ ring' \in [0..(Capacity - 1) -> Entry] /\ hist' \in Seq(Entry) /\ Len(hist') = head
        /\ hist'[head] = Again(hist[head])
        /\ \A i \in 1..head : i # head => hist'[i] = hist[i]
        /\ ring'[LastIndex] = Again(ring[LastIndex])
        /\ \A i \in 0..(Capacity - 1) : i # LastIndex => ring'[i] = ring[i]
    BY <1>1, <1>3, <1>6 DEF PushAgain
  <1>8. RingTypeOK' BY <1>7 DEF RingInv, RingTypeOK, PushAgain
  <1>9. ASSUME NEW i \in Nat, i < head, head - Capacity <= i
        PROVE ring'[i % Capacity] = hist'[i + 1]
    <2>1. CASE i = head - 1
      BY <1>2, <1>4, <1>7, <2>1, <1>1
    <2>2. CASE i # head - 1
      <3>1. i < head - 1 /\ (head - 1) - i < Capacity /\ head - 1 \in Nat
        BY <1>1, <1>9, <2>2, EventRingAssumption
      <3>2. i % Capacity # (head - 1) % Capacity BY <3>1, PlacesDiffer, EventRingAssumption
      <3>3. i % Capacity \in 0..(Capacity - 1) BY ModRange, EventRingAssumption
      <3>4. ring'[i % Capacity] = ring[i % Capacity] BY <1>2, <1>7, <3>2, <3>3
      <3>5. hist'[i + 1] = hist[i + 1] BY <1>1, <1>7, <1>9, <3>1
      <3>6. ring[i % Capacity] = hist[i + 1] BY <1>9 DEF RingInv, RingMatches
      <3> QED BY <3>4, <3>5, <3>6
    <2> QED BY <2>1, <2>2
  <1>10. lastEvent = hist'[head].event /\ hasLast
    BY <1>1, <1>6, <1>7 DEF RingInv, RingMatches, IsDuplicate
  <1>11. RingMatches'
    BY <1>1, <1>7, <1>9, <1>10 DEF RingInv, RingMatches, PushAgain
  <1> QED BY <1>8, <1>11 DEF RingInv

LEMMA NewInv ==
  ASSUME RingInv, NEW e \in Events, NEW c \in Codes, PushNew(e, c)
  PROVE RingInv'
  <1>1. /\ head \in Nat /\ Len(hist) = head /\ hist \in Seq(Entry)
        /\ ring \in [0..(Capacity - 1) -> Entry] /\ stored \in Nat
    BY DEF RingInv, RingTypeOK, RingMatches
  <1>2. HeadIndex = head % Capacity /\ HeadIndex \in 0..(Capacity - 1)
    BY <1>1, ModRange, EventRingAssumption DEF HeadIndex
  <1>3. New(e, c) \in Entry /\ New(e, c).event = e BY DEF New, Entry
  <1>4. /\ ring' \in [0..(Capacity - 1) -> Entry] /\ hist' \in Seq(Entry)
        /\ Len(hist') = head + 1 /\ hist'[head + 1] = New(e, c)
        /\ \A i \in 1..head : hist'[i] = hist[i]
        /\ ring'[HeadIndex] = New(e, c)
        /\ \A i \in 0..(Capacity - 1) : i # HeadIndex => ring'[i] = ring[i]
        /\ head' = head + 1
    BY <1>1, <1>2, <1>3 DEF PushNew
  <1>5. RingTypeOK' BY <1>1, <1>4 DEF RingInv, RingTypeOK, PushNew
  <1>6. ASSUME NEW i \in Nat, i < head + 1, head + 1 - Capacity <= i
        PROVE ring'[i % Capacity] = hist'[i + 1]
    <2>1. CASE i = head
      BY <1>2, <1>4, <2>1
    <2>2. CASE i # head
      <3>1. i < head /\ head - i < Capacity /\ head - Capacity <= i
        BY <1>1, <1>6, <2>2, EventRingAssumption
      <3>2. i % Capacity # head % Capacity BY <1>1, <3>1, PlacesDiffer, EventRingAssumption
      <3>3. i % Capacity \in 0..(Capacity - 1) BY ModRange, EventRingAssumption
      <3>4. ring'[i % Capacity] = ring[i % Capacity] BY <1>2, <1>4, <3>2, <3>3
      <3>5. hist'[i + 1] = hist[i + 1] BY <1>1, <1>4, <3>1
      <3>6. ring[i % Capacity] = hist[i + 1] BY <3>1 DEF RingInv, RingMatches
      <3> QED BY <3>4, <3>5, <3>6
    <2> QED BY <2>1, <2>2
  <1>7. stored' = Smaller(head + 1, Capacity)
    BY <1>1, EventRingAssumption DEF RingInv, RingMatches, PushNew, Smaller
  <1>8. hasLast' /\ lastEvent' = hist'[head + 1].event BY <1>3, <1>4 DEF PushNew
  <1>9. RingMatches'
    <2>1. head' = head + 1 /\ head' > 0 /\ Len(hist') = head' BY <1>1, <1>4
    <2>2. ASSUME NEW i \in Nat, i < head', head' - Capacity <= i
          PROVE ring'[i % Capacity] = hist'[i + 1]
      <3>1. i < head + 1 /\ head + 1 - Capacity <= i
        BY <1>1, <2>1, <2>2, EventRingAssumption
      <3> QED BY <3>1, <1>6
    <2>3. stored' = Smaller(head', Capacity) BY <1>7, <2>1
    <2>4. hasLast' /\ lastEvent' = hist'[head'].event BY <1>8, <2>1
    <2> QED BY <2>1, <2>2, <2>3, <2>4 DEF RingMatches
  <1> QED BY <1>5, <1>9 DEF RingInv

LEMMA ReadInv ==
  ASSUME RingInv, NEW start \in 0..MaxIndex, NEW max \in 0..MaxRead, Read(start, max)
  PROVE RingInv'
  <1>1. next' \in Nat
    BY EventRingAssumption
    DEF RingInv, RingTypeOK, Read, First, Oldest, Copied, Larger, Smaller
  <1> QED BY <1>1 DEF RingInv, RingTypeOK, RingMatches, Read

(* The type invariant and the agreement of ring and history.               *)
LEMMA StepInv == RingInv /\ [RingNext]_ringVars => RingInv'
  <1> SUFFICES ASSUME RingInv, [RingNext]_ringVars PROVE RingInv'
    OBVIOUS
  <1>1. ASSUME NEW e \in Events, NEW c \in Codes, Push(e, c) PROVE RingInv'
    BY <1>1, AgainInv, NewInv DEF Push
  <1>2. ASSUME NEW start \in 0..MaxIndex, NEW max \in 0..MaxRead, Read(start, max) PROVE RingInv'
    BY <1>2, ReadInv
  <1>3. CASE UNCHANGED ringVars
    BY <1>3 DEF ringVars, RingInv, RingTypeOK, RingMatches
  <1> QED BY <1>1, <1>2, <1>3 DEF RingNext

(* The types of the ring hold in every reachable state.                    *)
THEOREM RingTyped == RingSpec => []RingTypeOK
  <1>1. RingInv => RingTypeOK BY DEF RingInv
  <1> QED BY InitInv, StepInv, <1>1, PTL DEF RingSpec

(* The ring, its length and its copy of the newest event agree with        *)
(* everything ever pushed.                                                 *)
THEOREM RingMatched == RingSpec => []RingMatches
  <1>1. RingInv => RingMatches BY DEF RingInv
  <1> QED BY InitInv, StepInv, <1>1, PTL DEF RingSpec

-----------------------------------------------------------------------------
(* The refinement *)

LEMMA PushRefines ==
  ASSUME RingInv, NEW e \in Events, NEW c \in Codes, Push(e, c)
  PROVE Log!Push(e, c)
  <1>1. /\ head \in Nat /\ Len(hist) = head /\ hist \in Seq(Entry)
        /\ (hasLast <=> head > 0) /\ (hasLast => lastEvent = hist[head].event)
    BY DEF RingInv, RingTypeOK, RingMatches
  <1>2. IsDuplicate(e) <=> Log!Repeats(e)
    BY <1>1 DEF IsDuplicate, Log!Repeats
  <1>3. CASE IsDuplicate(e)
    <2>1. PushAgain BY <1>3 DEF Push
    <2>2. Again(hist[Len(hist)]) = Log!Again(hist[Len(hist)]) BY DEF Again, Log!Again
    <2> QED BY <1>2, <1>3, <2>1, <2>2 DEF PushAgain, Log!Push
  <1>4. CASE ~IsDuplicate(e)
    <2>1. PushNew(e, c) BY <1>4 DEF Push
    <2>2. New(e, c) = Log!New(e, c) BY DEF New, Log!New
    <2> QED BY <1>2, <1>4, <2>1, <2>2 DEF PushNew, Log!Push
  <1> QED BY <1>3, <1>4

(* The clamped copy out of the ring is what the history has there.         *)
LEMMA ReadRefines ==
  ASSUME RingInv, NEW start \in 0..MaxIndex, NEW max \in 0..MaxRead, Read(start, max)
  PROVE Log!Read(start, max)
  <1>1. head \in Nat /\ Len(hist) = head
    BY DEF RingInv, RingTypeOK, RingMatches
  <1>2. First(start) = Log!First(start)
    BY <1>1, EventRingAssumption DEF First, Oldest, Larger, Log!First, Log!Larger
  <1>3. Copied(start, max) = Log!Copied(start, max)
    BY <1>1, <1>2 DEF Copied, Larger, Smaller, Log!Copied, Log!Larger, Log!Smaller
  <1>4. /\ First(start) \in Nat /\ First(start) >= head - Capacity
        /\ Copied(start, max) \in Nat
        /\ Copied(start, max) > 0 => First(start) + Copied(start, max) <= head
    BY <1>1, EventRingAssumption DEF First, Oldest, Copied, Larger, Smaller
  <1>5. ASSUME NEW i \in 1..Copied(start, max)
        PROVE ring[(First(start) + i - 1) % Capacity] = hist[Log!First(start) + i]
    <2> DEFINE j == First(start) + i - 1
    <2>1. j \in Nat /\ j < head /\ head - Capacity <= j /\ j + 1 = First(start) + i
      BY <1>1, <1>4, EventRingAssumption
    <2>2. ring[j % Capacity] = hist[j + 1] BY <2>1 DEF RingInv, RingMatches
    <2> QED BY <1>2, <2>1, <2>2
  <1>6. got' = [i \in 1..Log!Copied(start, max) |-> hist[Log!First(start) + i]]
    BY <1>3, <1>5 DEF Read
  <1>7. next' = Log!First(start) + Log!Copied(start, max) /\ UNCHANGED hist
    BY <1>2, <1>3 DEF Read
  <1> QED BY <1>6, <1>7 DEF Log!Read

(* EventRingBuffer is the abstract log: repetitions are counted in the     *)
(* right entry, and a reader gets exactly the entries that follow.         *)
THEOREM RingRefines == RingSpec => RingImplementsLog
  <1>1. RingInit => Log!Init BY DEF RingInit, Log!Init
  <1>2. RingInv /\ [RingNext]_ringVars => [Log!Next]_Log!vars
    <2> SUFFICES ASSUME RingInv, [RingNext]_ringVars PROVE [Log!Next]_Log!vars
      OBVIOUS
    <2>1. ASSUME NEW e \in Events, NEW c \in Codes, Push(e, c) PROVE Log!Next
      BY <2>1, PushRefines DEF Log!Next
    <2>2. ASSUME NEW start \in 0..MaxIndex, NEW max \in 0..MaxRead, Read(start, max)
          PROVE Log!Next
      BY <2>2, ReadRefines DEF Log!Next
    <2>3. CASE UNCHANGED ringVars BY <2>3 DEF ringVars, Log!vars
    <2> QED BY <2>1, <2>2, <2>3 DEF RingNext
  <1> QED BY InitInv, StepInv, <1>1, <1>2, PTL DEF RingSpec, RingImplementsLog, Log!Spec

-----------------------------------------------------------------------------
(* Induction and recursion *)

NatLess == {ss \in Nat \X Nat : ss[1] < ss[2]}

LEMMA NatLessWellFounded == IsWellFoundedOn(NatLess, Nat)
  BY NatLessThanWellFounded DEF OpToRel, NatLess

LEMMA Smallest ==
    ASSUME NEW S, S \subseteq Nat, S # {}
    PROVE  \E n \in S : \A m \in S : n <= m
<1>1. PICK n \in S : \A m \in S : ~(<<m, n>> \in NatLess)
  BY NatLessWellFounded, WFMin
<1>2. ASSUME NEW m \in S
      PROVE  n <= m
  <2>1. n \in Nat /\ m \in Nat
    OBVIOUS
  <2>2. m < n => <<m, n>> \in NatLess
    BY <2>1 DEF NatLess
  <2> QED
    BY <1>1, <2>1, <2>2
<1> QED
  BY <1>2

\* Induction up to n, over the set of the numbers that have a property.
LEMMA UpTo ==
    ASSUME NEW n \in Nat, NEW S, 0 \in S, \A i \in 1..n : i - 1 \in S => i \in S
    PROVE  0..n \subseteq S
<1> DEFINE Bad == {i \in 0..n : i \notin S}
<1>1. Bad = {}
  <2> SUFFICES ASSUME Bad # {} PROVE FALSE
    OBVIOUS
  <2>1. PICK i \in Bad : \A j \in Bad : i <= j
    <3>1. Bad \subseteq Nat
      OBVIOUS
    <3> QED
      BY <3>1, Smallest
  <2>2. i # 0
    OBVIOUS
  <2>3. i \in 1..n /\ i - 1 \in 0..n /\ ~(i <= i - 1)
    BY <2>2
  <2>4. i - 1 \in S
    BY <2>1, <2>3
  <2> QED
    BY <2>3, <2>4
<1> QED
  BY <1>1

\* A function that is defined step by step exists.
Steps(n, T, base, step) ==
  \E g \in [0..n -> T] : g[0] = base /\ \A i \in 1..n : g[i] = step[<<i, g[i - 1]>>]

LEMMA Recursion ==
    ASSUME NEW n \in Nat, NEW T, NEW base \in T, NEW step \in [(1..n) \X T -> T]
    PROVE  Steps(n, T, base, step)
<1> DEFINE Made(m, g) == g[0] = base /\ \A i \in 1..m : g[i] = step[<<i, g[i - 1]>>]
           S == {m \in 0..n : \E g \in [0..m -> T] : Made(m, g)}
<1>1. 0 \in S
  <2>1. PICK g : g = [i \in 0..0 |-> base]
    OBVIOUS
  <2>2. g \in [0..0 -> T] /\ Made(0, g)
    BY <2>1
  <2> QED
    BY <2>2
<1>2. ASSUME NEW m \in 1..n, m - 1 \in S
      PROVE  m \in S
  <2>1. PICK g \in [0..(m - 1) -> T] : Made(m - 1, g)
    BY <1>2
  <2> DEFINE last == step[<<m, g[m - 1]>>]
             f == [i \in 0..m |-> IF i < m THEN g[i] ELSE last]
  <2>2. last \in T
    <3>1. g[m - 1] \in T /\ <<m, g[m - 1]>> \in (1..n) \X T
      OBVIOUS
    <3> QED
      BY <3>1
  <2>3. f[m] = last /\ \A i \in 0..(m - 1) : f[i] = g[i]
    OBVIOUS
  <2>4. f \in [0..m -> T]
    BY <2>2
  <2> HIDE DEF f
  <2>5. ASSUME NEW i \in 1..m
        PROVE  f[i] = step[<<i, f[i - 1]>>]
    <3>1. f[i - 1] = g[i - 1]
      BY <2>3
    <3>2. CASE i = m
      BY <2>3, <3>1, <3>2
    <3>3. CASE i # m
      <4>1. i \in 1..(m - 1) /\ i \in 0..(m - 1)
        BY <3>3
      <4>2. g[i] = step[<<i, g[i - 1]>>]
        BY <2>1, <4>1
      <4> QED
        BY <2>3, <3>1, <4>1, <4>2
    <3> QED
      BY <3>2, <3>3
  <2>6. f[0] = base
    BY <2>1, <2>3
  <2> QED
    BY <2>4, <2>5, <2>6
<1>3. n \in S
  <2> HIDE DEF S
  <2>1. 0..n \subseteq S
    BY <1>1, <1>2, UpTo
  <2> QED
    BY <2>1
<1> QED
  BY <1>3 DEF Steps

-----------------------------------------------------------------------------
(* What the wrappers write can be read back value by value *)

ParamTokens == {Number, Str, Msg, Enum, Bytes, InOut, Null, Ref} \cup {Arr(n) : n \in Nat}

\* Values still to come after a token, of o before it.
After(o, token) ==
  LET before == IF o = 0 THEN 1 ELSE o
  IN CASE token = Ref -> before
       [] token[1] = "ARRAY" -> before - 1 + token[2]
       [] OTHER -> before - 1

\* s is n values: o[i] of them are still to come after i tokens.
Reads(s, n, o) ==
  /\ s \in Seq(ParamTokens) /\ Len(s) \in Nat /\ o \in [0..Len(s) -> Nat]
  /\ o[0] = n /\ o[Len(s)] = 0 /\ \A i \in 0..(Len(s) - 1) : o[i] >= 1
  /\ \A i \in 1..Len(s) : o[i] = After(o[i - 1], s[i])
Values(s, n) == \E o : Reads(s, n, o)

LEMMA SingleToken ==
    \A t \in {Number, Str, Msg, Enum, Bytes, InOut, Null} : t # Ref /\ t[1] # "ARRAY"
  BY DEF Number, Str, Msg, Enum, Bytes, InOut, Null, Ref

LEMMA AfterToken ==
    ASSUME NEW o \in Nat, NEW t \in ParamTokens
    PROVE  After(o, t) \in Nat /\ \A m \in Nat : o >= 1 => After(o + m, t) = After(o, t) + m
<1>1. CASE t = Ref
  <2>1. Ref[1] # "ARRAY"
    BY DEF Ref
  <2>2. \A n \in Nat : After(n, Ref) = IF n = 0 THEN 1 ELSE n
    BY <2>1 DEF After
  <2> QED
    BY <1>1, <2>2
<1>2. CASE t \in {Number, Str, Msg, Enum, Bytes, InOut, Null}
  BY <1>2, SingleToken DEF After
<1>3. ASSUME NEW n \in Nat, t = Arr(n)
      PROVE  After(o, t) \in Nat /\ \A m \in Nat : o >= 1 => After(o + m, t) = After(o, t) + m
  <2>1. t # Ref /\ t[1] = "ARRAY" /\ t[2] = n
    BY <1>3 DEF Arr, Ref
  <2> QED
    BY <2>1 DEF After
<1> QED
  BY <1>1, <1>2, <1>3 DEF ParamTokens

LEMMA NoValue == Values(<<>>, 0)
<1> DEFINE o == [i \in 0..0 |-> 0]
<1>1. <<>> \in Seq(ParamTokens) /\ Len(<<>>) = 0
  OBVIOUS
<1>2. Reads(<<>>, 0, o)
  BY <1>1 DEF Reads
<1> QED
  BY <1>2 DEF Values

LEMMA SingleValue ==
    ASSUME NEW t \in {Number, Str, Msg, Enum, Bytes, InOut, Null}
    PROVE  Values(<<t>>, 1)
<1>1. After(1, t) = 0
  BY SingleToken DEF After
<1>2. PICK s, o : s = <<t>> /\ o = [i \in 0..1 |-> 1 - i]
  OBVIOUS
<1>3. s \in Seq(ParamTokens) /\ Len(s) = 1 /\ s[1] = t
  <2>1. t \in ParamTokens
    BY DEF ParamTokens
  <2> QED
    BY <1>2, <2>1
<1>4. o \in [0..1 -> Nat] /\ o[0] = 1 /\ o[1] = 0
  BY <1>2
<1>5. Reads(s, 1, o)
  BY <1>1, <1>3, <1>4 DEF Reads
<1> QED
  BY <1>2, <1>5 DEF Values

\* One value after others.
LEMMA MoreValues ==
    ASSUME NEW s, NEW e, NEW n \in Nat, NEW m \in Nat, Values(s, n), Values(e, m)
    PROVE  Values(s \o e, n + m)
<1>1. PICK o, p : Reads(s, n, o) /\ Reads(e, m, p)
  BY DEF Values
<1>2. PICK t, k, l : t = s \o e /\ k = Len(s) /\ l = Len(e)
  OBVIOUS
<1>3. /\ k \in Nat /\ l \in Nat /\ t \in Seq(ParamTokens) /\ Len(t) = k + l
      /\ \A i \in 1..k : t[i] = s[i] /\ s[i] \in ParamTokens
      /\ \A i \in 1..l : t[k + i] = e[i]
  BY <1>1, <1>2 DEF Reads
<1>4. PICK q : q = [i \in 0..(k + l) |-> IF i <= k THEN o[i] + m ELSE p[i - k]]
  OBVIOUS
<1>5. /\ \A i \in 0..k : o[i] \in Nat
      /\ \A i \in 0..l : p[i] \in Nat
      /\ o[0] = n /\ o[k] = 0 /\ p[0] = m /\ p[l] = 0
  BY <1>1, <1>2, <1>3 DEF Reads
<1>6. /\ \A i \in 0..k : q[i] = o[i] + m
      /\ \A i \in 0..l : q[k + i] = p[i]
  <2>1. \A i \in 0..k : q[i] = o[i] + m
    BY <1>3, <1>4
  <2>2. ASSUME NEW i \in 0..l
        PROVE  q[k + i] = p[i]
    <3>1. CASE i = 0
      BY <1>3, <1>5, <2>1, <3>1
    <3>2. CASE i # 0
      BY <1>3, <1>4, <3>2
    <3> QED
      BY <3>1, <3>2
  <2> QED
    BY <2>1, <2>2
<1>7. q \in [0..Len(t) -> Nat] /\ q[0] = n + m /\ q[Len(t)] = 0
  <2>1. q \in [0..(k + l) -> Nat]
    <3>1. ASSUME NEW i \in 0..(k + l)
          PROVE  (IF i <= k THEN o[i] + m ELSE p[i - k]) \in Nat
      BY <1>3, <1>5
    <3> QED
      BY <1>4, <3>1
  <2>2. q[0] = n + m
    BY <1>3, <1>5, <1>6
  <2>3. q[k + l] = 0
    BY <1>3, <1>5, <1>6
  <2> QED
    BY <1>3, <2>1, <2>2, <2>3
<1>8. ASSUME NEW i \in 0..(Len(t) - 1)
      PROVE  q[i] >= 1
  <2>1. CASE i < k
    <3>1. o[i] >= 1 /\ o[i] \in Nat /\ q[i] = o[i] + m
      BY <1>1, <1>2, <1>3, <1>5, <1>6, <2>1 DEF Reads
    <3> QED
      BY <3>1
  <2>2. CASE i >= k
    <3>1. i - k \in 0..(l - 1) /\ i = k + (i - k)
      BY <1>3, <2>2
    <3>2. p[i - k] >= 1 /\ q[k + (i - k)] = p[i - k]
      BY <1>1, <1>2, <1>3, <1>6, <3>1 DEF Reads
    <3> QED
      BY <3>1, <3>2
  <2> QED
    BY <1>3, <2>1, <2>2
<1>9. ASSUME NEW i \in 1..Len(t)
      PROVE  q[i] = After(q[i - 1], t[i])
  <2>1. CASE i <= k
    <3>1. i \in 1..k /\ i - 1 \in 0..k /\ i - 1 \in 0..(k - 1)
      BY <1>3, <2>1
    <3>2. o[i] = After(o[i - 1], s[i]) /\ o[i - 1] >= 1 /\ o[i - 1] \in Nat
      BY <1>1, <1>2, <1>5, <3>1 DEF Reads
    <3>3. PICK x, y : x = o[i - 1] /\ y = s[i] /\ x \in Nat /\ y \in ParamTokens
      BY <1>3, <3>1, <3>2
    <3>4. After(x + m, y) = After(x, y) + m
      BY <3>2, <3>3, AfterToken
    <3>5. After(o[i - 1] + m, s[i]) = o[i] + m
      BY <3>2, <3>3, <3>4
    <3> QED
      BY <1>3, <1>6, <3>1, <3>5
  <2>2. CASE i > k
    <3>1. i - k \in 1..l /\ i - k \in 0..l /\ i - k - 1 \in 0..l /\ i = k + (i - k) /\ i - 1 = k + (i - k - 1)
      BY <1>3, <2>2
    <3>2. p[i - k] = After(p[i - k - 1], e[i - k])
      BY <1>1, <1>2, <3>1 DEF Reads
    <3>3. q[i] = p[i - k] /\ q[i - 1] = p[i - k - 1] /\ t[i] = e[i - k]
      BY <1>3, <1>6, <3>1
    <3> QED
      BY <3>2, <3>3
  <2> QED
    BY <1>3, <2>1, <2>2
<1>10. Reads(t, n + m, q)
  BY <1>3, <1>7, <1>8, <1>9 DEF Reads
<1> QED
  BY <1>2, <1>10 DEF Values

\* A value behind a pointer, or as the head of an array.
LEMMA BehindToken ==
    ASSUME NEW t \in ParamTokens, NEW s, NEW n \in Nat, Values(s, n), After(1, t) = n
    PROVE  Values(<<t>> \o s, 1)
<1>1. PICK o : Reads(s, n, o)
  BY DEF Values
<1>2. PICK v, k, h : v = h \o s /\ h = <<t>> /\ k = Len(s)
  OBVIOUS
<1>3. /\ k \in Nat /\ v \in Seq(ParamTokens) /\ Len(v) = k + 1 /\ v[1] = t
      /\ \A i \in 2..(k + 1) : v[i] = s[i - 1]
  BY <1>1, <1>2 DEF Reads
<1>4. PICK q : q = [i \in 0..(k + 1) |-> IF i = 0 THEN 1 ELSE o[i - 1]]
  OBVIOUS
<1>5. /\ \A i \in 0..k : o[i] \in Nat
      /\ o[0] = n /\ o[k] = 0
      /\ \A i \in 0..(k - 1) : o[i] >= 1
      /\ \A i \in 1..k : o[i] = After(o[i - 1], s[i])
  BY <1>1, <1>2, <1>3 DEF Reads
<1>6. q[0] = 1 /\ \A i \in 1..(k + 1) : q[i] = o[i - 1]
  BY <1>3, <1>4
<1>7. q \in [0..(k + 1) -> Nat] /\ q[k + 1] = 0
  <2>1. ASSUME NEW i \in 0..(k + 1)
        PROVE  (IF i = 0 THEN 1 ELSE o[i - 1]) \in Nat
    BY <1>3, <1>5
  <2> QED
    BY <1>3, <1>4, <1>5, <1>6, <2>1
<1>8. \A i \in 0..k : q[i] >= 1
  BY <1>3, <1>5, <1>6
<1>9. ASSUME NEW i \in 1..(k + 1)
      PROVE  q[i] = After(q[i - 1], v[i])
  <2>1. CASE i = 1
    BY <1>3, <1>5, <1>6, <2>1
  <2>2. CASE i # 1
    <3>1. i - 1 \in 1..k /\ i \in 2..(k + 1)
      BY <1>3, <2>2
    <3>2. q[i] = o[i - 1] /\ q[i - 1] = o[i - 1 - 1] /\ v[i] = s[i - 1]
      BY <1>3, <1>6, <3>1
    <3> QED
      BY <1>5, <3>1, <3>2
  <2> QED
    BY <2>1, <2>2
<1>10. Len(v) - 1 = k
  BY <1>3
<1>11. Reads(v, 1, q)
  BY <1>3, <1>6, <1>7, <1>8, <1>9, <1>10 DEF Reads
<1> QED
  BY <1>2, <1>11 DEF Values

LEMMA RefValue ==
    ASSUME NEW v, Values(v, 1)
    PROVE  Values(<<Ref>> \o v, 1)
<1>1. Ref[1] # "ARRAY" /\ Ref \in ParamTokens
  BY DEF Ref, ParamTokens
<1>2. After(1, Ref) = 1
  BY <1>1 DEF After
<1> QED
  BY <1>1, <1>2, BehindToken

LEMMA ArrValue ==
    ASSUME NEW n \in Nat, NEW s, Values(s, n)
    PROVE  Values(<<Arr(n)>> \o s, 1)
<1>1. Arr(n)[1] = "ARRAY" /\ Arr(n)[2] = n /\ Arr(n) # Ref /\ Arr(n) \in ParamTokens
  BY DEF Arr, Ref, ParamTokens
<1>2. After(1, Arr(n)) = n
  <2>1. PICK t : t = Arr(n)
    OBVIOUS
  <2>2. t[1] = "ARRAY" /\ t[2] = n /\ t # Ref
    BY <1>1, <2>1
  <2>3. After(1, t) = n
    BY <2>2 DEF After
  <2> QED
    BY <2>1, <2>3
<1> QED
  BY <1>1, <1>2, BehindToken

\* n elements of one or of three tokens each.
LEMMA RepeatMore ==
    ASSUME NEW n \in Nat, n > 0, NEW e \in Seq(ParamTokens), Len(e) \in {1, 3}
    PROVE  Repeat(n, e) = Repeat(n - 1, e) \o e
<1>1. PICK l : l = Len(e)
  OBVIOUS
<1>2. PICK r, s, t : r = Repeat(n - 1, e) /\ s = Repeat(n, e) /\ t = r \o e
  OBVIOUS
<1>3. /\ n * l \in Nat /\ (n - 1) * l \in Nat /\ n * l = (n - 1) * l + l
      /\ \A i \in 1..(n * l) : ((i - 1) % l) + 1 \in 1..l
  <2>1. CASE l = 1
    BY <2>1
  <2>2. CASE l = 3
    BY <2>2
  <2> QED
    BY <1>1, <2>1, <2>2
<1>4. /\ r = [i \in 1..((n - 1) * l) |-> e[((i - 1) % l) + 1]]
      /\ s = [i \in 1..(n * l) |-> e[((i - 1) % l) + 1]]
  BY <1>1, <1>2 DEF Repeat
<1>5. PICK a, b : a = (n - 1) * l /\ b = n * l /\ a \in Nat /\ b \in Nat /\ b = a + l
  BY <1>3
<1>6. /\ r \in Seq(ParamTokens) /\ Len(r) = a /\ s \in Seq(ParamTokens) /\ Len(s) = b
      /\ t \in Seq(ParamTokens) /\ Len(t) = b
  <2>1. \A i \in 1..b : e[((i - 1) % l) + 1] \in ParamTokens
    <3>1. ASSUME NEW i \in 1..b
          PROVE  e[((i - 1) % l) + 1] \in ParamTokens
      <4>1. PICK j : j = ((i - 1) % l) + 1 /\ j \in 1..Len(e)
        BY <1>1, <1>3, <1>5
      <4>2. e[j] \in ParamTokens
        BY <4>1
      <4> QED
        BY <4>1, <4>2
    <3> QED
      BY <3>1
  <2>2. PICK g : g = [i \in 1..b |-> e[((i - 1) % l) + 1]]
    OBVIOUS
  <2>3. PICK f : f = [i \in 1..a |-> e[((i - 1) % l) + 1]]
    OBVIOUS
  <2>4. g \in [1..b -> ParamTokens] /\ f \in [1..a -> ParamTokens]
    <3>1. g \in [1..b -> ParamTokens]
      BY <2>1, <2>2
    <3>2. \A i \in 1..a : i \in 1..b
      BY <1>1, <1>5
    <3>3. \A i \in 1..a : e[((i - 1) % l) + 1] \in ParamTokens
      BY <2>1, <3>2
    <3>4. f \in [1..a -> ParamTokens]
      BY <2>3, <3>3
    <3> QED
      BY <3>1, <3>4
  <2>5. g \in Seq(ParamTokens) /\ Len(g) = b /\ f \in Seq(ParamTokens) /\ Len(f) = a
    BY <1>5, <2>4
  <2>6. s = g /\ r = f
    BY <1>4, <1>5, <2>2, <2>3
  <2>7. r \in Seq(ParamTokens) /\ Len(r) = a /\ s \in Seq(ParamTokens) /\ Len(s) = b
    BY <2>5, <2>6
  <2>8. r \o e \in Seq(ParamTokens) /\ Len(r \o e) = Len(r) + Len(e)
    BY <2>7
  <2>9. t \in Seq(ParamTokens) /\ Len(t) = b
    BY <1>1, <1>2, <1>5, <2>7, <2>8
  <2> QED
    BY <2>7, <2>9
<1>7. ASSUME NEW i \in 1..b
      PROVE  s[i] = t[i]
  <2>1. CASE i <= a
    <3>1. i \in 1..a
      BY <1>5, <2>1
    <3>2. t[i] = r[i]
      BY <1>2, <1>6, <3>1
    <3> QED
      BY <1>4, <1>5, <3>1, <3>2
  <2>2. CASE i > a
    <3>1. t[i] = e[i - a]
      BY <1>1, <1>2, <1>5, <1>6, <2>2
    <3>2. ((i - 1) % l) + 1 = i - a
      <4>1. CASE l = 1
        BY <1>5, <2>2, <4>1
      <4>2. CASE l = 3
        BY <1>5, <2>2, <4>2
      <4> QED
        BY <1>1, <4>1, <4>2
    <3>3. s[i] = e[((i - 1) % l) + 1]
      BY <1>4, <1>5
    <3> QED
      BY <3>1, <3>2, <3>3
  <2> QED
    BY <1>5, <2>1, <2>2
<1>8. s = t
  BY <1>6, <1>7
<1> QED
  BY <1>2, <1>8

LEMMA RepeatValues ==
    ASSUME NEW e \in Seq(ParamTokens), Len(e) \in {1, 3}, Values(e, 1), NEW n \in Nat
    PROVE  Values(Repeat(n, e), n)
<1> DEFINE S == {m \in Nat : Values(Repeat(m, e), m)}
<1>1. 0 \in S
  <2>1. Repeat(0, e) = <<>>
    BY DEF Repeat
  <2> QED
    BY <2>1, NoValue
<1>2. ASSUME NEW m \in 1..n, m - 1 \in S
      PROVE  m \in S
  <2>1. m \in Nat /\ m > 0 /\ m - 1 \in Nat /\ Values(Repeat(m - 1, e), m - 1)
    BY <1>2
  <2>2. Repeat(m, e) = Repeat(m - 1, e) \o e
    BY <2>1, RepeatMore
  <2>3. Values(Repeat(m - 1, e) \o e, (m - 1) + 1)
    BY <2>1, MoreValues
  <2>4. (m - 1) + 1 = m
    BY <2>1
  <2> QED
    BY <2>1, <2>2, <2>3, <2>4
<1>3. n \in S
  <2> HIDE DEF S
  <2>1. 0..n \subseteq S
    BY <1>1, <1>2, UpTo
  <2> QED
    BY <2>1
<1> QED
  BY <1>3

\* What the window owes along a, which is whole values.
ParseOf(a, o) ==
  /\ a \in Seq(ParamTokens) /\ Len(a) \in Nat /\ o \in [0..Len(a) -> Nat]
  /\ o[0] = 0 /\ o[Len(a)] = 0
  /\ \A i \in 1..Len(a) : o[i] = After(o[i - 1], a[i])
Parses(a) == \E o : ParseOf(a, o)

AllParse(A) == \A a \in A : Parses(a)
AllValues(V) == \A v \in V : Values(v, 1)

LEMMA ValueParses ==
    ASSUME NEW v, Values(v, 1)
    PROVE  Parses(v)
<1>1. PICK o : Reads(v, 1, o)
  BY DEF Values
<1>2. PICK k : k = Len(v) /\ k \in Nat /\ k > 0
  <2>1. Len(v) \in Nat /\ o[0] = 1 /\ o[Len(v)] = 0
    BY <1>1 DEF Reads
  <2> QED
    BY <2>1
<1>3. PICK q : q = [i \in 0..k |-> IF i = 0 THEN 0 ELSE o[i]]
  OBVIOUS
<1>4. q[0] = 0 /\ \A i \in 1..k : q[i] = o[i]
  BY <1>2, <1>3
<1>5. /\ v \in Seq(ParamTokens) /\ o[0] = 1 /\ o[k] = 0
      /\ \A i \in 0..k : o[i] \in Nat
      /\ \A i \in 1..k : o[i] = After(o[i - 1], v[i])
  BY <1>1, <1>2 DEF Reads
<1>6. q \in [0..k -> Nat] /\ q[k] = 0
  BY <1>2, <1>3, <1>4, <1>5
<1>7. ASSUME NEW i \in 1..k
      PROVE  q[i] = After(q[i - 1], v[i])
  <2>1. CASE i = 1
    <3>1. After(0, v[1]) = After(1, v[1])
      BY DEF After
    <3>2. q[1] = After(1, v[1])
      BY <1>4, <1>5, <2>1
    <3> QED
      BY <1>4, <2>1, <3>1, <3>2
  <2>2. CASE i # 1
    <3>1. i - 1 \in 1..k
      BY <1>2, <2>2
    <3> QED
      BY <1>4, <1>5, <3>1
  <2> QED
    BY <2>1, <2>2
<1>8. ParseOf(v, q)
  BY <1>2, <1>4, <1>5, <1>6, <1>7 DEF ParseOf
<1> QED
  BY <1>8 DEF Parses

Singles == {Number, Str, Msg, Enum, Bytes, InOut, Null}

LEMMA SinglesParse ==
    ASSUME NEW a \in Seq(Singles)
    PROVE  Parses(a)
<1>1. a \in Seq(ParamTokens) /\ Len(a) \in Nat
  <2>1. Singles \subseteq ParamTokens
    BY DEF Singles, ParamTokens
  <2> QED
    BY <2>1
<1>2. PICK o : o = [i \in 0..Len(a) |-> 0]
  OBVIOUS
<1>3. ASSUME NEW i \in 1..Len(a)
      PROVE  o[i] = After(o[i - 1], a[i])
  <2>1. o[i] = 0 /\ o[i - 1] = 0
    BY <1>1, <1>2
  <2>2. PICK t : t = a[i] /\ t # Ref /\ t[1] # "ARRAY"
    <3>1. a[i] \in Singles
      OBVIOUS
    <3> QED
      BY <3>1, SingleToken DEF Singles
  <2>3. After(0, t) = 0
    BY <2>2 DEF After
  <2> QED
    BY <2>1, <2>2, <2>3
<1>4. o \in [0..Len(a) -> Nat] /\ o[0] = 0 /\ o[Len(a)] = 0
  BY <1>1, <1>2
<1>5. ParseOf(a, o)
  BY <1>1, <1>3, <1>4 DEF ParseOf
<1> QED
  BY <1>5 DEF Parses

LEMMA ParsesJoin ==
    ASSUME NEW s, NEW e, Parses(s), Parses(e)
    PROVE  Parses(s \o e)
<1>1. PICK o, p : ParseOf(s, o) /\ ParseOf(e, p)
  BY DEF Parses
<1>2. PICK t, k, l : t = s \o e /\ k = Len(s) /\ l = Len(e)
  OBVIOUS
<1>3. /\ k \in Nat /\ l \in Nat /\ t \in Seq(ParamTokens) /\ Len(t) = k + l
      /\ \A i \in 1..k : t[i] = s[i]
      /\ \A i \in 1..l : t[k + i] = e[i]
  BY <1>1, <1>2 DEF ParseOf
<1>4. PICK q : q = [i \in 0..(k + l) |-> IF i <= k THEN o[i] ELSE p[i - k]]
  OBVIOUS
<1>5. /\ \A i \in 0..k : o[i] \in Nat
      /\ \A i \in 0..l : p[i] \in Nat
      /\ o[0] = 0 /\ o[k] = 0 /\ p[0] = 0 /\ p[l] = 0
      /\ \A i \in 1..k : o[i] = After(o[i - 1], s[i])
      /\ \A i \in 1..l : p[i] = After(p[i - 1], e[i])
  BY <1>1, <1>2 DEF ParseOf
<1>6. /\ \A i \in 0..k : q[i] = o[i]
      /\ \A i \in 0..l : q[k + i] = p[i]
  <2>1. \A i \in 0..k : q[i] = o[i]
    BY <1>3, <1>4
  <2>2. ASSUME NEW i \in 0..l
        PROVE  q[k + i] = p[i]
    <3>1. CASE i = 0
      BY <1>3, <1>5, <2>1, <3>1
    <3>2. CASE i # 0
      BY <1>3, <1>4, <3>2
    <3> QED
      BY <3>1, <3>2
  <2> QED
    BY <2>1, <2>2
<1>7. q \in [0..(k + l) -> Nat] /\ q[0] = 0 /\ q[k + l] = 0
  <2>1. ASSUME NEW i \in 0..(k + l)
        PROVE  (IF i <= k THEN o[i] ELSE p[i - k]) \in Nat
    BY <1>3, <1>5
  <2>2. q[0] = 0 /\ q[k + l] = 0
    BY <1>3, <1>5, <1>6
  <2> QED
    BY <1>4, <2>1, <2>2
<1>8. ASSUME NEW i \in 1..(k + l)
      PROVE  q[i] = After(q[i - 1], t[i])
  <2>1. CASE i <= k
    <3>1. i \in 1..k /\ i - 1 \in 0..k /\ i \in 0..k
      BY <1>3, <2>1
    <3> QED
      BY <1>3, <1>5, <1>6, <3>1
  <2>2. CASE i > k
    <3>1. i - k \in 1..l /\ i - k \in 0..l /\ i - k - 1 \in 0..l /\ i = k + (i - k) /\ i - 1 = k + (i - k - 1)
      BY <1>3, <2>2
    <3>2. p[i - k] = After(p[i - k - 1], e[i - k])
      BY <1>5, <3>1
    <3>3. q[i] = p[i - k] /\ q[i - 1] = p[i - k - 1] /\ t[i] = e[i - k]
      BY <1>3, <1>6, <3>1
    <3> QED
      BY <3>2, <3>3
  <2> QED
    BY <1>3, <2>1, <2>2
<1>9. ParseOf(t, q)
  BY <1>3, <1>7, <1>8 DEF ParseOf
<1> QED
  BY <1>2, <1>9 DEF Parses

LEMMA OptValues ==
    ASSUME NEW V, AllValues(V)
    PROVE  AllValues(Opt(V))
<1>1. Values(<<Null>>, 1)
  BY SingleValue
<1>2. ASSUME NEW v \in V
      PROVE  Values(<<Ref>> \o v, 1)
  <2>1. Values(v, 1)
    BY DEF AllValues
  <2> QED
    BY <2>1, RefValue
<1> QED
  BY <1>1, <1>2 DEF Opt, AllValues

LEMMA ValuesParse ==
    ASSUME NEW V, AllValues(V)
    PROVE  AllParse(V)
<1>1. ASSUME NEW v \in V
      PROVE  Parses(v)
  <2>1. Values(v, 1)
    BY DEF AllValues
  <2> QED
    BY <2>1, ValueParses
<1> QED
  BY <1>1 DEF AllParse

LEMMA OtimesParse ==
    ASSUME NEW A, NEW B, AllParse(A), AllParse(B)
    PROVE  AllParse(A \otimes B)
<1>1. ASSUME NEW x \in A \otimes B
      PROVE  Parses(x)
  <2>1. PICK a \in A, b \in B : x = a \o b
    BY DEF \otimes
  <2>2. Parses(a) /\ Parses(b)
    BY DEF AllParse
  <2>3. Parses(a \o b)
    BY <2>2, ParsesJoin
  <2> QED
    BY <2>1, <2>3
<1> QED
  BY <1>1 DEF AllParse

LEMMA ArraysValues ==
    ASSUME NEW e \in Seq(ParamTokens), Len(e) \in {1, 3}, Values(e, 1)
    PROVE  AllValues(Arrays(e))
<1>1. ASSUME NEW n \in 0..MaxMsgs
      PROVE  Values(<<Arr(n)>> \o Repeat(n, e), 1)
  <2>1. n \in Nat
    BY WireAssumption
  <2>2. Values(Repeat(n, e), n)
    BY <2>1, RepeatValues
  <2> QED
    BY <2>1, <2>2, ArrValue
<1> QED
  BY <1>1 DEF AllValues, Arrays

-----------------------------------------------------------------------------
(* Every wrapper writes whole values *)

LEMMA SingleValues ==
    ASSUME NEW V, \A v \in V : \E t \in Singles : v = <<t>>
    PROVE  AllValues(V)
<1>1. ASSUME NEW v \in V
      PROVE  Values(v, 1)
  <2>1. PICK t \in Singles : v = <<t>>
    OBVIOUS
  <2>2. Values(<<t>>, 1)
    BY SingleValue DEF Singles
  <2> QED
    BY <2>1, <2>2
<1> QED
  BY <1>1 DEF AllValues

LEMMA OptionalValues ==
    /\ AllValues(OptInt) /\ AllValues(OptStr) /\ AllValues(OptMsg) /\ AllValues(OptBytes)
    /\ AllValues(Opt({<<InOut>>}))
<1>1. AllValues({<<Number>>}) /\ AllValues({<<Str>>}) /\ AllValues({<<Msg>>})
      /\ AllValues({<<Str>>, <<Bytes>>}) /\ AllValues({<<InOut>>})
  BY SingleValues DEF Singles
<1>2. AllValues(Opt({<<Number>>})) /\ AllValues(Opt({<<Str>>})) /\ AllValues(Opt({<<Msg>>}))
      /\ AllValues(Opt({<<Str>>, <<Bytes>>})) /\ AllValues(Opt({<<InOut>>}))
  BY <1>1, OptValues
<1> QED
  BY <1>2 DEF OptInt, OptStr, OptMsg, OptBytes

LEMMA OptionalParse ==
    /\ AllParse(OptInt) /\ AllParse(OptStr) /\ AllParse(OptMsg) /\ AllParse(OptBytes)
    /\ AllParse(Opt({<<InOut>>}))
  BY OptionalValues, ValuesParse

LEMMA MessagesValues == AllValues(Opt(Arrays(<<Msg>>)))
<1>1. Values(<<Msg>>, 1)
  BY SingleValue
<1>2. PICK e : e = <<Msg>>
  OBVIOUS
<1>3. e \in Seq(ParamTokens) /\ Len(e) = 1
  <2>1. Msg \in ParamTokens
    BY DEF ParamTokens
  <2> QED
    BY <1>2, <2>1
<1>4. AllValues(Arrays(e))
  BY <1>1, <1>2, <1>3, ArraysValues
<1> QED
  BY <1>2, <1>4, OptValues

\* A configuration: a list of pairs of a parameter and its value.
LEMMA PairValue ==
    ASSUME NEW t \in {Number, Str}
    PROVE  LET e == <<Arr(2), Enum, t>> IN e \in Seq(ParamTokens) /\ Len(e) = 3 /\ Values(e, 1)
<1>1. Values(<<Enum>>, 1) /\ Values(<<t>>, 1)
  BY SingleValue
<1>2. PICK s : s = <<Enum>> \o <<t>>
  OBVIOUS
<1>3. Values(s, 2)
  <2>1. Values(<<Enum>> \o <<t>>, 1 + 1)
    BY <1>1, MoreValues
  <2> QED
    BY <1>2, <2>1
<1>4. Values(<<Arr(2)>> \o s, 1)
  BY <1>3, ArrValue
<1>5. Arr(2) \in ParamTokens /\ Enum \in ParamTokens /\ t \in ParamTokens
  BY DEF ParamTokens
<1>6. PICK e, h, a, b : e = <<h, a, b>> /\ h = Arr(2) /\ a = Enum /\ b = t
  OBVIOUS
<1>7. e \in Seq(ParamTokens) /\ Len(e) = 3 /\ e = <<h>> \o (<<a>> \o <<b>>)
  BY <1>5, <1>6
<1> QED
  BY <1>2, <1>4, <1>6, <1>7

LEMMA ConfigValues ==
    AllValues(Arrays(<<Arr(2), Enum, Number>>)) /\ AllValues(Arrays(<<Arr(2), Enum, Str>>))
<1>1. ASSUME NEW t \in {Number, Str}
      PROVE  AllValues(Arrays(<<Arr(2), Enum, t>>))
  <2>1. PICK e : e = <<Arr(2), Enum, t>>
    OBVIOUS
  <2>2. e \in Seq(ParamTokens) /\ Len(e) = 3 /\ Values(e, 1)
    BY <2>1, PairValue
  <2>3. AllValues(Arrays(e))
    BY <2>2, ArraysValues
  <2> QED
    BY <2>1, <2>3
<1> QED
  BY <1>1

\* Rows of tokens none of which is the head of a value.
LEMMA RowsParse ==
    ASSUME NEW A, A \subseteq Seq(Singles)
    PROVE  AllParse(A)
<1>1. ASSUME NEW a \in A
      PROVE  Parses(a)
  BY SinglesParse
<1> QED
  BY <1>1 DEF AllParse

LEMMA Rows ==
    /\ AllParse(Just(<<Null>>)) /\ AllParse(Just(<<Number, Enum>>))
    /\ AllParse(Just(<<Number, Enum, Enum>>)) /\ AllParse(Just(<<Number, Enum, Enum, Number>>))
    /\ AllParse({<<Null, Null>>, <<Number, Null>>, <<Number, Number>>})
    /\ AllParse(Ints(1)) /\ AllParse(Ints(2))
<1>1. PICK a, b, c : a = Number /\ b = Enum /\ c = Null /\ {a, b, c} \subseteq Singles
  BY DEF Singles
<1>2. /\ {<<c>>} \subseteq Seq(Singles) /\ {<<a, b>>} \subseteq Seq(Singles)
      /\ {<<a, b, b>>} \subseteq Seq(Singles) /\ {<<a, b, b, a>>} \subseteq Seq(Singles)
      /\ {<<c, c>>, <<a, c>>, <<a, a>>} \subseteq Seq(Singles)
  BY <1>1
<1>3. ASSUME NEW n \in {1, 2}
      PROVE  {Repeat(n, <<Number>>)} \subseteq Seq(Singles)
  <2>0. PICK s : s = <<a>>
    OBVIOUS
  <2>1. s = <<a>> /\ Len(s) = 1 /\ s[1] = a
    BY <2>0
  <2>2. \A i \in 1..n : ((i - 1) % 1) + 1 = 1
    OBVIOUS
  <2>3. Repeat(n, s) = [i \in 1..n |-> s[((i - 1) % 1) + 1]]
    BY <2>1 DEF Repeat
  <2>4. Repeat(n, s) = [i \in 1..n |-> a]
    BY <2>1, <2>2, <2>3
  <2>5. [i \in 1..n |-> a] \in Seq(Singles)
    BY <1>1
  <2> QED
    BY <1>1, <2>1, <2>4, <2>5
<1>4. Ints(1) \subseteq Seq(Singles) /\ Ints(2) \subseteq Seq(Singles)
  BY <1>3 DEF Ints, Just
<1> QED
  BY <1>1, <1>2, <1>4, RowsParse DEF Just

LEMMA IoctlParse == AllParse(IoctlParams)
<1> DEFINE config == Arrays(<<Arr(2), Enum, Number>>) \cup Arrays(<<Arr(2), Enum, Str>>)
           lists == {<<Str>>} \cup config
           rows == {<<Null, Null>>, <<Number, Null>>, <<Number, Number>>}
<1>1. AllValues(lists)
  <2>1. AllValues({<<Str>>})
    BY SingleValues DEF Singles
  <2>2. AllValues(config)
    BY ConfigValues DEF AllValues
  <2> HIDE DEF config
  <2> QED
    BY <2>1, <2>2 DEF AllValues
<1>2. AllParse(Opt(lists))
  <2> HIDE DEF lists
  <2> QED
    BY <1>1, OptValues, ValuesParse
<1>3. /\ AllParse(Opt(lists) \otimes Just(<<Null>>)) /\ AllParse(OptBytes \otimes OptBytes)
      /\ AllParse(OptMsg \otimes OptMsg) /\ AllParse(OptBytes \otimes Just(<<Null>>))
      /\ AllParse(Just(<<Null>>) \otimes OptInt) /\ AllParse(rows)
  <2>1. AllParse(rows)
    BY Rows
  <2> HIDE DEF lists, rows
  <2> QED
    BY <1>2, <2>1, Rows, OptionalParse, OtimesParse
<1>4. \A A, B : AllParse(A) /\ AllParse(B) => AllParse(A \cup B)
  BY DEF AllParse
<1> DEFINE forms == (Opt(lists) \otimes Just(<<Null>>)) \cup (OptBytes \otimes OptBytes)
                    \cup (OptMsg \otimes OptMsg) \cup (OptBytes \otimes Just(<<Null>>))
                    \cup (Just(<<Null>>) \otimes OptInt) \cup rows
<1>5. AllParse(forms)
  <2> HIDE DEF lists, rows
  <2> QED
    BY <1>3, <1>4
<1>6. AllParse(Just(<<Number, Enum>>) \otimes forms)
  <2> HIDE DEF forms
  <2> QED
    BY <1>5, Rows, OtimesParse
<1> QED
  BY <1>6 DEF IoctlParams

LEMMA ParamsParse ==
    ASSUME NEW f \in Functions
    PROVE  AllParse(Params(f))
<1>1. /\ AllParse(DeviceParams.Open) /\ AllParse(DeviceParams.Close)
      /\ AllParse(DeviceParams.Connect) /\ AllParse(DeviceParams.Disconnect)
  <2>1. AllParse(OptStr \otimes OptInt)
        /\ AllParse(Just(<<Number, Enum, Enum, Number>>) \otimes OptInt)
    BY Rows, OptionalParse, OtimesParse
  <2> QED
    BY <2>1, Rows DEF DeviceParams
<1>2. /\ AllParse(MessageParams.ReadMsgs) /\ AllParse(MessageParams.WriteMsgs)
      /\ AllParse(MessageParams.StartPeriodicMsg) /\ AllParse(MessageParams.StopPeriodicMsg)
  <2> DEFINE messages == Ints(1) \otimes Opt(Arrays(<<Msg>>)) \otimes Opt({<<InOut>>}) \otimes Ints(1)
             periodic == Ints(1) \otimes OptMsg \otimes OptInt \otimes Ints(1)
  <2>1. AllParse(Opt(Arrays(<<Msg>>)))
    BY MessagesValues, ValuesParse
  <2>2. AllParse(messages)
    <3>1. AllParse(Ints(1) \otimes Opt(Arrays(<<Msg>>)))
      BY <2>1, Rows, OtimesParse
    <3>2. AllParse(Ints(1) \otimes Opt(Arrays(<<Msg>>)) \otimes Opt({<<InOut>>}))
      BY <3>1, OptionalParse, OtimesParse
    <3> QED
      BY <3>2, Rows, OtimesParse
  <2>3. AllParse(periodic)
    <3>1. AllParse(Ints(1) \otimes OptMsg)
      BY Rows, OptionalParse, OtimesParse
    <3>2. AllParse(Ints(1) \otimes OptMsg \otimes OptInt)
      BY <3>1, OptionalParse, OtimesParse
    <3> QED
      BY <3>2, Rows, OtimesParse
  <2>4. /\ MessageParams.ReadMsgs = messages /\ MessageParams.WriteMsgs = messages
        /\ MessageParams.StartPeriodicMsg = periodic /\ MessageParams.StopPeriodicMsg = Ints(2)
    <3> HIDE DEF messages, periodic
    <3> QED
      BY DEF MessageParams, messages, periodic
  <2> HIDE DEF messages, periodic
  <2> QED
    BY <2>2, <2>3, <2>4, Rows
<1>3. /\ AllParse(FilterParams.StartMsgFilter) /\ AllParse(FilterParams.StopMsgFilter)
      /\ AllParse(FilterParams.SetProgrammingVoltage)
  <2>1. AllParse(Just(<<Number, Enum>>) \otimes OptMsg)
    BY Rows, OptionalParse, OtimesParse
  <2>2. AllParse(Just(<<Number, Enum>>) \otimes OptMsg \otimes OptMsg)
    BY <2>1, OptionalParse, OtimesParse
  <2>3. AllParse(Just(<<Number, Enum>>) \otimes OptMsg \otimes OptMsg \otimes OptMsg)
    BY <2>2, OptionalParse, OtimesParse
  <2>4. AllParse(Just(<<Number, Enum>>) \otimes OptMsg \otimes OptMsg \otimes OptMsg \otimes Ints(1))
    BY <2>3, Rows, OtimesParse
  <2> QED
    BY <2>4, Rows DEF FilterParams
<1>4. AllParse(VersionParams.ReadVersion) /\ AllParse(VersionParams.GetLastError)
  <2>1. AllParse(Ints(1) \otimes OptStr)
    BY Rows, OptionalParse, OtimesParse
  <2>2. AllParse(Ints(1) \otimes OptStr \otimes OptStr)
    BY <2>1, OptionalParse, OtimesParse
  <2>3. AllParse(Ints(1) \otimes OptStr \otimes OptStr \otimes OptStr)
    BY <2>2, OptionalParse, OtimesParse
  <2> QED
    BY <2>3, OptionalParse DEF VersionParams
<1>5. /\ DOMAIN DeviceParams = {"Open", "Close", "Connect", "Disconnect"}
      /\ DOMAIN MessageParams = {"ReadMsgs", "WriteMsgs", "StartPeriodicMsg", "StopPeriodicMsg"}
      /\ DOMAIN FilterParams = {"StartMsgFilter", "StopMsgFilter", "SetProgrammingVoltage"}
      /\ DOMAIN VersionParams = {"ReadVersion", "GetLastError"}
  BY DEF DeviceParams, MessageParams, FilterParams, VersionParams
<1>6. CASE f \in DOMAIN DeviceParams
  <2>1. Params(f) = DeviceParams[f]
    BY <1>5, <1>6 DEF Params
  <2> QED
    BY <1>1, <1>5, <1>6, <2>1
<1>7. CASE f \in DOMAIN MessageParams
  <2>1. Params(f) = MessageParams[f]
    BY <1>5, <1>7 DEF Params
  <2> QED
    BY <1>2, <1>5, <1>7, <2>1
<1>8. CASE f \in DOMAIN FilterParams
  <2>1. Params(f) = FilterParams[f]
    BY <1>5, <1>8 DEF Params
  <2> QED
    BY <1>3, <1>5, <1>8, <2>1
<1>9. CASE f \in DOMAIN VersionParams
  <2>1. Params(f) = VersionParams[f]
    BY <1>5, <1>9 DEF Params
  <2> QED
    BY <1>4, <1>5, <1>9, <2>1
<1>10. CASE f = "Ioctl"
  <2>1. Params(f) = IoctlParams
    BY <1>5, <1>10 DEF Params
  <2> QED
    BY <1>10, <2>1, IoctlParse
<1> QED
  BY <1>6, <1>7, <1>8, <1>9, <1>10 DEF Functions

\* The calls the wrappers can make.
Made == UNION {Calls(f, c) : f \in Functions \cap Events, c \in Codes}

LEMMA MadeCalls ==
    ASSUME NEW c \in Made
    PROVE  c.f \in Events /\ c.code \in Codes /\ c.args \in Seq(ParamTokens) /\ Parses(c.args)
<1>1. PICK f \in Functions \cap Events, code \in Codes : c \in Calls(f, code)
  BY DEF Made
<1>2. PICK a \in Params(f) : c = [f |-> f, args |-> a, code |-> code]
  BY <1>1 DEF Calls
<1>3. Parses(a)
  BY <1>1, ParamsParse DEF AllParse
<1>4. a \in Seq(ParamTokens)
  BY <1>3 DEF Parses, ParseOf
<1> QED
  BY <1>2, <1>3, <1>4

-----------------------------------------------------------------------------
(* The ring under the wrappers *)

LEMMA BeginCall ==
    ASSUME Begin
    PROVE  call' \in Made
<1>1. call' \in FirstCalls \cup LaterCalls
  BY DEF Begin
<1> QED
  BY <1>1, CallsAssumption DEF Made

\* The wrappers only push events of the ring's alphabet, and a reader reads.
LEMMA RingSteps == [Next]_vars => [RingNext]_ringVars
<1> SUFFICES ASSUME [Next]_vars
             PROVE  [RingNext]_ringVars
  OBVIOUS
<1>1. CASE Begin
  <2>1. PICK f, c : f = call'.f /\ c = call'.code
    OBVIOUS
  <2>2. f \in Events /\ c \in Codes
    BY <1>1, <2>1, BeginCall, MadeCalls
  <2>3. Push(f, c)
    BY <1>1, <2>1 DEF Begin
  <2> QED
    BY <2>2, <2>3 DEF RingNext
<1>2. CASE ReadBack
  BY <1>2 DEF ReadBack, RingNext
<1>3. ASSUME Skip \/ WriteField \/ WriteEnd \/ Retry \/ Lose \/ ViewerReads \/ ViewerEnds
             \/ UNCHANGED vars
      PROVE  UNCHANGED ringVars
  BY <1>3 DEF Skip, WriteField, WriteEnd, Proceed, Retry, Lose, ViewerReads, ViewerEnds, vars
<1> QED
  BY <1>1, <1>2, <1>3 DEF Next

(* The ring of the logger, fed by its wrappers and read by anyone, is the  *)
(* abstract log, whatever happens to the connection.                       *)
THEOREM WireRing == Spec => RingImplementsLog
<1>1. Init => RingInit
  BY DEF Init
<1>2. Spec => RingSpec
  BY <1>1, RingSteps, PTL DEF Spec, RingSpec
<1> QED
  BY <1>2, RingRefines, PTL

-----------------------------------------------------------------------------
(* Types *)

Tok == ParamTokens \cup {Hdr(f) : f \in Events} \cup {End(c) : c \in Codes}
       \cup {Hello[1], Hello[2], Hello[3]}
Cell == Tok \X {1, 2}
ViewStates == {"Setup", "Connected", "Disconnected", "Error", "Unsupported"}

\* What a broken connection leaves in the buffer is half a field at most.
Halved == buf = <<>> \/ (Len(buf) = 1 /\ buf[1][2] = 2)

SenderTyped ==
  /\ connected \in BOOLEAN /\ lost \in BOOLEAN /\ (~lost => connected)
  /\ buf \in Seq(Cell) /\ Len(buf) < BufSize /\ wire \in Seq(Cell)
  /\ ~connected => Halved
CallTyped ==
  /\ todo \in Seq(Tok) /\ expected \in Seq(Made) /\ (todo # <<>> => call \in Made)
  /\ calls \in 0..MaxCalls /\ hellos \in 0..MaxHellos
ViewTyped ==
  viewState \in ViewStates /\ owed \in Nat /\ message \in Seq(Tok \cup {Garbled})
Typed == SenderTyped /\ CallTyped /\ ViewTyped

LEMMA TextTyped ==
    ASSUME NEW c \in Made
    PROVE  /\ Text(c) \in Seq(Tok) /\ Len(Text(c)) = Len(c.args) + 2 /\ Len(c.args) \in Nat
           /\ Text(c)[1] = Hdr(c.f) /\ Text(c)[Len(c.args) + 2] = End(c.code)
           /\ \A i \in 1..Len(c.args) : Text(c)[i + 1] = c.args[i]
<1>1. PICK h, a, e : h = Hdr(c.f) /\ a = c.args /\ e = End(c.code)
  OBVIOUS
<1>2. h \in Tok /\ e \in Tok /\ a \in Seq(Tok)
  <2>1. c.f \in Events /\ c.code \in Codes /\ c.args \in Seq(ParamTokens)
    BY MadeCalls
  <2>2. ParamTokens \subseteq Tok
    BY DEF Tok
  <2> QED
    BY <1>1, <2>1, <2>2 DEF Tok
<1>3. PICK t : t = <<h>> \o a \o <<e>>
  OBVIOUS
<1>4. PICK s : s = <<h>> \o a
  OBVIOUS
<1>5. s \in Seq(Tok) /\ Len(s) = Len(a) + 1 /\ s[1] = h /\ \A i \in 1..Len(a) : s[i + 1] = a[i]
  BY <1>2, <1>4
<1>6. t = s \o <<e>>
  BY <1>3, <1>4
<1>7. /\ t \in Seq(Tok) /\ Len(t) = Len(a) + 2 /\ Len(a) \in Nat /\ t[Len(a) + 2] = e
      /\ \A i \in 1..Len(s) : t[i] = s[i]
  BY <1>2, <1>5, <1>6
<1>8. t[1] = h /\ \A i \in 1..Len(a) : t[i + 1] = a[i]
  BY <1>2, <1>5, <1>7
<1>9. t = Text(c)
  BY <1>1, <1>3 DEF Text
<1> QED
  BY <1>1, <1>7, <1>8, <1>9

LEMMA CellsTyped ==
    ASSUME NEW t \in Tok
    PROVE  /\ Cells(t) \in Seq(Cell) /\ Len(Cells(t)) = 2
           /\ Cells(t)[1] = <<t, 1>> /\ Cells(t)[2] = <<t, 2>>
<1>0. PICK a, b : a = <<t, 1>> /\ b = <<t, 2>>
  OBVIOUS
<1>1. a = <<t, 1>> /\ b = <<t, 2>> /\ a \in Cell /\ b \in Cell
  <2>1. \A T : \A x \in T : <<x, 1>> \in T \X {1, 2} /\ <<x, 2>> \in T \X {1, 2}
    OBVIOUS
  <2> QED
    BY <1>0, <2>1 DEF Cell
<1>2. PICK s : s = <<a, b>>
  OBVIOUS
<1>3. s \in Seq(Cell) /\ Len(s) = 2 /\ s[1] = a /\ s[2] = b
  BY <1>1, <1>2
<1>4. Cells(t) = s
  BY <1>1, <1>2 DEF Cells
<1> QED
  BY <1>1, <1>3, <1>4

LEMMA InitTyped == Init => Typed
<1> SUFFICES ASSUME Init
             PROVE  Typed
  OBVIOUS
<1>1. SenderTyped
  <2>1. buf = <<>> /\ wire = <<>> /\ connected = FALSE /\ lost = TRUE
    BY DEF Init
  <2>2. buf \in Seq(Cell) /\ wire \in Seq(Cell) /\ Len(buf) = 0
    BY <2>1
  <2> QED
    <3>1. 0 < BufSize
      BY WireAssumption
    <3> QED
      BY <2>1, <2>2, <3>1 DEF SenderTyped, Halved
<1>2. CallTyped
  BY WireAssumption DEF Init, CallTyped
<1>3. ViewTyped
  BY DEF Init, ViewTyped, ViewStates
<1> QED
  BY <1>1, <1>2, <1>3 DEF Typed

LEMMA BeginTyped ==
    ASSUME Typed, Begin
    PROVE  Typed'
<1>1. SenderTyped'
  BY DEF Typed, SenderTyped, Halved, Begin
<1>2. ViewTyped'
  BY DEF Typed, ViewTyped, Begin, viewVars
<1>3. CallTyped'
  <2>1. call' \in Made
    BY BeginCall
  <2>2. todo' = Text(call')
    BY DEF Begin, Text
  <2>3. todo' \in Seq(Tok)
    BY <2>1, <2>2, TextTyped
  <2>4. calls' \in 0..MaxCalls /\ hellos' \in 0..MaxHellos
    BY WireAssumption DEF Typed, CallTyped, Begin
  <2>5. expected' \in Seq(Made)
    BY DEF Typed, CallTyped, Begin
  <2> QED
    BY <2>1, <2>3, <2>4, <2>5 DEF CallTyped
<1> QED
  BY <1>1, <1>2, <1>3 DEF Typed

\* The rest of a call, and the list of the calls that have returned.
LEMMA ProceedTyped ==
    ASSUME Typed, Proceed, expected' \in {expected, Append(expected, call)}
    PROVE  CallTyped' /\ ViewTyped' /\ Head(todo) \in Tok
<1>1. todo \in Seq(Tok) /\ todo # <<>> /\ call \in Made /\ expected \in Seq(Made)
  BY DEF Typed, CallTyped, Proceed
<1>2. todo' \in Seq(Tok) /\ Head(todo) \in Tok
  BY <1>1 DEF Proceed
<1>3. expected' \in Seq(Made)
  BY <1>1
<1>4. CallTyped'
  BY <1>1, <1>2, <1>3 DEF Typed, CallTyped, Proceed
<1>5. ViewTyped'
  BY DEF Typed, ViewTyped, Proceed, viewVars
<1> QED
  BY <1>2, <1>4, <1>5

LEMMA SkipTyped ==
    ASSUME Typed, Skip
    PROVE  Typed'
<1>1. CallTyped' /\ ViewTyped'
  BY ProceedTyped DEF Skip
<1>2. SenderTyped'
  BY DEF Typed, SenderTyped, Halved, Skip, Proceed
<1> QED
  BY <1>1, <1>2 DEF Typed

\* Sequences: a whole and its parts.
LEMMA Joined ==
    ASSUME NEW C, NEW a \in Seq(C), NEW b \in Seq(C)
    PROVE  /\ a \o b \in Seq(C) /\ Len(a \o b) = Len(a) + Len(b)
           /\ Len(a) \in Nat /\ Len(b) \in Nat
           /\ \A i \in 1..Len(a) : (a \o b)[i] = a[i]
           /\ \A i \in 1..Len(b) : (a \o b)[Len(a) + i] = b[i]
OBVIOUS

LEMMA JoinedTwice ==
    ASSUME NEW C, NEW a \in Seq(C), NEW b \in Seq(C), NEW c \in Seq(C)
    PROVE  (a \o b) \o c = a \o (b \o c)
OBVIOUS

LEMMA Cut ==
    ASSUME NEW C, NEW w \in Seq(C), NEW m \in 0..Len(w)
    PROVE  LET a == SubSeq(w, 1, m)
               b == SubSeq(w, m + 1, Len(w))
           IN /\ a \in Seq(C) /\ b \in Seq(C) /\ Len(a) = m /\ Len(b) = Len(w) - m
              /\ Len(w) \in Nat
              /\ \A i \in 1..m : a[i] = w[i]
              /\ \A i \in 1..(Len(w) - m) : b[i] = w[m + i]
              /\ a \o b = w
<1>1. PICK n : n = Len(w) /\ n \in Nat /\ m \in 0..n
  OBVIOUS
<1>2. PICK a, b : a = SubSeq(w, 1, m) /\ b = SubSeq(w, m + 1, n)
  OBVIOUS
<1>3. a \in Seq(C) /\ Len(a) = m /\ \A i \in 1..m : a[i] = w[i]
  BY <1>1, <1>2
<1>4. b \in Seq(C) /\ Len(b) = n - m /\ \A i \in 1..(n - m) : b[i] = w[m + i]
  BY <1>1, <1>2
<1>5. PICK v : v = a \o b
  OBVIOUS
<1>6. v \in Seq(C) /\ Len(v) = n
  <2>1. a \in Seq(C) /\ b \in Seq(C)
    BY <1>3, <1>4
  <2>2. a \o b \in Seq(C) /\ Len(a \o b) = Len(a) + Len(b)
    BY <2>1, Joined
  <2> QED
    BY <1>1, <1>3, <1>4, <1>5, <2>2
<1>7. ASSUME NEW i \in 1..n
      PROVE  v[i] = w[i]
  <2>1. CASE i <= m
    BY <1>1, <1>3, <1>4, <1>5, <2>1
  <2>2. CASE i > m
    <3>1. i - m \in 1..(n - m) /\ i = m + (i - m)
      BY <1>1, <2>2
    <3>2. v[m + (i - m)] = b[i - m]
      BY <1>3, <1>4, <1>5, <3>1
    <3> QED
      BY <1>4, <3>1, <3>2
  <2> QED
    BY <1>1, <2>1, <2>2
<1>8. v = w
  BY <1>1, <1>6, <1>7
<1> QED
  BY <1>1, <1>2, <1>3, <1>4, <1>5, <1>8

\* A full buffer is sent; what follows is never more than half a field.
LEMMA Filled ==
    ASSUME Typed, connected, NEW t \in Tok, Fill(Cells(t)), lost' = lost
    PROVE  /\ SenderTyped'
           /\ lost => wire' = wire
           /\ ~lost => wire' \o buf' = (wire \o buf) \o Cells(t)
           /\ wire' = wire \/ \E s \in Seq(Cell) : wire' = wire \o s
<1>1. PICK w, n, b, x, c : /\ w = buf \o Cells(t) /\ n = Len(w)
                           /\ b = buf /\ x = wire /\ c = Cells(t)
  OBVIOUS
<1>2. /\ b \in Seq(Cell) /\ Len(b) < BufSize /\ x \in Seq(Cell)
      /\ BufSize \in Nat /\ BufSize > 2 /\ lost \in BOOLEAN
  BY <1>1, WireAssumption DEF Typed, SenderTyped
<1>3. c \in Seq(Cell) /\ Len(c) = 2 /\ c[2] = <<t, 2>>
  BY <1>1, CellsTyped
<1>4. w \in Seq(Cell) /\ n = Len(b) + 2 /\ n \in Nat /\ w[n] = <<t, 2>>
  <2>1. w = b \o c
    BY <1>1
  <2>0. b \in Seq(Cell) /\ c \in Seq(Cell)
    BY <1>2, <1>3
  <2>3. /\ b \o c \in Seq(Cell) /\ Len(b \o c) = Len(b) + Len(c) /\ Len(b) \in Nat
        /\ \A i \in 1..Len(c) : (b \o c)[Len(b) + i] = c[i]
    BY <2>0, Joined
  <2>2. b \o c \in Seq(Cell) /\ Len(b \o c) = Len(b) + Len(c) /\ (b \o c)[Len(b) + 2] = c[2]
        /\ Len(b) \in Nat
    <3>1. 2 \in 1..Len(c)
      BY <1>3
    <3> QED
      BY <2>3, <3>1
  <2> QED
    BY <1>1, <1>3, <2>1, <2>2
<1>6. (wire \o buf) \o Cells(t) = wire \o w
  <2>1. (x \o b) \o c = x \o (b \o c)
    BY <1>2, <1>3, JoinedTwice
  <2> QED
    BY <1>1, <2>1
<1>7. CASE n < BufSize
  <2>1. buf' = w /\ connected' = connected /\ wire' = wire
    BY <1>1, <1>7 DEF Fill
  <2>2. SenderTyped'
    BY <1>1, <1>4, <1>7, <2>1 DEF Typed, SenderTyped
  <2> QED
    BY <1>6, <2>1, <2>2
<1>8. CASE n >= BufSize
  <2>1. PICK s, r : s = SubSeq(w, 1, BufSize) /\ r = SubSeq(w, BufSize + 1, Len(w))
    OBVIOUS
  <2>2. Send(s) /\ buf' = r
    <3>1. ~(Len(w) < BufSize)
      BY <1>1, <1>2, <1>4, <1>8
    <3> QED
      BY <1>1, <2>1, <3>1 DEF Fill
  <2>3. /\ s \in Seq(Cell) /\ r \in Seq(Cell) /\ Len(r) = n - BufSize /\ s \o r = w
        /\ \A i \in 1..(n - BufSize) : r[i] = w[BufSize + i]
    <3>1. BufSize \in 0..Len(w) /\ w \in Seq(Cell) /\ n = Len(w)
      BY <1>1, <1>2, <1>4, <1>8
    <3>2. /\ SubSeq(w, 1, BufSize) \in Seq(Cell) /\ SubSeq(w, BufSize + 1, Len(w)) \in Seq(Cell)
          /\ Len(SubSeq(w, BufSize + 1, Len(w))) = Len(w) - BufSize
          /\ SubSeq(w, 1, BufSize) \o SubSeq(w, BufSize + 1, Len(w)) = w
          /\ \A i \in 1..(Len(w) - BufSize) : SubSeq(w, BufSize + 1, Len(w))[i] = w[BufSize + i]
      BY <3>1, Cut
    <3> QED
      BY <2>1, <3>1, <3>2
  <2>4. n - BufSize \in {0, 1}
    <3>1. Len(b) \in Nat
      BY <1>2
    <3> QED
      BY <1>2, <1>4, <1>8, <3>1
  <2>5. Len(r) = 1 => r[1] = <<t, 2>>
    <3>1. SUFFICES ASSUME Len(r) = 1
                   PROVE  r[1] = <<t, 2>>
      OBVIOUS
    <3>2. n - BufSize = 1
      BY <2>3, <3>1
    <3>3. BufSize + 1 = n
      BY <1>2, <1>4, <3>2
    <3>4. r[1] = w[BufSize + 1]
      BY <2>3, <3>2
    <3> QED
      BY <1>4, <3>3, <3>4
  <2>6. Halved' /\ Len(buf') < BufSize /\ buf' \in Seq(Cell)
    <3>1. Len(r) = 0 => r = <<>>
      BY <2>3
    <3> QED
      BY <1>2, <2>2, <2>3, <2>4, <2>5, <3>1 DEF Halved
  <2>7. /\ connected' \in BOOLEAN /\ (~lost' => connected')
        /\ lost => wire' = wire
        /\ ~lost => wire' = x \o s
    BY <1>1, <1>2, <2>2 DEF Send
  <2>8. wire' \in Seq(Cell)
    <3>1. x \o s \in Seq(Cell)
      BY <1>2, <2>3, Joined
    <3> QED
      BY <1>1, <1>2, <2>7, <3>1
  <2>9. ~lost => wire' \o buf' = wire \o w
    <3>0. x \in Seq(Cell) /\ s \in Seq(Cell) /\ r \in Seq(Cell)
      BY <1>2, <2>3
    <3>1. (x \o s) \o r = x \o (s \o r)
      BY <3>0, JoinedTwice
    <3> QED
      BY <1>1, <2>2, <2>3, <2>7, <3>1
  <2>10. SenderTyped'
    BY <1>2, <2>6, <2>7, <2>8 DEF SenderTyped
  <2>11. wire' = wire \/ \E z \in Seq(Cell) : wire' = wire \o z
    BY <1>1, <1>2, <2>3, <2>7
  <2> QED
    BY <1>6, <2>7, <2>9, <2>10, <2>11
<1>9. n < BufSize \/ n >= BufSize
  BY <1>2, <1>4
<1> QED
  BY <1>7, <1>8, <1>9

LEMMA WriteFieldTyped ==
    ASSUME Typed, WriteField
    PROVE  Typed'
<1>1. Proceed /\ connected /\ Fill(Cells(Head(todo))) /\ expected' = expected /\ lost' = lost
  BY DEF WriteField, Proceed
<1>2. CallTyped' /\ ViewTyped' /\ Head(todo) \in Tok
  BY <1>1, ProceedTyped
<1>3. SenderTyped'
  BY <1>1, <1>2, Filled
<1> QED
  BY <1>2, <1>3 DEF Typed

\* The last field flushes the buffer.
LEMMA Flushed ==
    ASSUME Typed, connected, NEW t \in Tok, Send(buf \o Cells(t)), buf' = <<>>, lost' = lost
    PROVE  /\ SenderTyped'
           /\ lost => wire' = wire
           /\ ~lost => wire' \o buf' = (wire \o buf) \o Cells(t)
           /\ wire' = wire \/ \E s \in Seq(Cell) : wire' = wire \o s
<1>1. PICK b, x, c : b = buf /\ x = wire /\ c = Cells(t)
  OBVIOUS
<1>2. /\ b \in Seq(Cell) /\ x \in Seq(Cell) /\ c \in Seq(Cell)
      /\ lost \in BOOLEAN /\ BufSize \in Nat /\ 0 < BufSize /\ (~lost => connected)
  BY <1>1, CellsTyped, WireAssumption DEF Typed, SenderTyped
<1>3. b \o c \in Seq(Cell)
  BY <1>2, Joined
<1>4. x \o (b \o c) \in Seq(Cell) /\ x \o (b \o c) = (x \o b) \o c
  BY <1>2, <1>3, Joined, JoinedTwice
<1>5. /\ connected' \in BOOLEAN /\ (~lost' => connected')
      /\ lost => wire' = wire
      /\ ~lost => wire' = x \o (b \o c)
  BY <1>1, <1>2 DEF Send
<1>6. wire' \in Seq(Cell) /\ buf' \in Seq(Cell) /\ Len(buf') = 0
  <2>1. wire' \in {wire, x \o (b \o c)}
    BY <1>2, <1>5
  <2>2. wire' \in Seq(Cell)
    BY <1>1, <1>2, <1>4, <2>1
  <2> QED
    BY <2>2
<1>7. SenderTyped'
  BY <1>2, <1>5, <1>6 DEF SenderTyped, Halved
<1>8. wire' \o buf' = wire'
  BY <1>6
<1>9. wire' = wire \/ \E s \in Seq(Cell) : wire' = wire \o s
  BY <1>1, <1>2, <1>3, <1>5
<1> QED
  BY <1>1, <1>4, <1>5, <1>7, <1>8, <1>9

LEMMA WriteEndTyped ==
    ASSUME Typed, WriteEnd
    PROVE  Typed'
<1>1. Proceed /\ connected /\ Send(buf \o Cells(Head(todo))) /\ buf' = <<>>
      /\ expected' = Append(expected, call) /\ lost' = lost
  BY DEF WriteEnd, Proceed
<1>2. CallTyped' /\ ViewTyped' /\ Head(todo) \in Tok
  BY <1>1, ProceedTyped
<1>3. SenderTyped'
  BY <1>1, <1>2, Flushed
<1> QED
  BY <1>2, <1>3 DEF Typed

\* The cells of the handshake.
LEMMA HelloCells ==
    LET h == Cells(Hello[1]) \o Cells(Hello[2]) \o Cells(Hello[3])
    IN /\ h \in Seq(Cell) /\ Len(h) = 6
       /\ h[1] = <<Hello[1], 1>> /\ h[2] = <<Hello[1], 2>> /\ h[3] = <<Hello[2], 1>>
       /\ h[4] = <<Hello[2], 2>> /\ h[5] = <<Hello[3], 1>> /\ h[6] = <<Hello[3], 2>>
<1>1. PICK a, b, c : a = Hello[1] /\ b = Hello[2] /\ c = Hello[3]
  OBVIOUS
<1>2. a \in Tok /\ b \in Tok /\ c \in Tok
  BY <1>1 DEF Tok
<1>3. PICK x, y, z : x = Cells(a) /\ y = Cells(b) /\ z = Cells(c)
  OBVIOUS
<1>4. /\ x \in Seq(Cell) /\ Len(x) = 2 /\ x[1] = <<a, 1>> /\ x[2] = <<a, 2>>
      /\ y \in Seq(Cell) /\ Len(y) = 2 /\ y[1] = <<b, 1>> /\ y[2] = <<b, 2>>
      /\ z \in Seq(Cell) /\ Len(z) = 2 /\ z[1] = <<c, 1>> /\ z[2] = <<c, 2>>
  BY <1>2, <1>3, CellsTyped
<1>5. PICK s : s = x \o y
  OBVIOUS
<1>6. s \in Seq(Cell) /\ Len(s) = 4 /\ s[1] = x[1] /\ s[2] = x[2] /\ s[3] = y[1] /\ s[4] = y[2]
  <2>1. /\ x \o y \in Seq(Cell) /\ Len(x \o y) = 2 + 2
        /\ \A i \in 1..2 : (x \o y)[i] = x[i]
        /\ \A i \in 1..2 : (x \o y)[2 + i] = y[i]
    BY <1>4, Joined
  <2>2. /\ \A i \in 1..2 : s[i] = x[i]
        /\ \A i \in 1..2 : s[2 + i] = y[i]
    BY <1>5, <2>1
  <2>3. s[1] = x[1] /\ s[2] = x[2] /\ s[2 + 1] = y[1] /\ s[2 + 2] = y[2]
    BY <2>2
  <2> QED
    BY <1>5, <2>1, <2>3
<1>7. PICK h : h = s \o z
  OBVIOUS
<1>8. h \in Seq(Cell) /\ Len(h) = 6 /\ h[1] = s[1] /\ h[2] = s[2] /\ h[3] = s[3] /\ h[4] = s[4]
      /\ h[5] = z[1] /\ h[6] = z[2]
  <2>0. Len(s) = 4 /\ Len(z) = 2
    BY <1>4, <1>6
  <2>a. s \in Seq(Cell) /\ z \in Seq(Cell)
    BY <1>4, <1>6
  <2>b. /\ s \o z \in Seq(Cell) /\ Len(s \o z) = Len(s) + Len(z)
        /\ \A i \in 1..Len(s) : (s \o z)[i] = s[i]
        /\ \A i \in 1..Len(z) : (s \o z)[Len(s) + i] = z[i]
    BY <2>a, Joined
  <2>1. /\ s \o z \in Seq(Cell) /\ Len(s \o z) = 4 + 2
        /\ \A i \in 1..4 : (s \o z)[i] = s[i]
        /\ \A i \in 1..2 : (s \o z)[4 + i] = z[i]
    BY <2>0, <2>b
  <2>2. /\ \A i \in 1..4 : h[i] = s[i]
        /\ \A i \in 1..2 : h[4 + i] = z[i]
    BY <1>7, <2>1
  <2>3. /\ h[1] = s[1] /\ h[2] = s[2] /\ h[3] = s[3] /\ h[4] = s[4]
        /\ h[4 + 1] = z[1] /\ h[4 + 2] = z[2]
    BY <2>2
  <2> QED
    BY <1>7, <2>1, <2>3
<1> QED
  BY <1>1, <1>3, <1>4, <1>5, <1>6, <1>7, <1>8

LEMMA RetryTyped ==
    ASSUME Typed, Retry
    PROVE  Typed'
<1>1. PICK h : h = Cells(Hello[1]) \o Cells(Hello[2]) \o Cells(Hello[3])
  OBVIOUS
<1>2. h \in Seq(Cell)
  BY <1>1, HelloCells
<1>3. wire' \in Seq(Cell)
  <2>1. wire' = IF connected' THEN buf \o h ELSE <<>>
    <3>1. PICK x, y, z, b : x = Cells(Hello[1]) /\ y = Cells(Hello[2]) /\ z = Cells(Hello[3]) /\ b = buf
      OBVIOUS
    <3>2. x \in Seq(Cell) /\ y \in Seq(Cell) /\ z \in Seq(Cell) /\ b \in Seq(Cell)
      BY <3>1, CellsTyped DEF Tok, Typed, SenderTyped
    <3>3. b \o x \o y \o z = b \o (x \o y \o z)
      BY <3>2
    <3> QED
      BY <1>1, <3>1, <3>3 DEF Retry
  <2>2. buf \in Seq(Cell)
    BY DEF Typed, SenderTyped
  <2>3. buf \o h \in Seq(Cell)
    BY <1>2, <2>2, Joined
  <2> QED
    BY <2>1, <2>3
<1>4. SenderTyped'
  <2>1. connected' \in BOOLEAN /\ lost' = ~connected' /\ buf' = <<>>
    BY DEF Retry
  <2>2. buf' \in Seq(Cell) /\ Len(buf') = 0 /\ 0 < BufSize
    BY <2>1, WireAssumption
  <2> QED
    BY <1>3, <2>1, <2>2 DEF SenderTyped, Halved
<1>5. CallTyped'
  <2>1. hellos' \in 0..MaxHellos
    BY WireAssumption DEF Typed, CallTyped, Retry
  <2>2. expected' \in Seq(Made)
    BY DEF Retry
  <2> QED
    BY <2>1, <2>2 DEF Typed, CallTyped, Retry
<1>6. ViewTyped'
  <2>1. message' \in Seq(Tok \cup {Garbled})
    BY DEF Retry
  <2> QED
    BY <2>1 DEF Retry, ViewTyped, ViewStates
<1> QED
  BY <1>4, <1>5, <1>6 DEF Typed

LEMMA LoseTyped ==
    ASSUME Typed, Lose
    PROVE  Typed'
<1>1. wire' \in Seq(Cell)
  <2>1. PICK n \in 0..Len(wire) : wire' = SubSeq(wire, 1, n)
    BY DEF Lose
  <2>2. wire \in Seq(Cell)
    BY DEF Typed, SenderTyped
  <2> QED
    BY <2>1, <2>2, Cut
<1>2. SenderTyped'
  BY <1>1 DEF Typed, SenderTyped, Halved, Lose, senderVars
<1>3. CallTyped' /\ ViewTyped'
  BY DEF Typed, CallTyped, ViewTyped, Lose, senderVars, viewVars
<1> QED
  BY <1>2, <1>3 DEF Typed

\* Only an array announces more than one value.
LEMMA OwedTyped ==
    ASSUME NEW t \in Tok \cup {Garbled}, owed \in Nat
    PROVE  Owed(t) \in Nat
<1>1. CASE t = Ref
  <2>1. Ref[1] # "ARRAY"
    BY DEF Ref
  <2> QED
    BY <1>1, <2>1 DEF Owed
<1>2. ASSUME NEW n \in Nat, t = Arr(n)
      PROVE  Owed(t) \in Nat
  <2>1. t # Ref /\ t[1] = "ARRAY" /\ t[2] = n
    BY <1>2 DEF Arr, Ref
  <2> QED
    BY <2>1 DEF Owed
<1>3. ASSUME t # Ref, t[1] # "ARRAY"
      PROVE  Owed(t) \in Nat
  BY <1>3 DEF Owed
<1>4. t[1] = "ARRAY" => \E n \in Nat : t = Arr(n)
  <2>1. /\ \A f \in Events : Hdr(f)[1] # "ARRAY"
        /\ \A c \in Codes : End(c)[1] # "ARRAY"
    BY DEF Hdr, End
  <2>2. /\ Hello[1][1] # "ARRAY" /\ Hello[2][1] # "ARRAY" /\ Hello[3][1] # "ARRAY"
        /\ Garbled[1] # "ARRAY" /\ Ref[1] # "ARRAY"
    BY DEF Hello, Garbled, Ref
  <2> QED
    BY <2>1, <2>2, SingleToken DEF Tok, ParamTokens
<1> QED
  BY <1>1, <1>2, <1>3, <1>4

LEMMA ViewerReadsTyped ==
    ASSUME Typed, ViewerReads
    PROVE  Typed'
<1>1. wire \in Seq(Cell) /\ Len(wire) > 1 /\ wire' = SubSeq(wire, 3, Len(wire))
  BY DEF Typed, SenderTyped, ViewerReads
<1>2. wire' \in Seq(Cell)
  <2>1. 2 \in 0..Len(wire)
    BY <1>1
  <2>2. SubSeq(wire, 2 + 1, Len(wire)) \in Seq(Cell)
    BY <1>1, <2>1, Cut
  <2> QED
    BY <1>1, <2>2
<1>3. PICK t : t \in Tok \cup {Garbled}
               /\ \/ Setup(t) \/ Report(t) \/ StartMessage(t)
                  \/ Parameter(t) \/ FinishMessage(t) \/ Refuse(t)
  <2>1. PICK t : t = IF wire[1][2] = 1 THEN wire[1][1] ELSE Garbled
    OBVIOUS
  <2>2. wire[1] \in Cell
    BY <1>1
  <2>3. t \in Tok \cup {Garbled}
    BY <2>1, <2>2 DEF Cell
  <2> QED
    BY <2>1, <2>3 DEF ViewerReads
<1>4. SenderTyped'
  <2>1. lost' = (lost \/ viewState' = "Error")
    BY DEF ViewerReads
  <2> QED
    BY <1>2, <2>1 DEF Typed, SenderTyped, Halved, ViewerReads, senderVars
<1>5. CallTyped'
  BY DEF Typed, CallTyped, ViewerReads, senderVars
<1>6. ViewTyped'
  <2>1. message \in Seq(Tok \cup {Garbled}) /\ owed \in Nat /\ viewState \in ViewStates
    BY DEF Typed, ViewTyped
  <2>2. Append(message, t) \in Seq(Tok \cup {Garbled}) /\ <<t>> \in Seq(Tok \cup {Garbled})
    BY <1>3, <2>1
  <2>3. Owed(t) \in Nat
    BY <1>3, <2>1, OwedTyped
  <2>4. message' \in {message, <<>>, <<t>>, Append(message, t)} /\ owed' \in {owed, Owed(t)}
    BY <1>3 DEF Setup, Report, StartMessage, Parameter, FinishMessage, Refuse
  <2>5. viewState' \in {viewState, "Connected", "Unsupported", "Error"}
    BY <1>3 DEF Setup, Report, StartMessage, Parameter, FinishMessage, Refuse
  <2>6. message' \in Seq(Tok \cup {Garbled})
    <3>1. <<>> \in Seq(Tok \cup {Garbled})
      OBVIOUS
    <3> QED
      BY <2>1, <2>2, <2>4, <3>1
  <2>7. owed' \in Nat /\ viewState' \in ViewStates
    BY <2>1, <2>3, <2>4, <2>5 DEF ViewStates
  <2> QED
    BY <2>6, <2>7 DEF ViewTyped
<1> QED
  BY <1>4, <1>5, <1>6 DEF Typed

LEMMA ViewerEndsTyped ==
    ASSUME Typed, ViewerEnds
    PROVE  Typed'
<1>1. SenderTyped' /\ CallTyped'
  BY DEF Typed, SenderTyped, Halved, CallTyped, ViewerEnds, senderVars
<1>2. ViewTyped'
  BY DEF Typed, ViewTyped, ViewerEnds, ViewStates
<1> QED
  BY <1>1, <1>2 DEF Typed

LEMMA StillTyped ==
    ASSUME Typed, ReadBack \/ UNCHANGED vars
    PROVE  Typed'
  BY DEF Typed, SenderTyped, Halved, CallTyped, ViewTyped, ReadBack, vars, senderVars, viewVars

LEMMA NextTyped == Typed /\ [Next]_vars => Typed'
  BY BeginTyped, SkipTyped, WriteFieldTyped, WriteEndTyped, RetryTyped, LoseTyped,
     ViewerReadsTyped, ViewerEndsTyped, StillTyped DEF Next

(* The buffer never overflows, a broken connection leaves at most half a   *)
(* field in it, and the values the window still expects never go below     *)
(* nought, whatever garbage it reads.                                      *)
THEOREM WireTyped == Spec => []TypeOK
<1>1. Typed => TypeOK
  <2>1. ~connected /\ Typed => Len(buf) < 2
    <3>1. PICK b : b = buf
      OBVIOUS
    <3>2. b = <<>> => Len(b) < 2
      OBVIOUS
    <3>3. Len(b) = 1 => Len(b) < 2
      OBVIOUS
    <3> QED
      BY <3>1, <3>2, <3>3 DEF Typed, SenderTyped, Halved
  <2> QED
    BY <2>1 DEF Typed, SenderTyped, CallTyped, ViewTyped, ViewStates, TypeOK
<1> QED
  BY <1>1, InitTyped, NextTyped, PTL DEF Spec

-----------------------------------------------------------------------------
(* What the window shows, with the repetitions counted *)

Logs(X) == Seq([text : X, count : Nat \ {0}])

\* What saveLogEntry() makes of a log: the last entry counts once more, or
\* there is a new one.
Grown(log, text, new) ==
  /\ Len(log) \in Nat /\ \A j \in 1..(Len(log) - 1) : new[j] = log[j]
  /\ \/ /\ Len(log) > 0 /\ log[Len(log)].text = text /\ Len(new) = Len(log)
        /\ new[Len(log)] = [text |-> text, count |-> log[Len(log)].count + 1]
     \/ /\ Len(log) > 0 => new[Len(log)] = log[Len(log)]
        /\ Len(new) = Len(log) + 1
        /\ new[Len(log) + 1] = [text |-> text, count |-> 1]

LEMMA SavedGrows ==
    ASSUME NEW X, structured \in Logs(X), NEW text \in X
    PROVE  Saved(text) \in Logs(X) /\ Grown(structured, text, Saved(text))
<1> DEFINE Shape == [text : X, count : Nat \ {0}]
<1>a. PICK log : log = structured
  OBVIOUS
<1>0. log \in Seq(Shape) /\ Len(log) \in Nat /\ (log # <<>> <=> Len(log) > 0)
  BY <1>a DEF Logs
<1>1. CASE log # <<>> /\ log[Len(log)].text = text
  <2>1. PICK n : n = Len(log) /\ n \in Nat /\ n > 0
    BY <1>0, <1>1
  <2>a. PICK e : e = log[n]
    OBVIOUS
  <2>c. e \in Shape
    <3>1. n \in 1..Len(log)
      BY <2>1
    <3> HIDE DEF Shape
    <3> QED
      BY <1>0, <2>a, <3>1
  <2>2. e = log[n] /\ e \in Shape /\ e.text = text
    BY <1>1, <2>1, <2>a, <2>c
  <2>b. PICK f : f = [text |-> text, count |-> e.count + 1]
    OBVIOUS
  <2>3. f = [text |-> text, count |-> e.count + 1] /\ f \in Shape
    BY <2>2, <2>b
  <2>4. [e EXCEPT !.count = @ + 1] = f
    BY <2>2, <2>3
  <2>5. PICK new : new = [log EXCEPT ![n].count = @ + 1]
    OBVIOUS
  <2>6. new = [log EXCEPT ![n] = f]
    BY <2>2, <2>4, <2>5
  <2>7. new \in Seq(Shape) /\ Len(new) = n /\ new[n] = f /\ \A j \in 1..(n - 1) : new[j] = log[j]
    BY <1>0, <2>1, <2>3, <2>6
  <2>8. Saved(text) = new
    BY <1>a, <1>1, <2>1, <2>5 DEF Saved
  <2> QED
    BY <1>a, <2>1, <2>2, <2>3, <2>7, <2>8 DEF Logs, Grown
<1>2. CASE ~(log # <<>> /\ log[Len(log)].text = text)
  <2>a. PICK f : f = [text |-> text, count |-> 1]
    OBVIOUS
  <2>1. f = [text |-> text, count |-> 1] /\ f \in Shape
    BY <2>a
  <2>2. PICK new : new = Append(log, f)
    OBVIOUS
  <2>3. /\ new \in Seq(Shape) /\ Len(new) = Len(log) + 1 /\ new[Len(log) + 1] = f
        /\ \A j \in 1..Len(log) : new[j] = log[j]
    BY <1>0, <2>1, <2>2
  <2>4. Saved(text) = new
    BY <1>a, <1>2, <2>1, <2>2 DEF Saved
  <2>5. Len(log) > 0 => new[Len(log)] = log[Len(log)]
    BY <1>0, <2>3
  <2>6. \A j \in 1..(Len(log) - 1) : new[j] = log[j]
    BY <1>0, <2>3
  <2> QED
    BY <1>a, <1>0, <2>1, <2>3, <2>4, <2>5, <2>6 DEF Logs, Grown
<1> QED
  BY <1>1, <1>2

\* h[j] is the first j entries, each as often as it counts.
Copies(entry) == [i \in 1..entry.count |-> entry.text]
UnrolledBy(X, log, h) ==
  /\ h \in [0..Len(log) -> Seq(X)] /\ Len(log) \in Nat /\ h[0] = <<>>
  /\ \A j \in 1..Len(log) : h[j] = h[j - 1] \o Copies(log[j])
  /\ Unrolled(log) = h[Len(log)]

LEMMA CopiesTyped ==
    ASSUME NEW X, NEW e \in [text : X, count : Nat \ {0}]
    PROVE  /\ Copies(e) \in Seq(X) /\ Len(Copies(e)) = e.count
           /\ \A i \in 1..e.count : Copies(e)[i] = e.text
<1>1. e.text \in X /\ e.count \in Nat
  OBVIOUS
<1>2. PICK n, t : n = e.count /\ t = e.text
  OBVIOUS
<1>3. [i \in 1..n |-> t] \in Seq(X) /\ Len([i \in 1..n |-> t]) = n
  BY <1>1, <1>2
<1>4. \A i \in 1..n : [j \in 1..n |-> t][i] = t
  OBVIOUS
<1> QED
  BY <1>2, <1>3, <1>4 DEF Copies

LEMMA Unrolls ==
    ASSUME NEW X, NEW log \in Logs(X)
    PROVE  \E h : UnrolledBy(X, log, h)
<1> DEFINE n == Len(log)
           S == Seq(X)
           step == [x \in (1..n) \X S |-> x[2] \o Copies(log[x[1]])]
           Def(f) == f = [j \in 0..n |-> IF j = 0 THEN <<>> ELSE f[j - 1] \o Copies(log[j])]
<1>0. n \in Nat
  BY DEF Logs
<1>1. \A j \in 1..n : Copies(log[j]) \in S
  <2>1. ASSUME NEW j \in 1..n
        PROVE  Copies(log[j]) \in S
    <3> DEFINE Shape == [text : X, count : Nat \ {0}]
    <3>1. log \in Seq(Shape) /\ j \in 1..Len(log)
      BY DEF Logs
    <3>2. log[j] \in Shape
      <4> HIDE DEF Shape
      <4> QED
        BY <3>1
    <3> QED
      BY <3>2, CopiesTyped
  <2> QED
    BY <2>1
<1>2. <<>> \in S
  OBVIOUS
<1>3. \A j \in 1..n, l \in S : l \o Copies(log[j]) \in S
  BY <1>1
<1>4. step \in [(1..n) \X S -> S]
  <2>1. ASSUME NEW x \in (1..n) \X S
        PROVE  x[2] \o Copies(log[x[1]]) \in S
    <3>1. x[1] \in 1..n /\ x[2] \in S
      OBVIOUS
    <3> HIDE DEF S
    <3> QED
      BY <1>3, <3>1
  <2> HIDE DEF S
  <2> QED
    BY <2>1
<1> HIDE DEF S
<1>5. \A j \in 1..n, l \in S : step[<<j, l>>] = l \o Copies(log[j])
  OBVIOUS
<1> HIDE DEF step
<1>6. PICK g \in [0..n -> S] : g[0] = <<>> /\ \A j \in 1..n : g[j] = step[<<j, g[j - 1]>>]
  <2> HIDE DEF n
  <2>2. Steps(n, S, <<>>, step)
    BY <1>0, <1>2, <1>4, Recursion
  <2> QED
    BY <2>2 DEF Steps
<1>7. \E f : Def(f)
  <2> DEFINE k == [j \in 0..n |-> IF j = 0 THEN <<>> ELSE g[j - 1] \o Copies(log[j])]
  <2>1. ASSUME NEW j \in 0..n
        PROVE  g[j] = k[j]
    <3>1. CASE j = 0
      BY <1>6, <3>1
    <3>2. CASE j # 0
      <4>1. j \in 1..n /\ j - 1 \in 0..n /\ g[j - 1] \in S
        BY <1>0, <3>2
      <4> QED
        BY <1>5, <1>6, <3>2, <4>1
    <3> QED
      BY <3>1, <3>2
  <2>2. g = k
    BY <2>1
  <2> QED
    BY <2>2
<1>8. PICK f : Def(f) /\ Unrolled(log) = f[n]
  <2> DEFINE f == CHOOSE h : Def(h)
  <2>1. Def(f)
    BY <1>7
  <2>2. Unrolled(log) = f[n]
    BY DEF Unrolled, Copies
  <2> QED
    BY <2>1, <2>2
<1>9. f[0] = <<>> /\ \A j \in 1..n : f[j] = f[j - 1] \o Copies(log[j])
  <2> DEFINE k == [j \in 0..n |-> IF j = 0 THEN <<>> ELSE f[j - 1] \o Copies(log[j])]
  <2>1. f = k
    BY <1>8
  <2>2. k[0] = <<>> /\ \A j \in 1..n : k[j] = f[j - 1] \o Copies(log[j])
    <3> HIDE DEF n
    <3>1. 0 \in 0..n /\ \A j \in 1..n : j \in 0..n /\ j # 0
      BY <1>0
    <3> QED
      BY <3>1
  <2> HIDE DEF k
  <2> QED
    BY <2>1, <2>2
<1>10. \A j \in 0..n : f[j] \in S
  <2> DEFINE G == {j \in 0..n : f[j] \in S}
  <2>1. 0 \in G
    BY <1>0, <1>2, <1>9
  <2>2. ASSUME NEW j \in 1..n, j - 1 \in G
        PROVE  j \in G
    <3>1. f[j - 1] \in S
      BY <2>2
    <3>2. f[j] \in S
      BY <1>3, <1>9, <3>1
    <3> QED
      BY <3>2
  <2>3. 0..n \subseteq G
    <3> HIDE DEF G, n
    <3> QED
      BY <1>0, <2>1, <2>2, UpTo
  <2> QED
    BY <2>3
<1>11. f \in [0..n -> S]
  BY <1>8, <1>10
<1>12. UnrolledBy(X, log, f)
  BY <1>0, <1>8, <1>9, <1>11 DEF UnrolledBy, S
<1> QED
  BY <1>12

\* The logs agree on their first n entries, and are unrolled alike.
Agree(log, new, n) == \A j \in 1..n : new[j] = log[j]

LEMMA UnrolledAlike ==
    ASSUME NEW X, NEW log, NEW new, NEW h, NEW k, NEW n \in Nat,
           UnrolledBy(X, log, h), UnrolledBy(X, new, k), n <= Len(log), n <= Len(new),
           Agree(log, new, n)
    PROVE  k[n] = h[n]
<1> DEFINE S == {j \in 0..n : k[j] = h[j]}
<1>0. Len(log) \in Nat /\ Len(new) \in Nat
  BY DEF UnrolledBy
<1>1. 0 \in S
  BY DEF UnrolledBy
<1>2. ASSUME NEW j \in 1..n, j - 1 \in S
      PROVE  j \in S
  <2>1. j \in 1..Len(log) /\ j \in 1..Len(new) /\ k[j - 1] = h[j - 1]
    BY <1>0, <1>2
  <2>2. h[j] = h[j - 1] \o Copies(log[j]) /\ k[j] = k[j - 1] \o Copies(new[j])
    BY <2>1 DEF UnrolledBy
  <2>3. k[j] = h[j]
    BY <1>2, <2>1, <2>2 DEF Agree
  <2> QED
    BY <2>3
<1>3. 0..n \subseteq S
  <2> HIDE DEF S
  <2> QED
    BY <1>1, <1>2, UpTo
<1> QED
  BY <1>3

LEMMA MoreCopies ==
    ASSUME NEW X, NEW s \in Seq(X), NEW t \in X, NEW c \in Nat, NEW a, NEW b,
           a = [text |-> t, count |-> c], b = [text |-> t, count |-> c + 1]
    PROVE  s \o Copies(b) = Append(s \o Copies(a), t)
<1>1. PICK x, y : x = [i \in 1..c |-> t] /\ y = [i \in 1..(c + 1) |-> t]
  OBVIOUS
<1>2. x \in Seq(X) /\ y \in Seq(X) /\ Len(x) = c /\ Len(y) = c + 1
      /\ (\A i \in 1..c : x[i] = t) /\ (\A i \in 1..(c + 1) : y[i] = t)
  BY <1>1
<1>3. Copies(a) = x /\ Copies(b) = y
  BY <1>1 DEF Copies
<1>4. PICK z : z = Append(x, t)
  OBVIOUS
<1>5. z \in Seq(X) /\ Len(z) = c + 1 /\ z[c + 1] = t /\ \A i \in 1..c : z[i] = x[i]
  BY <1>2, <1>4
<1>6. \A i \in 1..(c + 1) : z[i] = y[i]
  BY <1>2, <1>5
<1>7. y = z
  BY <1>2, <1>5, <1>6
<1>8. s \o Append(x, t) = Append(s \o x, t)
  BY <1>2
<1> QED
  BY <1>3, <1>4, <1>7, <1>8

\* A saved text is shown once more, after all others.
LEMMA ShownGrows ==
    ASSUME NEW X, structured \in Logs(X), NEW t \in X, structured' = Saved(t)
    PROVE  /\ structured' \in Logs(X) /\ Shown \in Seq(X)
           /\ Shown' = Append(Shown, t)
<1>1. PICK log, new : log = structured /\ new = structured'
  OBVIOUS
<1>2. log \in Logs(X) /\ new \in Logs(X) /\ Grown(log, t, new)
  BY <1>1, SavedGrows
<1>3. PICK h, k : UnrolledBy(X, log, h) /\ UnrolledBy(X, new, k)
  BY <1>2, Unrolls
<1>4. PICK n : n = Len(log) /\ n \in Nat
  BY <1>2 DEF Grown
<1>5. /\ Shown = h[n] /\ Shown' = k[Len(new)]
      /\ h \in [0..n -> Seq(X)]
  BY <1>1, <1>3, <1>4 DEF UnrolledBy, Shown
<1>8. h[n] \in Seq(X)
  BY <1>4, <1>5
<1>6. CASE n > 0 /\ log[n].text = t /\ Len(new) = n
           /\ new[n] = [text |-> t, count |-> log[n].count + 1]
  <2>1. k[n - 1] = h[n - 1]
    <3>0. PICK m : m = n - 1
      OBVIOUS
    <3>1. m \in Nat /\ m <= Len(log) /\ m <= Len(new)
      BY <1>4, <1>6, <3>0
    <3>2. Agree(log, new, m)
      BY <1>2, <1>4, <3>0 DEF Grown, Agree
    <3>3. k[m] = h[m]
      BY <1>3, <3>1, <3>2, UnrolledAlike
    <3> QED
      BY <3>0, <3>3
  <2>2. h[n] = h[n - 1] \o Copies(log[n]) /\ k[n] = k[n - 1] \o Copies(new[n])
    <3>1. n \in 1..Len(log) /\ n \in 1..Len(new)
      BY <1>4, <1>6
    <3> QED
      BY <1>3, <3>1 DEF UnrolledBy
  <2>3. PICK e : e = log[n]
    OBVIOUS
  <2>4. e = [text |-> t, count |-> e.count] /\ e.count \in Nat
    <3> DEFINE Shape == [text : X, count : Nat \ {0}]
    <3>1. log \in Seq(Shape) /\ n \in 1..Len(log)
      BY <1>2, <1>4, <1>6 DEF Logs
    <3>2. log[n] \in Shape
      <4> HIDE DEF Shape
      <4> QED
        BY <3>1
    <3> QED
      BY <1>6, <2>3, <3>2
  <2>5. PICK s, c : s = h[n - 1] /\ c = e.count
    OBVIOUS
  <2>6. s \in Seq(X)
    <3>1. n - 1 \in 0..n
      BY <1>4, <1>6
    <3> QED
      BY <1>5, <2>5, <3>1
  <2>7. s \o Copies(new[n]) = Append(s \o Copies(e), t)
    <3>1. new[n] = [text |-> t, count |-> c + 1] /\ e = [text |-> t, count |-> c] /\ c \in Nat
      BY <1>6, <2>3, <2>4, <2>5
    <3> QED
      BY <2>6, <3>1, MoreCopies
  <2>8. k[n] = s \o Copies(new[n]) /\ h[n] = s \o Copies(e)
    BY <2>1, <2>2, <2>3, <2>5
  <2>9. k[n] = Append(h[n], t)
    BY <2>7, <2>8
  <2> QED
    BY <1>1, <1>2, <1>5, <1>6, <1>8, <2>9
<1>7. CASE /\ n > 0 => new[n] = log[n]
           /\ Len(new) = n + 1 /\ new[n + 1] = [text |-> t, count |-> 1]
  <2>1. k[n] = h[n]
    <3>1. n <= Len(log) /\ n <= Len(new)
      BY <1>4, <1>7
    <3>2. Agree(log, new, n)
      <4>1. \A j \in 1..(n - 1) : new[j] = log[j]
        BY <1>2, <1>4 DEF Grown
      <4> QED
        BY <1>4, <1>7, <4>1 DEF Agree
    <3> QED
      BY <1>3, <1>4, <3>1, <3>2, UnrolledAlike
  <2>2. k[n + 1] = k[n] \o Copies(new[n + 1])
    <3>0. PICK m : m = n + 1
      OBVIOUS
    <3>1. m \in 1..Len(new) /\ m - 1 = n
      BY <1>4, <1>7, <3>0
    <3>2. \A j \in 1..Len(new) : k[j] = k[j - 1] \o Copies(new[j])
      BY <1>3 DEF UnrolledBy
    <3>3. k[m] = k[m - 1] \o Copies(new[m])
      BY <3>1, <3>2
    <3> QED
      BY <3>0, <3>1, <3>3
  <2>3. PICK s : s = h[n] /\ s \in Seq(X)
    BY <1>4, <1>5
  <2>4. s \o Copies(new[n + 1]) = Append(s, t)
    <3>1. PICK x : x = [i \in 1..1 |-> t]
      OBVIOUS
    <3>2. x = <<t>>
      BY <3>1
    <3>3. Copies(new[n + 1]) = x
      BY <1>7, <3>1 DEF Copies
    <3>4. s \o <<t>> = Append(s, t)
      BY <2>3
    <3> QED
      BY <3>2, <3>3, <3>4
  <2>5. k[n + 1] = Append(h[n], t)
    BY <2>1, <2>2, <2>3, <2>4
  <2> QED
    BY <1>1, <1>2, <1>5, <1>7, <1>8, <2>5
<1> QED
  BY <1>2, <1>4, <1>6, <1>7 DEF Grown

LEMMA NothingShown ==
    ASSUME NEW log, log = <<>>
    PROVE  Unrolled(log) = <<>> /\ \A X : log \in Logs(X)
<1>2. \A X : log \in Logs(X)
  BY DEF Logs
<1>3. PICK h : UnrolledBy({}, log, h)
  BY <1>2, Unrolls
<1>4. Len(log) = 0
  OBVIOUS
<1> QED
  BY <1>2, <1>3, <1>4 DEF UnrolledBy

-----------------------------------------------------------------------------
(* What is under way: the fields from where the window has read up to      *)
(* where the wrapper has written, each as its two cells                    *)

\* The calls that have begun, and all that is said on a connection.
Begun == IF todo = <<>> THEN expected ELSE Append(expected, call)
Unit(b, n) == IF n <= 3 THEN <<Hello[n]>> ELSE Text(b[n - 3])

\* A place is a unit and a field of it.
Places == Nat \X Nat
Token(b, place) == Unit(b, place[1])[place[2]]
Succ(b, place) ==
  IF place[2] < Len(Unit(b, place[1])) THEN <<place[1], place[2] + 1>> ELSE <<place[1] + 1, 1>>

\* td is what the last of the calls has still to write.
Rest(td, text) ==
  Len(td) <= Len(text) /\ \A i \in 1..Len(td) : td[i] = text[Len(text) - Len(td) + i]
WritePlace(b, td) ==
  IF td = <<>> THEN <<Len(b) + 4, 1>> ELSE <<Len(b) + 3, Len(Text(b[Len(b)])) - Len(td) + 1>>
Written(b, td, place) ==
  /\ place[1] \in 1..(Len(b) + 3) /\ place[2] \in 1..Len(Unit(b, place[1]))
  /\ td # <<>> /\ place[1] = Len(b) + 3 => place[2] <= Len(Unit(b, place[1])) - Len(td)

\* p are the places under way and the next; only of a broken connection cells are missing.
Chain(p, b, td) ==
  \A m \in 1..(Len(p) - 1) : Written(b, td, p[m]) /\ p[m + 1] = Succ(b, p[m])
Carries(p, b, line) ==
  \A m \in 1..(Len(p) - 1) :
    /\ 2 * m - 1 <= Len(line) => line[2 * m - 1] = <<Token(b, p[m]), 1>>
    /\ 2 * m <= Len(line) => line[2 * m] = <<Token(b, p[m]), 2>>
Flow(p, b, td, gone, line, place) ==
  /\ p \in Seq(Places) /\ Len(p) > 0 /\ p[1] = place
  /\ Chain(p, b, td) /\ Carries(p, b, line)
  /\ Len(line) <= 2 * (Len(p) - 1)
  /\ ~gone => p[Len(p)] = WritePlace(b, td) /\ Len(line) = 2 * (Len(p) - 1)

LEMMA UnitTyped ==
    ASSUME NEW b \in Seq(Made), NEW n \in 1..(Len(b) + 3)
    PROVE  Unit(b, n) \in Seq(Tok) /\ Len(Unit(b, n)) \in Nat /\ Len(Unit(b, n)) > 0
<1>1. CASE n <= 3
  <2>1. PICK t : t = Hello[n]
    OBVIOUS
  <2>2. t \in Tok
    <3>1. n \in {1, 2, 3}
      BY <1>1
    <3> QED
      BY <2>1, <3>1 DEF Tok
  <2>3. <<t>> \in Seq(Tok) /\ Len(<<t>>) = 1
    BY <2>2
  <2> QED
    BY <1>1, <2>1, <2>3 DEF Unit
<1>2. CASE n > 3
  <2>1. n - 3 \in 1..Len(b)
    BY <1>2
  <2>2. PICK c : c = b[n - 3] /\ c \in Made
    BY <2>1
  <2>3. Text(c) \in Seq(Tok) /\ Len(Text(c)) = Len(c.args) + 2 /\ Len(c.args) \in Nat
    BY <2>2, TextTyped
  <2>4. Text(c) \in Seq(Tok) /\ Len(Text(c)) \in Nat /\ Len(Text(c)) > 0
    BY <2>3
  <2>5. Unit(b, n) = Text(c)
    BY <1>2, <2>2 DEF Unit
  <2> QED
    BY <2>4, <2>5
<1> QED
  BY <1>1, <1>2

\* A call that has begun, and a field written, leave what was written where it was.
Keeps(b, td, c, ud) ==
  \A x \in Places : Written(b, td, x) => Written(c, ud, x) /\ Unit(c, x[1]) = Unit(b, x[1])

LEMMA FlowKept ==
    ASSUME NEW p, NEW b, NEW td, NEW c, NEW ud, NEW gone, NEW line, NEW x,
           Flow(p, b, td, gone, line, x), Keeps(b, td, c, ud),
           ~gone => WritePlace(c, ud) = WritePlace(b, td)
    PROVE  Flow(p, c, ud, gone, line, x)
<1>1. p \in Seq(Places) /\ Chain(p, b, td) /\ Carries(p, b, line)
  BY DEF Flow
<1>2. ASSUME NEW m \in 1..(Len(p) - 1)
      PROVE  /\ Written(c, ud, p[m]) /\ p[m + 1] = Succ(c, p[m])
             /\ Token(c, p[m]) = Token(b, p[m])
  <2>1. PICK y : y = p[m] /\ y \in Places
    BY <1>1
  <2>2. Written(b, td, y) /\ p[m + 1] = Succ(b, y)
    BY <1>1, <2>1 DEF Chain
  <2>3. Written(c, ud, y) /\ Unit(c, y[1]) = Unit(b, y[1])
    BY <2>1, <2>2 DEF Keeps
  <2>4. Succ(c, y) = Succ(b, y) /\ Token(c, y) = Token(b, y)
    BY <2>3 DEF Succ, Token
  <2> QED
    BY <2>1, <2>2, <2>3, <2>4
<1>3. Chain(p, c, ud)
  BY <1>2 DEF Chain
<1>4. Carries(p, c, line)
  BY <1>1, <1>2 DEF Carries
<1> QED
  BY <1>3, <1>4 DEF Flow

LEMMA FlowBegins ==
    ASSUME NEW b \in Seq(Made), NEW c \in Made, NEW p, NEW gone, NEW line, NEW x,
           Flow(p, b, <<>>, gone, line, x)
    PROVE  Flow(p, Append(b, c), Text(c), gone, line, x)
<1>1. PICK d, t, n : d = Append(b, c) /\ t = Text(c) /\ n = Len(b)
  OBVIOUS
<1>2. d \in Seq(Made) /\ Len(d) = n + 1 /\ d[n + 1] = c /\ n \in Nat /\ \A i \in 1..n : d[i] = b[i]
  BY <1>1
<1>3. t \in Seq(Tok) /\ Len(t) \in Nat /\ Len(t) > 0
  BY <1>1, TextTyped
<1>4. ASSUME NEW y \in Places, Written(b, <<>>, y)
      PROVE  Written(d, t, y) /\ Unit(d, y[1]) = Unit(b, y[1])
  <2>1. PICK u, i : u = y[1] /\ i = y[2]
    OBVIOUS
  <2>2. u \in 1..(n + 3) /\ i \in 1..Len(Unit(b, u))
    BY <1>1, <1>4, <2>1 DEF Written
  <2>3. Unit(d, u) = Unit(b, u)
    <3>1. CASE u <= 3
      BY <3>1 DEF Unit
    <3>2. CASE ~(u <= 3)
      <4>1. u - 3 \in 1..n
        BY <1>2, <2>2, <3>2
      <4>2. d[u - 3] = b[u - 3]
        BY <1>2, <4>1
      <4> QED
        BY <3>2, <4>2 DEF Unit
    <3> QED
      BY <3>1, <3>2
  <2>4. u \in 1..(Len(d) + 3) /\ u # Len(d) + 3
    BY <1>2, <2>2
  <2> QED
    BY <2>1, <2>2, <2>3, <2>4 DEF Written
<1>5. Keeps(b, <<>>, d, t)
  BY <1>4 DEF Keeps
<1>6. WritePlace(d, t) = WritePlace(b, <<>>)
  <2>1. WritePlace(b, <<>>) = <<n + 4, 1>>
    BY <1>1 DEF WritePlace
  <2>2. t # <<>> /\ Text(d[Len(d)]) = t
    BY <1>1, <1>2, <1>3
  <2>3. WritePlace(d, t) = <<Len(d) + 3, Len(t) - Len(t) + 1>>
    BY <2>2 DEF WritePlace
  <2>4. Len(d) + 3 = n + 4 /\ Len(t) - Len(t) + 1 = 1
    BY <1>2, <1>3
  <2> QED
    BY <2>1, <2>3, <2>4
<1> QED
  BY <1>1, <1>5, <1>6, FlowKept

\* A field of a call is written, or skipped.
LEMMA FieldKept ==
    ASSUME NEW b, NEW td, NEW X, td \in Seq(X), td # <<>>
    PROVE  Keeps(b, td, b, Tail(td))
<1>0. PICK n, ud : n = Len(td) /\ ud = Tail(td)
  OBVIOUS
<1>1. n = Len(td) /\ n \in Nat /\ ud = Tail(td) /\ Len(ud) = n - 1 /\ n > 0
  BY <1>0
<1>2. ASSUME NEW y \in Places, Written(b, td, y)
      PROVE  Written(b, ud, y)
  <2>1. PICK u, i, k, l : u = y[1] /\ i = y[2] /\ k = Len(b) + 3 /\ l = Len(Unit(b, u))
    OBVIOUS
  <2>2. u \in 1..k /\ i \in 1..l /\ (u = k => i <= l - n)
    BY <1>1, <1>2, <2>1 DEF Written
  <2>3. u = k => i <= l - (n - 1)
    <3>1. CASE l \in Int
      BY <1>1, <2>2, <3>1
    <3>2. CASE l \notin Int
      BY <2>1, <2>2, <3>2
    <3> QED
      BY <3>1, <3>2
  <2> QED
    BY <1>1, <2>1, <2>2, <2>3 DEF Written
<1> QED
  BY <1>1, <1>2 DEF Keeps

LEMMA FlowSkips ==
    ASSUME NEW b, NEW td, NEW X, td \in Seq(X), td # <<>>, NEW p, NEW line, NEW x,
           Flow(p, b, td, TRUE, line, x)
    PROVE  Flow(p, b, Tail(td), TRUE, line, x)
  BY FieldKept, FlowKept

\* The next field of a call is at the writer's place, which moves on.
LEMMA WriterMoves ==
    ASSUME NEW b \in Seq(Made), Len(b) > 0, NEW td \in Seq(Tok), td # <<>>,
           Rest(td, Text(b[Len(b)]))
    PROVE  LET x == WritePlace(b, td)
           IN /\ x \in Places /\ Written(b, Tail(td), x) /\ Token(b, x) = Head(td)
              /\ Succ(b, x) = WritePlace(b, Tail(td)) /\ Succ(b, x) \in Places
<1>1. PICK k, c, t, l, n : /\ k = Len(b) + 3 /\ c = b[Len(b)] /\ t = Text(c)
                           /\ l = Len(t) /\ n = Len(td)
  OBVIOUS
<1>2. c \in Made /\ k \in Nat /\ k > 3 /\ k - 3 = Len(b) /\ n \in Nat /\ n > 0
  BY <1>1
<1>3. t \in Seq(Tok) /\ l \in Nat
  BY <1>1, <1>2, TextTyped
<1>4. n <= l /\ td[1] = t[l - n + 1]
  <2>1. 1 \in 1..n /\ Rest(td, t)
    BY <1>1, <1>2
  <2> QED
    BY <1>1, <2>1 DEF Rest
<1>5. PICK i, x : i = l - n + 1 /\ x = <<k, i>>
  OBVIOUS
<1>6. i \in 1..l /\ x \in Places /\ x[1] = k /\ x[2] = i
  <2>1. i \in 1..l /\ i \in Nat
    BY <1>2, <1>3, <1>4, <1>5
  <2>2. x[1] = k /\ x[2] = i
    BY <1>5
  <2>3. <<k, i>> \in Nat \X Nat
    BY <1>2, <2>1
  <2> QED
    BY <1>5, <2>1, <2>2, <2>3 DEF Places
<1>7. x = WritePlace(b, td)
  BY <1>1, <1>5 DEF WritePlace
<1>8. Unit(b, k) = t
  <2>1. ~(k <= 3) /\ b[k - 3] = c
    BY <1>1, <1>2
  <2> QED
    BY <1>1, <2>1 DEF Unit
<1>9. PICK ud : ud = Tail(td) /\ Len(ud) = n - 1 /\ (ud = <<>> <=> n = 1)
  <2>1. PICK ud : ud = Tail(td)
    OBVIOUS
  <2>2. ud \in Seq(Tok) /\ Len(ud) = n - 1
    BY <1>1, <2>1
  <2>3. ud = <<>> <=> n = 1
    BY <1>2, <2>2
  <2> QED
    BY <2>1, <2>2, <2>3
<1>10. Written(b, ud, x)
  <2>1. x[1] \in 1..(Len(b) + 3)
    BY <1>1, <1>2, <1>6
  <2>2. i <= l - (n - 1)
    BY <1>2, <1>3, <1>5
  <2> QED
    BY <1>1, <1>6, <1>8, <1>9, <2>1, <2>2 DEF Written
<1>11. Token(b, x) = Head(td)
  <2>1. Head(td) = td[1]
    OBVIOUS
  <2> QED
    BY <1>4, <1>5, <1>6, <1>8, <2>1 DEF Token
<1>12. Succ(b, x) = WritePlace(b, ud) /\ Succ(b, x) \in Places
  <2>1. CASE n = 1
    <3>1. i = l /\ ud = <<>>
      BY <1>3, <1>5, <1>9, <2>1
    <3>2. Succ(b, x) = <<k + 1, 1>>
      BY <1>1, <1>3, <1>6, <1>8, <3>1 DEF Succ
    <3>3. WritePlace(b, ud) = <<Len(b) + 4, 1>> /\ Len(b) + 4 = k + 1
      BY <1>1, <1>2, <3>1 DEF WritePlace
    <3>4. <<k + 1, 1>> \in Nat \X Nat
      BY <1>2
    <3> QED
      BY <3>2, <3>3, <3>4 DEF Places
  <2>2. CASE n # 1
    <3>1. i < l /\ ud # <<>>
      BY <1>2, <1>3, <1>4, <1>5, <1>9, <2>2
    <3>2. Succ(b, x) = <<k, i + 1>>
      BY <1>1, <1>3, <1>6, <1>8, <3>1 DEF Succ
    <3>3. WritePlace(b, ud) = <<k, l - (n - 1) + 1>>
      BY <1>1, <1>9, <3>1 DEF WritePlace
    <3>4. l - (n - 1) + 1 = i + 1 /\ i + 1 \in Nat
      BY <1>2, <1>3, <1>4, <1>5
    <3>5. <<k, i + 1>> \in Nat \X Nat
      BY <1>2, <3>4
    <3> QED
      BY <3>2, <3>3, <3>4, <3>5 DEF Places
  <2> QED
    BY <2>1, <2>2
<1> QED
  BY <1>6, <1>7, <1>9, <1>10, <1>11, <1>12

LEMMA FlowWrites ==
    ASSUME NEW b \in Seq(Made), Len(b) > 0, NEW td \in Seq(Tok), td # <<>>,
           Rest(td, Text(b[Len(b)])), NEW line \in Seq(Cell), NEW p, NEW x,
           Flow(p, b, td, FALSE, line, x)
    PROVE  \E q : Flow(q, b, Tail(td), FALSE, line \o Cells(Head(td)), x)
<1>1. PICK ud, h, w, v : /\ ud = Tail(td) /\ h = Head(td)
                         /\ w = WritePlace(b, td) /\ v = WritePlace(b, ud)
  OBVIOUS
<1>2. /\ w \in Places /\ v \in Places /\ Written(b, ud, w) /\ Token(b, w) = h /\ Succ(b, w) = v
  BY <1>1, WriterMoves
<1>3. h \in Tok
  BY <1>1
<1>4. Keeps(b, td, b, ud)
  BY <1>1, FieldKept
<1>5. PICK k : k = Len(p) /\ k \in Nat /\ k > 0
  <2>1. p \in Seq(Places) /\ Len(p) > 0
    BY DEF Flow
  <2> QED
    BY <2>1
<1>6. /\ p \in Seq(Places) /\ p[1] = x /\ p[k] = w /\ Len(line) = 2 * (k - 1)
      /\ Chain(p, b, td) /\ Carries(p, b, line)
  BY <1>1, <1>5 DEF Flow
<1>7. PICK q : q = Append(p, v)
  OBVIOUS
<1>8. /\ q \in Seq(Places) /\ Len(q) = k + 1 /\ q[k + 1] = v /\ \A m \in 1..k : q[m] = p[m]
  BY <1>2, <1>5, <1>6, <1>7
<1>9. PICK c, new : c = Cells(h) /\ new = line \o c
  OBVIOUS
<1>10. c \in Seq(Cell) /\ Len(c) = 2 /\ c[1] = <<h, 1>> /\ c[2] = <<h, 2>>
  BY <1>3, <1>9, CellsTyped
<1>11. /\ Len(new) = 2 * k
       /\ \A i \in 1..(2 * (k - 1)) : new[i] = line[i]
       /\ new[2 * k - 1] = <<h, 1>> /\ new[2 * k] = <<h, 2>>
  <2>1. /\ Len(line \o c) = Len(line) + Len(c)
        /\ \A i \in 1..Len(line) : (line \o c)[i] = line[i]
        /\ \A i \in 1..Len(c) : (line \o c)[Len(line) + i] = c[i]
    <3>1. c \in Seq(Cell)
      BY <1>10
    <3> QED
      BY <3>1, Joined
  <2>2. /\ Len(new) = 2 * (k - 1) + 2
        /\ \A i \in 1..(2 * (k - 1)) : new[i] = line[i]
        /\ \A i \in 1..2 : new[2 * (k - 1) + i] = c[i]
    BY <1>6, <1>9, <1>10, <2>1
  <2>3. 2 * (k - 1) + 2 = 2 * k /\ 2 * (k - 1) + 1 = 2 * k - 1
    BY <1>5
  <2>4. new[2 * (k - 1) + 1] = c[1] /\ new[2 * (k - 1) + 2] = c[2]
    BY <2>2
  <2> QED
    BY <1>10, <2>2, <2>3, <2>4
<1>12. Chain(q, b, ud)
  <2>1. ASSUME NEW m \in 1..k
        PROVE  Written(b, ud, q[m]) /\ q[m + 1] = Succ(b, q[m])
    <3>1. CASE m = k
      BY <1>2, <1>5, <1>6, <1>8, <3>1
    <3>2. CASE m # k
      <4>1. m \in 1..(Len(p) - 1) /\ m + 1 \in 1..k
        BY <1>5, <3>2
      <4>2. PICK y : y = p[m] /\ y \in Places
        BY <1>5, <1>6
      <4>3. Written(b, td, y) /\ p[m + 1] = Succ(b, y)
        BY <1>6, <4>1, <4>2 DEF Chain
      <4>4. Written(b, ud, y)
        BY <1>4, <4>2, <4>3 DEF Keeps
      <4> QED
        BY <1>8, <4>1, <4>2, <4>3, <4>4
    <3> QED
      BY <3>1, <3>2
  <2>2. Len(q) - 1 = k
    BY <1>5, <1>8
  <2> QED
    BY <2>1, <2>2 DEF Chain
<1>13. Carries(q, b, new)
  <2>1. ASSUME NEW m \in 1..k
        PROVE  new[2 * m - 1] = <<Token(b, q[m]), 1>> /\ new[2 * m] = <<Token(b, q[m]), 2>>
    <3>1. CASE m = k
      BY <1>2, <1>5, <1>6, <1>8, <1>11, <3>1
    <3>2. CASE m # k
      <4>1. m \in 1..(k - 1) /\ 2 * m \in 1..(2 * (k - 1)) /\ 2 * m - 1 \in 1..(2 * (k - 1))
        BY <1>5, <3>2
      <4>2. line[2 * m - 1] = <<Token(b, p[m]), 1>> /\ line[2 * m] = <<Token(b, p[m]), 2>>
        BY <1>5, <1>6, <4>1 DEF Carries
      <4>3. new[2 * m - 1] = line[2 * m - 1] /\ new[2 * m] = line[2 * m]
        BY <1>11, <4>1
      <4> QED
        BY <1>8, <4>2, <4>3
    <3> QED
      BY <3>1, <3>2
  <2>2. Len(q) - 1 = k
    BY <1>5, <1>8
  <2> QED
    BY <2>1, <2>2 DEF Carries
<1>14. Flow(q, b, ud, FALSE, new, x)
  <2>1. q[1] = x /\ q[Len(q)] = v /\ Len(new) = 2 * (Len(q) - 1) /\ Len(q) > 0
        /\ Len(new) <= 2 * (Len(q) - 1)
    BY <1>5, <1>6, <1>8, <1>11
  <2> QED
    BY <1>1, <1>8, <1>12, <1>13, <2>1 DEF Flow
<1> QED
  BY <1>1, <1>9, <1>14

\* A connection breaks and cells at the end are lost.
LEMMA FlowCut ==
    ASSUME NEW b, NEW td, NEW gone, NEW line, NEW new, NEW p, NEW x,
           Flow(p, b, td, gone, line, x), Len(line) \in Nat, Len(new) \in Nat,
           Len(new) <= Len(line), \A i \in 1..Len(new) : new[i] = line[i]
    PROVE  Flow(p, b, td, TRUE, new, x)
<1>1. PICK k : k = Len(p) /\ k \in Nat /\ k > 0
  <2>1. p \in Seq(Places) /\ Len(p) > 0
    BY DEF Flow
  <2> QED
    BY <2>1
<1>2. Len(line) <= 2 * (k - 1) /\ Carries(p, b, line)
  BY <1>1 DEF Flow
<1>3. Carries(p, b, new)
  <2>1. ASSUME NEW m \in 1..(k - 1)
        PROVE  /\ 2 * m - 1 <= Len(new) => new[2 * m - 1] = <<Token(b, p[m]), 1>>
               /\ 2 * m <= Len(new) => new[2 * m] = <<Token(b, p[m]), 2>>
    <3>1. /\ 2 * m - 1 <= Len(new) => 2 * m - 1 \in 1..Len(new) /\ 2 * m - 1 <= Len(line)
          /\ 2 * m <= Len(new) => 2 * m \in 1..Len(new) /\ 2 * m <= Len(line)
      BY <1>1
    <3>2. /\ 2 * m - 1 <= Len(line) => line[2 * m - 1] = <<Token(b, p[m]), 1>>
          /\ 2 * m <= Len(line) => line[2 * m] = <<Token(b, p[m]), 2>>
      BY <1>1, <1>2 DEF Carries
    <3> QED
      BY <3>1, <3>2
  <2> QED
    BY <1>1, <2>1 DEF Carries
<1>4. Len(new) <= 2 * (k - 1)
  BY <1>1, <1>2
<1> QED
  BY <1>1, <1>3, <1>4 DEF Flow

\* The window reads a field: the one at its place, whole.
LEMMA FlowReads ==
    ASSUME NEW b, NEW td, NEW gone, NEW line \in Seq(Cell), NEW p, NEW x,
           Flow(p, b, td, gone, line, x), Len(line) > 1
    PROVE  /\ x \in Places /\ Written(b, td, x) /\ line[1] = <<Token(b, x), 1>>
           /\ \E q : Flow(q, b, td, gone, SubSeq(line, 3, Len(line)), Succ(b, x))
<1>0. PICK k, l : k = Len(p) /\ l = Len(line)
  OBVIOUS
<1>1. k = Len(p) /\ k \in Nat /\ l = Len(line) /\ l \in Nat /\ l > 1
  <2>1. p \in Seq(Places)
    BY DEF Flow
  <2> QED
    BY <1>0, <2>1
<1>2. /\ p \in Seq(Places) /\ p[1] = x /\ l <= 2 * (k - 1)
      /\ Chain(p, b, td) /\ Carries(p, b, line)
      /\ ~gone => p[k] = WritePlace(b, td) /\ l = 2 * (k - 1)
  BY <1>1 DEF Flow
<1>3. k > 1 /\ 1 \in 1..(k - 1)
  BY <1>1, <1>2
<1>4. x \in Places
  BY <1>1, <1>2, <1>3
<1>5. Written(b, td, x) /\ p[2] = Succ(b, x)
  <2>1. Written(b, td, p[1]) /\ p[1 + 1] = Succ(b, p[1])
    BY <1>1, <1>2, <1>3 DEF Chain
  <2> QED
    BY <1>2, <2>1
<1>6. line[1] = <<Token(b, x), 1>>
  <2>1. 2 * 1 - 1 <= l => line[2 * 1 - 1] = <<Token(b, p[1]), 1>>
    BY <1>1, <1>2, <1>3 DEF Carries
  <2> QED
    BY <1>1, <1>2, <2>1
<1>7. PICK q : q = Tail(p)
  OBVIOUS
<1>8. q \in Seq(Places) /\ Len(q) = k - 1 /\ \A m \in 1..(k - 1) : q[m] = p[m + 1]
  BY <1>1, <1>2, <1>3, <1>7
<1>9. PICK new : new = SubSeq(line, 2 + 1, l)
  OBVIOUS
<1>10. Len(new) = l - 2 /\ \A i \in 1..(l - 2) : new[i] = line[2 + i]
  <2>1. 2 \in 0..Len(line)
    BY <1>1
  <2>2. /\ Len(SubSeq(line, 2 + 1, Len(line))) = Len(line) - 2
        /\ \A i \in 1..(Len(line) - 2) : SubSeq(line, 2 + 1, Len(line))[i] = line[2 + i]
    BY <2>1, Cut
  <2> QED
    BY <1>1, <1>9, <2>2
<1>11. Chain(q, b, td)
  <2>1. ASSUME NEW m \in 1..(k - 2)
        PROVE  Written(b, td, q[m]) /\ q[m + 1] = Succ(b, q[m])
    <3>1. PICK n : n = m + 1 /\ n \in 1..(k - 1) /\ n + 1 \in 1..k /\ m \in 1..(k - 1)
      BY <1>1, <1>3
    <3>2. Written(b, td, p[n]) /\ p[n + 1] = Succ(b, p[n])
      BY <1>1, <1>2, <3>1 DEF Chain
    <3>3. q[m] = p[n] /\ q[n] = p[n + 1]
      BY <1>8, <3>1
    <3> QED
      BY <3>1, <3>2, <3>3
  <2>2. Len(q) - 1 = k - 2
    BY <1>1, <1>8
  <2> QED
    BY <2>1, <2>2 DEF Chain
<1>12. Carries(q, b, new)
  <2>1. ASSUME NEW m \in 1..(k - 2)
        PROVE  /\ 2 * m - 1 <= l - 2 => new[2 * m - 1] = <<Token(b, q[m]), 1>>
               /\ 2 * m <= l - 2 => new[2 * m] = <<Token(b, q[m]), 2>>
    <3>0. PICK n, i, j : n = m + 1 /\ i = 2 * m - 1 /\ j = 2 * m
      OBVIOUS
    <3>1. /\ n = m + 1 /\ n \in 1..(k - 1) /\ m \in 1..(k - 1)
          /\ 2 * n - 1 = 2 + i /\ 2 * n = 2 + j /\ i \in Nat /\ j \in Nat /\ i > 0 /\ j > 0
      BY <1>1, <1>3, <3>0
    <3>2. /\ 2 * n - 1 <= l => line[2 * n - 1] = <<Token(b, p[n]), 1>>
          /\ 2 * n <= l => line[2 * n] = <<Token(b, p[n]), 2>>
      BY <1>1, <1>2, <3>1 DEF Carries
    <3>3. q[m] = p[n]
      BY <1>8, <3>1
    <3>4. /\ i <= l - 2 => new[i] = line[2 + i] /\ 2 * n - 1 <= l
          /\ j <= l - 2 => new[j] = line[2 + j] /\ 2 * n <= l
      BY <1>1, <1>10, <3>1
    <3>5. /\ i <= l - 2 => new[i] = <<Token(b, q[m]), 1>>
          /\ j <= l - 2 => new[j] = <<Token(b, q[m]), 2>>
      BY <3>1, <3>2, <3>3, <3>4
    <3> QED
      BY <3>0, <3>5
  <2>2. Len(q) - 1 = k - 2 /\ Len(new) = l - 2
    BY <1>1, <1>8, <1>10
  <2> QED
    BY <2>1, <2>2 DEF Carries
<1>13. Flow(q, b, td, gone, new, Succ(b, x))
  <2>1. /\ Len(q) > 0 /\ q[1] = Succ(b, x)
        /\ Len(new) <= 2 * (Len(q) - 1)
        /\ l = 2 * (k - 1) => Len(new) = 2 * (Len(q) - 1)
        /\ q[Len(q)] = p[k]
    <3>1. 1 \in 1..(k - 1) /\ k - 1 \in 1..(k - 1) /\ 1 + 1 = 2 /\ k - 1 + 1 = k
      BY <1>1, <1>3
    <3>2. q[1] = p[1 + 1] /\ q[k - 1] = p[k - 1 + 1]
      BY <1>8, <3>1
    <3> QED
      BY <1>1, <1>2, <1>3, <1>5, <1>8, <1>10, <3>1, <3>2
  <2> QED
    BY <1>2, <1>8, <1>11, <1>12, <2>1 DEF Flow
<1> QED
  BY <1>1, <1>4, <1>5, <1>6, <1>9, <1>13

-----------------------------------------------------------------------------
(* The invariant of the window, when no connection is made during a call   *)

\* The texts of the log: the two names of the handshake, and the calls.
Texts == {Hello[2], Hello[3]} \cup {Text(c) : c \in Made}
Shows(b, k) == IF k <= 2 THEN Hello[k + 1] ELSE Text(b[k - 2])

\* What the window has of call c, and the values it still owes.
Partial(c, msg, state, ow) ==
  /\ Len(msg) <= Len(Text(c)) /\ \A i \in 1..Len(msg) : msg[i] = Text(c)[i]
  /\ state = "Error" => Len(msg) < Len(Text(c)) \/ c.code \notin KnownCodes
  /\ state \in {"Setup", "Connected"} =>
       Len(msg) < Len(Text(c)) /\ \A o : ParseOf(c.args, o) => ow = o[Len(msg) - 1]

\* The window has shown the first of the calls b, of which n have returned, and no others.
ViewOK(b, n, shown, msg, state, ow) ==
  /\ Len(shown) <= 2 + n /\ \A k \in 1..Len(shown) : shown[k] = Shows(b, k)
  /\ msg = <<>> => state # "Error" /\ (state \in {"Setup", "Connected"} => ow = 0)
  /\ msg # <<>> => /\ Len(shown) >= 2 /\ Len(shown) - 1 <= Len(b)
                   /\ Partial(b[Len(shown) - 1], msg, state, ow)

ViewPlace == IF viewState = "Setup" THEN <<1, 1>> ELSE <<Len(Shown) + 2, Len(message) + 1>>
Line == IF lost THEN wire ELSE wire \o buf

\* Half a field came before the handshake: the window will not understand it.
Doomed == viewState = "Setup" /\ (wire # <<>> => wire[1][2] = 2) /\ (wire = <<>> => lost)

LogInv ==
  /\ structured \in Logs(Texts)
  /\ viewState = "Setup" => structured = <<>> /\ message = <<>>
ViewInv == ViewOK(Begun, Len(expected), Shown, message, viewState, owed)
FlowInv == Reading => Doomed \/ \E p : Flow(p, Begun, todo, lost, Line, ViewPlace)
TodoInv == todo # <<>> => Rest(todo, Text(call))
Tracks == Typed /\ TodoInv /\ LogInv /\ ViewInv /\ FlowInv

LEMMA BegunTyped ==
    ASSUME Typed
    PROVE  /\ Begun \in Seq(Made) /\ expected \in Seq(Made) /\ Len(expected) \in Nat
           /\ todo = <<>> => Begun = expected
           /\ todo # <<>> => Len(Begun) = Len(expected) + 1 /\ Begun[Len(Begun)] = call
<1>1. expected \in Seq(Made) /\ (todo # <<>> => call \in Made)
  BY DEF Typed, CallTyped
<1>2. CASE todo = <<>>
  BY <1>1, <1>2 DEF Begun
<1>3. CASE todo # <<>>
  <2>1. PICK e, c, b : e = expected /\ c = call /\ b = Append(e, c)
    OBVIOUS
  <2>2. b \in Seq(Made) /\ Len(b) = Len(e) + 1 /\ b[Len(e) + 1] = c /\ Len(e) \in Nat
    BY <1>1, <1>3, <2>1
  <2>3. Begun = b
    BY <1>3, <2>1 DEF Begun
  <2> QED
    BY <1>1, <1>3, <2>1, <2>2, <2>3
<1> QED
  BY <1>2, <1>3

\* More calls do not change what has been shown.
Extends(b, d) == Len(b) \in Nat /\ Len(d) \in Nat /\ Len(b) <= Len(d) /\ \A i \in 1..Len(b) : d[i] = b[i]

LEMMA ViewExtends ==
    ASSUME NEW b, NEW d, NEW n \in Nat, NEW m \in Nat, NEW shown, NEW msg, NEW state, NEW ow,
           ViewOK(b, n, shown, msg, state, ow), Extends(b, d), n <= Len(b), n <= m,
           Len(shown) \in Nat
    PROVE  ViewOK(d, m, shown, msg, state, ow)
<1>1. PICK l : l = Len(shown) /\ l \in Nat
  OBVIOUS
<1>2. l <= 2 + n /\ \A k \in 1..l : shown[k] = Shows(b, k)
  BY <1>1 DEF ViewOK
<1>3. l <= 2 + m
  BY <1>1, <1>2
<1>4. ASSUME NEW k \in 1..l
      PROVE  shown[k] = Shows(d, k)
  <2>1. CASE k <= 2
    BY <1>2, <2>1 DEF Shows
  <2>2. CASE ~(k <= 2)
    <3>1. k - 2 \in 1..Len(b)
      BY <1>1, <1>2, <2>2 DEF Extends
    <3>2. d[k - 2] = b[k - 2]
      BY <3>1 DEF Extends
    <3> QED
      BY <1>2, <2>2, <3>2 DEF Shows
  <2> QED
    BY <2>1, <2>2
<1>5. ASSUME msg # <<>>
      PROVE  l >= 2 /\ l - 1 <= Len(d) /\ Partial(d[l - 1], msg, state, ow)
  <2>1. l >= 2 /\ l - 1 <= Len(b) /\ Partial(b[l - 1], msg, state, ow)
    BY <1>1, <1>5 DEF ViewOK
  <2>2. l - 1 \in 1..Len(b) /\ l - 1 <= Len(d)
    BY <1>1, <2>1 DEF Extends
  <2>3. d[l - 1] = b[l - 1]
    BY <2>2 DEF Extends
  <2> QED
    BY <2>1, <2>2, <2>3
<1>6. msg = <<>> => state # "Error" /\ (state \in {"Setup", "Connected"} => ow = 0)
  BY DEF ViewOK
<1> QED
  BY <1>1, <1>3, <1>4, <1>5, <1>6 DEF ViewOK

LEMMA ShownTyped ==
    ASSUME LogInv
    PROVE  Shown \in Seq(Texts) /\ Len(Shown) \in Nat
<1>1. PICK h : UnrolledBy(Texts, structured, h)
  BY Unrolls DEF LogInv
<1>2. Shown \in Seq(Texts)
  <2>1. PICK n : n = Len(structured) /\ n \in Nat
    BY <1>1 DEF UnrolledBy
  <2>2. h \in [0..n -> Seq(Texts)] /\ Shown = h[n]
    BY <1>1, <2>1 DEF UnrolledBy, Shown
  <2> QED
    BY <2>1, <2>2
<1> QED
  BY <1>2

\* The calls go on; the window does nothing.
LEMMA ViewStays ==
    ASSUME Tracks, UNCHANGED viewVars, Extends(Begun, Begun'), Len(expected') \in Nat,
           Len(expected) <= Len(expected')
    PROVE  LogInv' /\ ViewInv' /\ ViewPlace' = ViewPlace /\ Reading' = Reading
<1>1. /\ viewState' = viewState /\ message' = message /\ owed' = owed /\ structured' = structured
  BY DEF viewVars
<1>2. LogInv'
  BY <1>1 DEF Tracks, LogInv
<1>3. Shown' = Shown
  BY <1>1 DEF Shown
<1>4. Len(Shown) \in Nat /\ Len(expected) \in Nat /\ Len(expected) <= Len(Begun)
  <2>1. Len(Shown) \in Nat
    BY ShownTyped DEF Tracks
  <2>2. Len(expected) \in Nat /\ (Begun = expected \/ Len(Begun) = Len(expected) + 1)
    BY BegunTyped DEF Tracks
  <2> QED
    BY <2>1, <2>2
<1>5. PICK d, m : d = Begun' /\ m = Len(expected')
  OBVIOUS
<1>6. ViewOK(d, m, Shown, message, viewState, owed)
  BY <1>4, <1>5, ViewExtends DEF Tracks, ViewInv
<1>7. ViewInv'
  BY <1>1, <1>3, <1>5, <1>6 DEF ViewInv
<1>8. ViewPlace' = ViewPlace /\ Reading' = Reading
  BY <1>1, <1>3 DEF ViewPlace, Reading
<1> QED
  BY <1>2, <1>7, <1>8

LEMMA BeginTracks ==
    ASSUME Tracks, Begin
    PROVE  Tracks'
<1>1. PICK b, c, d : b = Begun /\ c = call' /\ d = Begun'
  OBVIOUS
<1>2. c \in Made /\ todo = <<>> /\ todo' = Text(c) /\ expected' = expected
  BY <1>1, BeginCall DEF Begin, Text
<1>3. Typed' /\ b \in Seq(Made) /\ b = expected /\ Len(expected) \in Nat
  BY <1>1, <1>2, BeginTyped, BegunTyped DEF Tracks
<1>4. Text(c) # <<>>
  <2>1. Text(c) \in Seq(Tok) /\ Len(Text(c)) = Len(c.args) + 2 /\ Len(c.args) \in Nat
    BY <1>2, TextTyped
  <2> QED
    BY <2>1
<1>5. d = Append(b, c)
  BY <1>1, <1>2, <1>3, <1>4 DEF Begun
<1>6. Extends(b, d)
  BY <1>2, <1>3, <1>5 DEF Extends
<1>7. LogInv' /\ ViewInv' /\ ViewPlace' = ViewPlace /\ Reading' = Reading
  <2>1. Extends(Begun, Begun')
    BY <1>1, <1>6
  <2> QED
    BY <1>2, <1>3, <2>1, ViewStays DEF Begin
<1>8. TodoInv'
  <2>1. PICK t : t = Text(c) /\ t \in Seq(Tok)
    BY <1>2, TextTyped
  <2>2. Len(t) \in Nat /\ \A i \in 1..Len(t) : t[i] = t[Len(t) - Len(t) + i]
    BY <2>1
  <2>3. Rest(t, t)
    BY <2>2 DEF Rest
  <2> QED
    BY <1>1, <1>2, <2>1, <2>3 DEF TodoInv
<1>9. FlowInv'
  <2>1. wire' = wire /\ lost' = lost /\ buf' = buf /\ viewState' = viewState
    BY DEF Begin, viewVars
  <2>2. Line' = Line
    BY <2>1 DEF Line
  <2>3. ASSUME Reading, ~Doomed
        PROVE  \E p : Flow(p, d, todo', lost', Line', ViewPlace')
    <3>1. PICK p : Flow(p, b, <<>>, lost, Line, ViewPlace)
      BY <1>1, <1>2, <2>3 DEF Tracks, FlowInv
    <3>2. Flow(p, Append(b, c), Text(c), lost, Line, ViewPlace)
      BY <1>2, <1>3, <3>1, FlowBegins
    <3> QED
      BY <1>2, <1>5, <1>7, <2>1, <2>2, <3>2
  <2>4. Doomed => Doomed'
    BY <2>1 DEF Doomed
  <2> QED
    BY <1>1, <1>7, <2>3, <2>4 DEF FlowInv
<1> QED
  BY <1>3, <1>7, <1>8, <1>9 DEF Tracks

LEMMA RestTail ==
    ASSUME NEW X, NEW td \in Seq(X), td # <<>>, NEW t \in Seq(X), Rest(td, t)
    PROVE  Rest(Tail(td), t)
<1>1. PICK n, l, ud : n = Len(td) /\ l = Len(t) /\ ud = Tail(td)
  OBVIOUS
<1>2. /\ n \in Nat /\ n > 0 /\ l \in Nat /\ n <= l /\ Len(ud) = n - 1
      /\ \A i \in 1..(n - 1) : ud[i] = td[i + 1]
  BY <1>1 DEF Rest
<1>3. ASSUME NEW i \in 1..(n - 1)
      PROVE  ud[i] = t[l - (n - 1) + i]
  <2>1. i + 1 \in 1..n /\ l - n + (i + 1) = l - (n - 1) + i
    BY <1>2
  <2>2. td[i + 1] = t[l - n + (i + 1)]
    BY <1>1, <2>1 DEF Rest
  <2> QED
    BY <1>2, <2>1, <2>2
<1>4. Len(ud) <= l
  BY <1>2
<1> QED
  BY <1>1, <1>2, <1>3, <1>4 DEF Rest

\* A call goes on by a field.
LEMMA CallGoesOn ==
    ASSUME Tracks, Proceed,
           expected' = IF Len(todo) = 1 THEN Append(expected, call) ELSE expected
    PROVE  /\ TodoInv' /\ LogInv' /\ ViewInv' /\ ViewPlace' = ViewPlace /\ Reading' = Reading
           /\ Begun' = Begun /\ Begun \in Seq(Made) /\ Len(Begun) > 0
           /\ todo \in Seq(Tok) /\ todo # <<>> /\ Rest(todo, Text(Begun[Len(Begun)]))
<1>1. PICK e, c, b, td, ud : e = expected /\ c = call /\ b = Begun /\ td = todo /\ ud = todo'
  OBVIOUS
<1>2. /\ td \in Seq(Tok) /\ td # <<>> /\ ud = Tail(td) /\ call' = c
      /\ e \in Seq(Made) /\ c \in Made /\ Rest(td, Text(c))
  BY <1>1 DEF Tracks, Typed, CallTyped, Proceed, TodoInv
<1>3. b = Append(e, c)
  BY <1>1, <1>2 DEF Begun
<1>4. /\ b \in Seq(Made) /\ Len(b) = Len(e) + 1 /\ b[Len(b)] = c /\ Len(e) \in Nat
  BY <1>2, <1>3
<1>5. ud \in Seq(Tok) /\ Len(ud) = Len(td) - 1 /\ Len(td) \in Nat /\ Len(td) > 0
      /\ (ud = <<>> <=> Len(td) = 1)
  <2>1. ud \in Seq(Tok) /\ Len(ud) = Len(td) - 1 /\ Len(td) \in Nat /\ Len(td) > 0
    BY <1>2
  <2>2. ud = <<>> <=> Len(ud) = 0
    BY <2>1
  <2> QED
    BY <2>1, <2>2
<1>6. Begun' = b
  <2>1. CASE Len(td) = 1
    BY <1>1, <1>3, <1>5, <2>1 DEF Begun
  <2>2. CASE Len(td) # 1
    <3>1. ud # <<>> /\ expected' = e
      BY <1>1, <1>5, <2>2
    <3> QED
      BY <1>1, <1>2, <1>3, <3>1 DEF Begun
  <2> QED
    BY <2>1, <2>2
<1>7. TodoInv'
  <2>1. Text(c) \in Seq(Tok)
    BY <1>2, TextTyped
  <2>2. Rest(ud, Text(c))
    BY <1>2, <2>1, RestTail
  <2> QED
    BY <1>1, <1>2, <2>2 DEF TodoInv
<1>8. LogInv' /\ ViewInv' /\ ViewPlace' = ViewPlace /\ Reading' = Reading
  <2>1. Extends(Begun, Begun')
    BY <1>1, <1>4, <1>6 DEF Extends
  <2>2. Len(expected') \in Nat /\ Len(expected) <= Len(expected')
    <3>1. expected' \in {e, b}
      BY <1>1, <1>3
    <3> QED
      BY <1>1, <1>4, <3>1
  <2> QED
    BY <2>1, <2>2, ViewStays DEF Proceed
<1> QED
  BY <1>1, <1>2, <1>4, <1>6, <1>7, <1>8

LEMMA SkipTracks ==
    ASSUME Tracks, Skip
    PROVE  Tracks'
<1>1. /\ Proceed /\ expected' = IF Len(todo) = 1 THEN Append(expected, call) ELSE expected
      /\ wire' = wire /\ buf' = buf /\ lost' = lost /\ ~connected /\ todo' = Tail(todo)
      /\ viewState' = viewState
  BY DEF Skip, Proceed, viewVars
<1>2. /\ TodoInv' /\ LogInv' /\ ViewInv' /\ ViewPlace' = ViewPlace /\ Reading' = Reading
      /\ Begun' = Begun /\ todo \in Seq(Tok) /\ todo # <<>>
  BY <1>1, CallGoesOn
<1>3. Typed' /\ lost = TRUE
  <2>1. lost \in BOOLEAN /\ (~lost => connected)
    BY DEF Tracks, Typed, SenderTyped
  <2> QED
    BY <1>1, <2>1, SkipTyped DEF Tracks
<1>4. Line' = Line
  BY <1>1 DEF Line
<1>5. ASSUME Reading, ~Doomed
      PROVE  \E p : Flow(p, Begun', todo', lost', Line', ViewPlace')
  <2>1. PICK p : Flow(p, Begun, todo, TRUE, Line, ViewPlace)
    BY <1>3, <1>5 DEF Tracks, FlowInv
  <2>2. Flow(p, Begun, Tail(todo), TRUE, Line, ViewPlace)
    BY <1>2, <2>1, FlowSkips
  <2> QED
    BY <1>1, <1>2, <1>3, <1>4, <2>2
<1>6. Doomed => Doomed'
  BY <1>1 DEF Doomed
<1>7. FlowInv'
  BY <1>2, <1>5, <1>6 DEF FlowInv
<1> QED
  BY <1>2, <1>3, <1>7 DEF Tracks

\* A field is written: into the buffer, or with it onto the wire.
LEMMA FieldTracks ==
    ASSUME Tracks, Proceed, Typed', lost' = lost, NEW c, c = Cells(Head(todo)),
           expected' = IF Len(todo) = 1 THEN Append(expected, call) ELSE expected,
           lost => wire' = wire, ~lost => wire' \o buf' = (wire \o buf) \o c,
           wire' = wire \/ \E s \in Seq(Cell) : wire' = wire \o s
    PROVE  Tracks'
<1>1. /\ TodoInv' /\ LogInv' /\ ViewInv' /\ ViewPlace' = ViewPlace /\ Reading' = Reading
      /\ Begun' = Begun /\ Begun \in Seq(Made) /\ Len(Begun) > 0
      /\ todo \in Seq(Tok) /\ todo # <<>> /\ Rest(todo, Text(Begun[Len(Begun)]))
  BY CallGoesOn
<1>2. /\ todo' = Tail(todo) /\ viewState' = viewState
      /\ wire \in Seq(Cell) /\ buf \in Seq(Cell) /\ lost \in BOOLEAN
  BY DEF Proceed, viewVars, Tracks, Typed, SenderTyped
<1>3. Line \in Seq(Cell)
  <2>1. wire \o buf \in Seq(Cell)
    BY <1>2, Joined
  <2> QED
    BY <1>2, <2>1 DEF Line
<1>4. ASSUME Reading, ~Doomed
      PROVE  \E p : Flow(p, Begun', todo', lost', Line', ViewPlace')
  <2>1. PICK p : Flow(p, Begun, todo, lost, Line, ViewPlace)
    BY <1>4 DEF Tracks, FlowInv
  <2>2. CASE lost
    <3>1. lost = TRUE /\ Line' = Line
      BY <1>2, <2>2 DEF Line
    <3>2. Flow(p, Begun, Tail(todo), TRUE, Line, ViewPlace)
      BY <1>1, <2>1, <3>1, FlowSkips
    <3> QED
      BY <1>1, <1>2, <3>1, <3>2
  <2>3. CASE ~lost
    <3>1. lost = FALSE /\ Line = wire \o buf /\ Line' = Line \o c
      BY <1>2, <2>3 DEF Line
    <3>2. PICK q : Flow(q, Begun, Tail(todo), FALSE, Line \o c, ViewPlace)
      BY <1>1, <1>3, <2>1, <3>1, FlowWrites
    <3> QED
      BY <1>1, <1>2, <3>1, <3>2
  <2> QED
    BY <2>2, <2>3
<1>5. Doomed => Doomed'
  <2>1. SUFFICES ASSUME Doomed
                 PROVE  Doomed'
    OBVIOUS
  <2>2. CASE wire' = wire
    BY <1>2, <2>1, <2>2 DEF Doomed
  <2>3. CASE wire' # wire
    <3>1. PICK s \in Seq(Cell) : wire' = wire \o s
      BY <2>3
    <3>2. ~lost /\ wire # <<>> /\ wire[1][2] = 2
      BY <2>1, <2>3 DEF Doomed
    <3>3. PICK w, v : w = wire /\ v = wire'
      OBVIOUS
    <3>4. w \in Seq(Cell) /\ w # <<>> /\ v = w \o s
      BY <1>2, <3>1, <3>2, <3>3
    <3>5. v # <<>> /\ v[1] = w[1]
      BY <3>4
    <3> QED
      BY <1>2, <2>1, <3>2, <3>3, <3>5 DEF Doomed
  <2> QED
    BY <2>2, <2>3
<1>6. FlowInv'
  BY <1>1, <1>4, <1>5 DEF FlowInv
<1> QED
  BY <1>1, <1>6 DEF Tracks

LEMMA WriteFieldTracks ==
    ASSUME Tracks, WriteField
    PROVE  Tracks'
<1>1. /\ Proceed /\ connected /\ Fill(Cells(Head(todo))) /\ expected' = expected /\ lost' = lost
      /\ Len(todo) > 1 /\ Typed /\ todo \in Seq(Tok)
  BY DEF WriteField, Proceed, Tracks, Typed, CallTyped
<1>2. Head(todo) \in Tok
  BY <1>1, ProceedTyped
<1>3. PICK c : c = Cells(Head(todo))
  OBVIOUS
<1>4. /\ lost => wire' = wire
      /\ ~lost => wire' \o buf' = (wire \o buf) \o c
      /\ wire' = wire \/ \E s \in Seq(Cell) : wire' = wire \o s
  BY <1>1, <1>2, <1>3, Filled
<1>5. expected' = IF Len(todo) = 1 THEN Append(expected, call) ELSE expected
  <2>1. PICK n : n = Len(todo)
    OBVIOUS
  <2>2. n \in Nat /\ n > 1
    BY <1>1, <2>1
  <2>3. n # 1
    BY <2>2
  <2> QED
    BY <1>1, <2>1, <2>3
<1>6. Typed'
  BY <1>1, WriteFieldTyped
<1> QED
  BY <1>1, <1>3, <1>4, <1>5, <1>6, FieldTracks

LEMMA WriteEndTracks ==
    ASSUME Tracks, WriteEnd
    PROVE  Tracks'
<1>1. /\ Proceed /\ connected /\ Send(buf \o Cells(Head(todo))) /\ buf' = <<>>
      /\ expected' = Append(expected, call) /\ lost' = lost /\ Len(todo) = 1 /\ Typed
  BY DEF WriteEnd, Proceed, Tracks
<1>2. Head(todo) \in Tok
  BY <1>1, ProceedTyped
<1>3. PICK c : c = Cells(Head(todo))
  OBVIOUS
<1>4. /\ lost => wire' = wire
      /\ ~lost => wire' \o buf' = (wire \o buf) \o c
      /\ wire' = wire \/ \E s \in Seq(Cell) : wire' = wire \o s
  BY <1>1, <1>2, <1>3, Flushed
<1>5. expected' = IF Len(todo) = 1 THEN Append(expected, call) ELSE expected
  BY <1>1
<1>6. Typed'
  BY <1>1, WriteEndTyped
<1> QED
  BY <1>1, <1>3, <1>4, <1>5, <1>6, FieldTracks

\* A new connection: the handshake is under way, or nothing is.
LEMMA FlowHello ==
    ASSUME NEW h \in Seq(Cell), Len(h) = 6,
           h[1] = <<Hello[1], 1>>, h[2] = <<Hello[1], 2>>, h[3] = <<Hello[2], 1>>,
           h[4] = <<Hello[2], 2>>, h[5] = <<Hello[3], 1>>, h[6] = <<Hello[3], 2>>
    PROVE  \E p : Flow(p, <<>>, <<>>, FALSE, h, <<1, 1>>)
<1>1. PICK b : b = <<>>
  OBVIOUS
<1>2. Len(b) = 0
  BY <1>1
<1>3. PICK p : p = << <<1, 1>>, <<2, 1>>, <<3, 1>>, <<4, 1>> >>
  OBVIOUS
<1>4. /\ Len(p) = 4 /\ p[1] = <<1, 1>> /\ p[2] = <<2, 1>> /\ p[3] = <<3, 1>> /\ p[4] = <<4, 1>>
      /\ p \in Seq(Places)
  BY <1>3 DEF Places
<1>5. ASSUME NEW m \in 1..3
      PROVE  /\ p[m] = <<m, 1>> /\ p[m + 1] = <<m + 1, 1>>
             /\ h[2 * m - 1] = <<Hello[m], 1>> /\ h[2 * m] = <<Hello[m], 2>>
  <2>1. m = 1 \/ m = 2 \/ m = 3
    OBVIOUS
  <2>2. CASE m = 1
    BY <1>4, <2>2
  <2>3. CASE m = 2
    BY <1>4, <2>3
  <2>4. CASE m = 3
    BY <1>4, <2>4
  <2> QED
    BY <2>1, <2>2, <2>3, <2>4
<1>6. ASSUME NEW m \in 1..3
      PROVE  /\ Written(b, b, p[m]) /\ p[m + 1] = Succ(b, p[m])
             /\ Token(b, p[m]) = Hello[m]
  <2>1. PICK x, t, u : x = p[m] /\ t = Hello[m] /\ u = <<t>>
    OBVIOUS
  <2>2. x[1] = m /\ x[2] = 1 /\ Len(u) = 1 /\ u[1] = t /\ p[m + 1] = <<m + 1, 1>>
    BY <1>5, <2>1
  <2>3. Unit(b, m) = u
    BY <2>1 DEF Unit
  <2>4. Unit(b, x[1]) = u /\ ~(x[2] < Len(u))
    BY <2>2, <2>3
  <2>5. x[1] \in 1..(Len(b) + 3) /\ x[2] \in 1..Len(u)
    BY <1>2, <2>2
  <2>6. Written(b, b, x)
    BY <1>1, <2>4, <2>5 DEF Written
  <2>7. Succ(b, x) = <<m + 1, 1>> /\ Token(b, x) = t
    BY <2>2, <2>4 DEF Succ, Token
  <2> QED
    BY <2>1, <2>2, <2>6, <2>7
<1>7. Len(p) - 1 = 3
  BY <1>4
<1>8. Chain(p, b, b)
  BY <1>6, <1>7 DEF Chain
<1>9. Carries(p, b, h)
  BY <1>5, <1>6, <1>7 DEF Carries
<1>10. p[Len(p)] = WritePlace(b, b)
  BY <1>1, <1>2, <1>4 DEF WritePlace
<1>11. Flow(p, b, b, FALSE, h, <<1, 1>>)
  <2>1. Len(p) > 0 /\ Len(h) = 2 * (Len(p) - 1) /\ Len(h) <= 2 * (Len(p) - 1)
    BY <1>4
  <2> QED
    BY <1>4, <1>8, <1>9, <1>10, <2>1 DEF Flow
<1> QED
  BY <1>1, <1>11

LEMMA FlowNothing == \E p : Flow(p, <<>>, <<>>, TRUE, <<>>, <<1, 1>>)
<1>1. PICK p, b : p = << <<1, 1>> >> /\ b = <<>>
  OBVIOUS
<1>2. Len(p) = 1 /\ p[1] = <<1, 1>> /\ p \in Seq(Places) /\ Len(b) = 0
  BY <1>1 DEF Places
<1>3. \A m \in 1..(Len(p) - 1) : FALSE
  BY <1>2
<1>4. Chain(p, b, b) /\ Carries(p, b, b)
  BY <1>3 DEF Chain, Carries
<1>5. Flow(p, b, b, TRUE, b, <<1, 1>>)
  BY <1>2, <1>4 DEF Flow
<1> QED
  BY <1>1, <1>5

LEMMA RetryTracks ==
    ASSUME Tracks, Retry, ~Overlapping
    PROVE  Tracks'
<1>1. /\ ~connected /\ todo = <<>> /\ todo' = <<>> /\ expected' = <<>> /\ structured' = <<>>
      /\ message' = <<>> /\ owed' = 0 /\ viewState' = "Setup" /\ buf' = <<>>
      /\ connected' \in BOOLEAN /\ lost' = ~connected'
  BY DEF Retry
<1>2. Typed' /\ wire' \in Seq(Cell) /\ Halved /\ buf \in Seq(Cell)
  BY <1>1, RetryTyped DEF Tracks, Typed, SenderTyped
<1>3. Begun' = <<>>
  BY <1>1 DEF Begun
<1>4. structured' \in Logs(Texts) /\ Shown' = <<>>
  <2>1. PICK log : log = <<>>
    OBVIOUS
  <2>2. Unrolled(log) = <<>> /\ log \in Logs(Texts)
    BY <2>1, NothingShown
  <2> QED
    BY <1>1, <2>1, <2>2 DEF Shown
<1>5. LogInv' /\ TodoInv'
  BY <1>1, <1>4 DEF LogInv, TodoInv
<1>6. ViewInv'
  <2>1. PICK e : e = <<>> /\ Len(e) = 0
    OBVIOUS
  <2>2. ViewOK(e, 0, e, e, "Setup", 0)
    BY <2>1 DEF ViewOK
  <2> QED
    BY <1>1, <1>3, <1>4, <2>1, <2>2 DEF ViewInv
<1>7. ViewPlace' = <<1, 1>>
  BY <1>1 DEF ViewPlace
<1>8. PICK h : h = Cells(Hello[1]) \o Cells(Hello[2]) \o Cells(Hello[3])
  OBVIOUS
<1>9. h \in Seq(Cell) /\ wire' = IF connected' THEN buf \o h ELSE <<>>
  <2>1. PICK x, y, z, b : x = Cells(Hello[1]) /\ y = Cells(Hello[2]) /\ z = Cells(Hello[3]) /\ b = buf
    OBVIOUS
  <2>2. x \in Seq(Cell) /\ y \in Seq(Cell) /\ z \in Seq(Cell) /\ b \in Seq(Cell)
    BY <1>2, <2>1, CellsTyped DEF Tok
  <2>3. b \o x \o y \o z = b \o (x \o y \o z)
    BY <2>2
  <2> QED
    BY <1>8, <2>1, <2>3, HelloCells DEF Retry
<1>10. CASE ~connected'
  <2>1. lost' = TRUE /\ wire' = <<>> /\ Line' = <<>>
    BY <1>1, <1>9, <1>10 DEF Line
  <2>2. FlowInv'
    BY <1>1, <1>3, <1>7, <2>1, FlowNothing DEF FlowInv
  <2> QED
    BY <1>2, <1>5, <1>6, <2>2 DEF Tracks
<1>11. CASE connected' /\ buf = <<>>
  <2>1. lost' = FALSE /\ wire' = <<>> \o h /\ buf' = <<>>
    BY <1>1, <1>9, <1>11
  <2>2. <<>> \o h = h /\ h \o <<>> = h
    BY <1>9
  <2>3. Line' = h
    BY <2>1, <2>2 DEF Line
  <2>4. \E p : Flow(p, <<>>, <<>>, FALSE, h, <<1, 1>>)
    <3>1. /\ Len(h) = 6 /\ h[1] = <<Hello[1], 1>> /\ h[2] = <<Hello[1], 2>> /\ h[3] = <<Hello[2], 1>>
          /\ h[4] = <<Hello[2], 2>> /\ h[5] = <<Hello[3], 1>> /\ h[6] = <<Hello[3], 2>>
      BY <1>8, HelloCells
    <3> QED
      BY <1>9, <3>1, FlowHello
  <2>5. FlowInv'
    BY <1>1, <1>3, <1>7, <2>1, <2>3, <2>4 DEF FlowInv
  <2> QED
    BY <1>2, <1>5, <1>6, <2>5 DEF Tracks
<1>12. CASE connected' /\ buf # <<>>
  <2>1. PICK b, v : b = buf /\ v = b \o h
    OBVIOUS
  <2>2. Len(b) = 1 /\ b[1][2] = 2 /\ b \in Seq(Cell)
    BY <1>2, <1>12, <2>1 DEF Halved
  <2>3. v # <<>> /\ v[1] = b[1]
    <3>1. b \in Seq(Cell) /\ h \in Seq(Cell)
      BY <1>9, <2>2
    <3>2. Len(v) = Len(b) + Len(h) /\ Len(h) \in Nat /\ \A i \in 1..Len(b) : v[i] = b[i]
      BY <2>1, <3>1, Joined
    <3>3. Len(v) > 0 /\ v[1] = b[1]
      BY <2>2, <3>2
    <3> QED
      BY <3>3
  <2>4. wire' = v
    BY <1>9, <1>12, <2>1
  <2>5. Doomed'
    BY <1>1, <2>2, <2>3, <2>4 DEF Doomed
  <2>6. FlowInv'
    BY <2>5 DEF FlowInv
  <2> QED
    BY <1>2, <1>5, <1>6, <2>6 DEF Tracks
<1> QED
  BY <1>10, <1>11, <1>12

LEMMA LoseTracks ==
    ASSUME Tracks, Lose
    PROVE  Tracks'
<1>1. /\ ~lost /\ lost' = TRUE /\ todo' = todo /\ call' = call /\ expected' = expected
      /\ UNCHANGED viewVars /\ viewState' = viewState /\ structured' = structured
  BY DEF Lose, senderVars, viewVars
<1>2. Typed' /\ wire \in Seq(Cell) /\ buf \in Seq(Cell)
  BY LoseTyped DEF Tracks, Typed, SenderTyped
<1>3. Begun' = Begun
  BY <1>1 DEF Begun
<1>4. TodoInv'
  BY <1>1 DEF Tracks, TodoInv
<1>5. LogInv' /\ ViewInv' /\ ViewPlace' = ViewPlace /\ Reading' = Reading
  BY <1>1, <1>3 DEF Tracks, LogInv, ViewInv, ViewPlace, Reading, viewVars, Shown
<1>6. PICK n \in 0..Len(wire) : wire' = SubSeq(wire, 1, n)
  BY DEF Lose
<1>7. PICK w, v, l : w = wire /\ v = wire' /\ l = w \o buf
  OBVIOUS
<1>8. w \in Seq(Cell) /\ Len(v) = n /\ Len(w) \in Nat /\ \A i \in 1..n : v[i] = w[i]
  BY <1>2, <1>6, <1>7, Cut
<1>9. n \in Nat /\ n <= Len(w)
  BY <1>6, <1>7, <1>8
<1>10. Len(l) \in Nat /\ n <= Len(l) /\ \A i \in 1..n : v[i] = l[i]
  <2>1. Len(l) = Len(w) + Len(buf) /\ Len(buf) \in Nat /\ \A i \in 1..Len(w) : l[i] = w[i]
    BY <1>2, <1>7, Joined
  <2> QED
    BY <1>8, <1>9, <2>1
<1>11. Line = l /\ Line' = v
  BY <1>1, <1>7 DEF Line
<1>12. ASSUME Reading, ~Doomed
       PROVE  \E p : Flow(p, Begun', todo', lost', Line', ViewPlace')
  <2>1. PICK p : Flow(p, Begun, todo, lost, Line, ViewPlace)
    BY <1>12 DEF Tracks, FlowInv
  <2>2. Flow(p, Begun, todo, TRUE, v, ViewPlace)
    BY <1>8, <1>9, <1>10, <1>11, <2>1, FlowCut
  <2> QED
    BY <1>1, <1>3, <1>5, <1>11, <2>2
<1>13. Doomed => Doomed'
  <2>1. v # <<>> => Len(v) > 0
    <3>1. v \in Seq(Cell)
      BY <1>2, <1>6, <1>7, Cut
    <3> QED
      BY <3>1
  <2>2. v # <<>> => w # <<>> /\ v[1] = w[1]
    <3>1. w = <<>> => Len(w) = 0
      OBVIOUS
    <3> QED
      BY <1>8, <1>9, <2>1, <3>1
  <2> QED
    BY <1>1, <1>7, <2>2 DEF Doomed
<1>14. FlowInv'
  BY <1>5, <1>12, <1>13 DEF FlowInv
<1> QED
  BY <1>2, <1>4, <1>5, <1>14 DEF Tracks

LEMMA ViewerEndsTracks ==
    ASSUME Tracks, ViewerEnds
    PROVE  Tracks'
<1>1. /\ Reading /\ UNCHANGED <<senderVars, wire, lost, message, owed, structured, expected>>
      /\ viewState' = IF message = <<>> THEN "Disconnected" ELSE "Error"
  BY DEF ViewerEnds
<1>2. Typed'
  BY ViewerEndsTyped DEF Tracks
<1>3. TodoInv'
  BY <1>1 DEF Tracks, TodoInv, senderVars
<1>4. LogInv'
  BY <1>1 DEF Tracks, LogInv
<1>5. FlowInv'
  BY <1>1 DEF FlowInv, Reading
<1>6. Begun' = Begun /\ Shown' = Shown
  BY <1>1 DEF Begun, Shown, senderVars
<1>7. ViewOK(Begun, Len(expected), Shown, message, viewState', owed)
  <2>1. ViewOK(Begun, Len(expected), Shown, message, viewState, owed)
        /\ viewState \in {"Setup", "Connected"}
    BY <1>1 DEF Tracks, ViewInv, Reading
  <2>2. ASSUME NEW c, Partial(c, message, viewState, owed), message # <<>>
        PROVE  Partial(c, message, viewState', owed)
    BY <1>1, <2>1, <2>2 DEF Partial
  <2> QED
    BY <1>1, <2>1, <2>2 DEF ViewOK
<1>8. ViewInv'
  BY <1>1, <1>6, <1>7 DEF ViewInv
<1> QED
  BY <1>2, <1>3, <1>4, <1>5, <1>8 DEF Tracks

LEMMA StillTracks ==
    ASSUME Tracks, ReadBack \/ UNCHANGED vars
    PROVE  Tracks'
<1>1. UNCHANGED <<senderVars, wire, lost, viewVars, expected>>
  BY DEF ReadBack, vars
<1>2. Typed'
  BY StillTyped DEF Tracks
<1>3. /\ Begun' = Begun /\ Shown' = Shown /\ Line' = Line /\ ViewPlace' = ViewPlace
      /\ Reading' = Reading /\ Doomed' = Doomed
  BY <1>1 DEF senderVars, viewVars, Begun, Shown, Line, ViewPlace, Reading, Doomed
<1>4. TodoInv' /\ LogInv' /\ ViewInv'
  BY <1>1, <1>3 DEF Tracks, TodoInv, LogInv, ViewInv, senderVars, viewVars
<1>5. FlowInv'
  BY <1>1, <1>3 DEF Tracks, FlowInv, senderVars, viewVars
<1> QED
  BY <1>2, <1>4, <1>5 DEF Tracks

-----------------------------------------------------------------------------
(* The window reads a field *)

\* What a field begins with tells the kinds apart.
LEMMA Kinds ==
    /\ \A t \in ParamTokens : t[1] \notin {"J2534Msg", "VERSIONS", "client", "driver", "END"}
    /\ \A f : Hdr(f)[1] = "J2534Msg" /\ Hdr(f) \notin {Hello[2], Hello[3]}
    /\ \A c : End(c)[1] = "END" /\ End(c)[2] = c /\ End(c) \notin {Hello[2], Hello[3]}
    /\ \A t \in {Hello[2], Hello[3]} : t[1] # "J2534Msg"
    /\ Garbled # Hello[1]
<1>1. ASSUME NEW t \in ParamTokens
      PROVE  t[1] \notin {"J2534Msg", "VERSIONS", "client", "driver", "END"}
  <2>1. ASSUME NEW n \in Nat
        PROVE  Arr(n)[1] \notin {"J2534Msg", "VERSIONS", "client", "driver", "END"}
    BY DEF Arr
  <2>2. \A u \in {Number, Str, Msg, Enum, Bytes, InOut, Null, Ref} :
          u[1] \notin {"J2534Msg", "VERSIONS", "client", "driver", "END"}
    BY DEF Number, Str, Msg, Enum, Bytes, InOut, Null, Ref
  <2> QED
    BY <2>1, <2>2 DEF ParamTokens
<1>2. Hello[2][1] = "client" /\ Hello[3][1] = "driver"
  BY DEF Hello
<1>3. \A f : Hdr(f)[1] = "J2534Msg"
  BY DEF Hdr
<1>4. \A c : End(c)[1] = "END" /\ End(c)[2] = c
  BY DEF End
<1>5. Garbled # Hello[1]
  <2>1. Len(Garbled) = 2 /\ Len(Hello[1]) = 1
    BY DEF Garbled, Hello
  <2>2. 1 # 2
    OBVIOUS
  <2> QED
    BY <2>1, <2>2
<1>6. \A f : Hdr(f) \notin {Hello[2], Hello[3]}
  BY <1>2, <1>3
<1>7. \A c : End(c) \notin {Hello[2], Hello[3]}
  BY <1>2, <1>4
<1> QED
  BY <1>1, <1>2, <1>3, <1>4, <1>5, <1>6, <1>7

\* The field that ViewerReads takes from the wire.
Field == IF wire[1][2] = 1 THEN wire[1][1] ELSE Garbled
Takes(t) ==
  \/ Setup(t) \/ Report(t) \/ StartMessage(t) \/ Parameter(t) \/ FinishMessage(t) \/ Refuse(t)

\* It is the field at the window's place, and the next place is under way.
LEMMA FieldRead ==
    ASSUME Tracks, ViewerReads, ~Doomed
    PROVE  /\ ViewPlace \in Places /\ Written(Begun, todo, ViewPlace)
           /\ Field = Token(Begun, ViewPlace)
           /\ viewState' # "Error" =>
                \E q : Flow(q, Begun, todo, lost', Line', Succ(Begun, ViewPlace))
<1>1. /\ wire \in Seq(Cell) /\ buf \in Seq(Cell) /\ lost \in BOOLEAN /\ Len(wire) > 1 /\ Reading
      /\ wire' = SubSeq(wire, 3, Len(wire)) /\ buf' = buf /\ lost' = (lost \/ viewState' = "Error")
  BY DEF Tracks, Typed, SenderTyped, ViewerReads, senderVars
<1>2. PICK w, c, l, new : w = wire /\ c = buf /\ l = w \o c /\ new = SubSeq(w, 3, Len(w))
  OBVIOUS
<1>3. /\ w \in Seq(Cell) /\ c \in Seq(Cell) /\ l \in Seq(Cell) /\ new \in Seq(Cell)
      /\ Len(w) \in Nat /\ Len(w) > 1 /\ Len(l) \in Nat /\ Len(l) > 1 /\ l[1] = w[1]
      /\ SubSeq(l, 3, Len(l)) = new \o c
  <2>1. w \in Seq(Cell) /\ c \in Seq(Cell) /\ Len(w) \in Nat /\ Len(w) > 1
    BY <1>1, <1>2
  <2>2. PICK a : a = SubSeq(w, 1, 2)
    OBVIOUS
  <2>3. 2 \in 0..Len(w) /\ 2 + 1 = 3
    BY <2>1
  <2>4. /\ a \in Seq(Cell) /\ new \in Seq(Cell) /\ Len(a) = 2 /\ a \o new = w
        /\ Len(new) = Len(w) - 2
    BY <1>2, <2>1, <2>2, <2>3, Cut
  <2>5. PICK m : m = new \o c
    OBVIOUS
  <2>6. m \in Seq(Cell) /\ l = a \o m
    <3>1. m \in Seq(Cell)
      BY <2>1, <2>4, <2>5, Joined
    <3>2. a \in Seq(Cell) /\ new \in Seq(Cell) /\ c \in Seq(Cell)
      BY <2>1, <2>4
    <3>3. (a \o new) \o c = a \o (new \o c)
      BY <3>2, JoinedTwice
    <3> QED
      BY <1>2, <2>4, <2>5, <3>1, <3>3
  <2>7. SubSeq(a \o m, 3, Len(a \o m)) = m
    <3>1. PICK v, u : v = a \o m /\ u = SubSeq(v, 3, Len(v))
      OBVIOUS
    <3>2. v \in Seq(Cell) /\ Len(v) = 2 + Len(m) /\ Len(m) \in Nat /\ \A i \in 1..Len(m) : v[2 + i] = m[i]
      BY <2>4, <2>6, <3>1, Joined
    <3>3. 2 \in 0..Len(v) /\ 2 + 1 = 3
      BY <3>2
    <3>4. u \in Seq(Cell) /\ Len(u) = Len(v) - 2 /\ \A i \in 1..(Len(v) - 2) : u[i] = v[2 + i]
      BY <3>1, <3>2, <3>3, Cut
    <3>5. Len(u) = Len(m) /\ \A i \in 1..Len(m) : u[i] = m[i]
      BY <3>2, <3>4
    <3>6. u = m
      <4>1. u \in Seq(Cell) /\ m \in Seq(Cell)
        BY <2>6, <3>4
      <4> QED
        BY <3>5, <4>1
    <3> QED
      BY <3>1, <3>6
  <2>8. l \in Seq(Cell) /\ Len(l) = Len(w) + Len(c) /\ Len(c) \in Nat /\ \A i \in 1..Len(w) : l[i] = w[i]
    BY <1>2, <2>1, Joined
  <2>9. Len(l) > 1 /\ Len(l) \in Nat /\ 1 \in 1..Len(w)
    BY <2>1, <2>8
  <2> QED
    BY <2>1, <2>4, <2>5, <2>6, <2>7, <2>8, <2>9
<1>4. PICK line : line = Line
  OBVIOUS
<1>5. /\ line \in Seq(Cell) /\ Len(line) > 1 /\ line[1] = w[1]
      /\ SubSeq(line, 3, Len(line)) = IF lost THEN new ELSE new \o c
  <2>1. line = IF lost THEN w ELSE l
    BY <1>2, <1>4 DEF Line
  <2> QED
    BY <1>2, <1>3, <2>1
<1>6. PICK p : Flow(p, Begun, todo, lost, line, ViewPlace)
  BY <1>1, <1>4 DEF Tracks, FlowInv
<1>7. /\ ViewPlace \in Places /\ Written(Begun, todo, ViewPlace)
      /\ line[1] = <<Token(Begun, ViewPlace), 1>>
      /\ \E q : Flow(q, Begun, todo, lost, SubSeq(line, 3, Len(line)), Succ(Begun, ViewPlace))
  BY <1>5, <1>6, FlowReads
<1>8. Field = Token(Begun, ViewPlace)
  BY <1>2, <1>5, <1>7 DEF Field
<1>9. ASSUME viewState' # "Error"
      PROVE  lost' = lost /\ Line' = SubSeq(line, 3, Len(line))
  <2>1. lost' = lost
    BY <1>1, <1>9
  <2>2. Line' = IF lost' THEN wire' ELSE wire' \o buf'
    BY DEF Line
  <2>3. wire' = new /\ buf' = c
    BY <1>1, <1>2
  <2> QED
    BY <1>5, <2>1, <2>2, <2>3
<1> QED
  BY <1>7, <1>8, <1>9

\* One text more is shown whole.
LEMMA ShowsMore ==
    ASSUME NEW b, NEW n \in Nat, NEW X, NEW shown \in Seq(X), NEW msg, NEW state, NEW ow,
           ViewOK(b, n, shown, msg, state, ow), Len(shown) + 1 <= 2 + n,
           NEW t \in X, t = Shows(b, Len(shown) + 1)
    PROVE  ViewOK(b, n, Append(shown, t), <<>>, "Connected", 0)
<1>1. PICK s, more : s = Len(shown) /\ more = Append(shown, t)
  OBVIOUS
<1>2. /\ s \in Nat /\ Len(more) = s + 1 /\ more[s + 1] = t
      /\ \A k \in 1..s : more[k] = shown[k]
  BY <1>1
<1>3. \A k \in 1..s : shown[k] = Shows(b, k)
  BY <1>1 DEF ViewOK
<1>4. ASSUME NEW k \in 1..(s + 1)
      PROVE  more[k] = Shows(b, k)
  <2>1. CASE k = s + 1
    BY <1>1, <1>2, <2>1
  <2>2. CASE k # s + 1
    <3>1. k \in 1..s
      BY <1>2, <2>2
    <3> QED
      BY <1>2, <1>3, <3>1
  <2> QED
    BY <2>1, <2>2
<1>5. Len(more) <= 2 + n /\ \A k \in 1..Len(more) : more[k] = Shows(b, k)
  BY <1>1, <1>2, <1>4
<1> QED
  BY <1>1, <1>5 DEF ViewOK

\* The place of the window, in the call whose text it reads.
LEMMA CallPlace ==
    ASSUME Tracks, viewState = "Connected", Written(Begun, todo, ViewPlace),
           NEW s, s = Len(Shown), s >= 2
    PROVE  LET c == Begun[s - 1]
               l == Len(message)
           IN /\ s \in Nat /\ c \in Made /\ l \in Nat /\ s - 1 \in 1..Len(Begun)
              /\ ViewPlace = <<s + 2, l + 1>> /\ Unit(Begun, s + 2) = Text(c)
              /\ Token(Begun, ViewPlace) = Text(c)[l + 1]
              /\ Succ(Begun, ViewPlace) = IF l + 1 < Len(Text(c)) THEN <<s + 2, l + 2>> ELSE <<s + 3, 1>>
              /\ l + 1 <= Len(Text(c)) /\ (l + 1 = Len(Text(c)) => s + 1 <= 2 + Len(expected))
              /\ message # <<>> => Partial(c, message, viewState, owed)
<1>1. PICK b, msg, l, x, n, e : /\ b = Begun /\ msg = message /\ l = Len(message) /\ x = ViewPlace
                                /\ n = Len(Begun) /\ e = Len(expected)
  OBVIOUS
<1>2. /\ b \in Seq(Made) /\ n \in Nat /\ n = Len(b) /\ e \in Nat /\ l \in Nat /\ s \in Nat
      /\ x = <<s + 2, l + 1>>
  <2>1. Begun \in Seq(Made) /\ Len(expected) \in Nat
    BY BegunTyped DEF Tracks
  <2>2. Len(message) \in Nat
    BY DEF Tracks, Typed, ViewTyped
  <2>3. Len(Shown) \in Nat
    BY ShownTyped DEF Tracks
  <2>4. n = Len(b) /\ n \in Nat
    BY <1>1, <2>1
  <2> QED
    BY <1>1, <2>1, <2>2, <2>3, <2>4 DEF ViewPlace
<1>3. x[1] = s + 2 /\ x[2] = l + 1 /\ ~(s + 2 <= 3) /\ s + 2 - 3 = s - 1
  BY <1>2
<1>4. PICK c, t : c = b[s - 1] /\ t = Text(c)
  OBVIOUS
<1>5. Unit(b, s + 2) = t
  BY <1>3, <1>4 DEF Unit
<1>6. /\ s + 2 \in 1..(n + 3) /\ l + 1 \in 1..Len(t)
      /\ todo # <<>> /\ s + 2 = n + 3 => l + 1 <= Len(t) - Len(todo)
  BY <1>1, <1>2, <1>3, <1>5 DEF Written
<1>7. s - 1 \in 1..n /\ c \in Made
  <2>1. s - 1 \in 1..n
    BY <1>2, <1>6
  <2> QED
    BY <1>2, <1>4, <2>1
<1>8. Len(t) \in Nat
  <2>1. Text(c) \in Seq(Tok)
    BY <1>7, TextTyped
  <2> QED
    BY <1>4, <2>1
<1>9. Token(b, x) = t[l + 1]
  BY <1>3, <1>5 DEF Token
<1>10. Succ(b, x) = IF l + 1 < Len(t) THEN <<s + 2, l + 2>> ELSE <<s + 3, 1>>
  <2>1. l + 1 + 1 = l + 2 /\ s + 2 + 1 = s + 3
    BY <1>2
  <2> QED
    BY <1>3, <1>5, <2>1 DEF Succ
<1>11. l + 1 = Len(t) => s + 1 <= 2 + e
  <2>1. CASE todo = <<>>
    <3>1. n = e
      BY <1>1, <2>1, BegunTyped DEF Tracks
    <3> QED
      BY <1>2, <1>7, <3>1
  <2>2. CASE todo # <<>>
    <3>1. n = e + 1
      BY <1>1, <2>2, BegunTyped DEF Tracks
    <3>2. PICK d : d = Len(todo)
      OBVIOUS
    <3>3. d \in Nat /\ d > 0
      <4>1. todo \in Seq(Tok)
        BY DEF Tracks, Typed, CallTyped
      <4> QED
        BY <2>2, <3>2, <4>1
    <3>4. s + 2 = n + 3 => l + 1 <= Len(t) - d
      BY <1>6, <2>2, <3>2
    <3>5. l + 1 = Len(t) => s + 2 # n + 3
      BY <1>2, <1>8, <3>3, <3>4
    <3> QED
      BY <1>2, <1>6, <3>1, <3>5
  <2> QED
    BY <2>1, <2>2
<1>12. l + 1 <= Len(t)
  BY <1>6, <1>8
<1>13. msg # <<>> => Partial(c, msg, viewState, owed)
  BY <1>1, <1>4 DEF Tracks, ViewInv, ViewOK
<1> QED
  BY <1>1, <1>2, <1>4, <1>5, <1>7, <1>9, <1>10, <1>11, <1>12, <1>13

\* The window keeps to what it has been sent.
Advances == LogInv' /\ ViewInv' /\ (Reading' => ViewPlace' = Succ(Begun, ViewPlace))

\* The version of the peer.
LEMMA ReadsVersion ==
    ASSUME Tracks, viewState = "Setup", Takes(Token(Begun, ViewPlace)),
           Begun' = Begun, expected' = expected
    PROVE  Advances /\ viewState' # "Error"
<1>1. structured = <<>> /\ message = <<>> /\ structured \in Logs(Texts)
  BY DEF Tracks, LogInv
<1>2. Shown = <<>>
  BY <1>1, NothingShown DEF Shown
<1>3. PICK h, b : h = Hello[1] /\ b = Begun
  OBVIOUS
<1>4. ViewPlace = <<1, 1>>
  BY DEF ViewPlace
<1>5. Unit(b, 1) = <<h>>
  BY <1>3 DEF Unit
<1>6. Len(<<h>>) = 1 /\ <<h>>[1] = h
  OBVIOUS
<1>7. Token(Begun, ViewPlace) = h /\ Succ(Begun, ViewPlace) = <<2, 1>>
  <2>1. PICK x : x = <<1, 1>>
    OBVIOUS
  <2>2. x[1] = 1 /\ x[2] = 1 /\ <<x[1] + 1, 1>> = <<2, 1>> /\ ~(1 < 1)
    BY <2>1
  <2>3. Token(b, x) = h
    BY <1>5, <1>6, <2>2 DEF Token
  <2>4. Succ(b, x) = <<2, 1>>
    BY <1>5, <1>6, <2>2 DEF Succ
  <2> QED
    BY <1>3, <1>4, <2>1, <2>3, <2>4
<1>8. /\ viewState' = "Connected" /\ message' = <<>> /\ structured' = structured /\ owed' = owed
  BY <1>1, <1>3, <1>7 DEF Takes, Setup, Report, StartMessage, Parameter, FinishMessage, Refuse
<1>9. Shown' = Shown /\ LogInv'
  BY <1>1, <1>8 DEF Shown, LogInv
<1>10. ViewInv'
  BY <1>1, <1>8, <1>9 DEF Tracks, ViewInv, ViewOK
<1>11. ViewPlace' = <<2, 1>>
  <2>1. PICK none : none = <<>>
    OBVIOUS
  <2>2. <<Len(none) + 2, Len(none) + 1>> = <<2, 1>>
    BY <2>1
  <2> QED
    BY <1>2, <1>8, <1>9, <2>1, <2>2 DEF ViewPlace
<1> QED
  BY <1>7, <1>8, <1>9, <1>10, <1>11 DEF Advances

\* The names of the client and of the driver.
LEMMA ReadsName ==
    ASSUME Tracks, viewState = "Connected", message = <<>>, Len(Shown) < 2,
           Takes(Token(Begun, ViewPlace)), Begun' = Begun, expected' = expected
    PROVE  Advances /\ viewState' # "Error"
<1>1. PICK s, b, e, h, t : /\ s = Len(Shown) /\ b = Begun /\ e = Len(expected)
                           /\ h = Shown /\ t = Hello[s + 2]
  OBVIOUS
<1>2. s \in {0, 1} /\ s = Len(h) /\ h \in Seq(Texts) /\ e \in Nat
  <2>1. h \in Seq(Texts) /\ s \in Nat /\ e \in Nat
    <3>1. LogInv /\ Typed
      BY DEF Tracks
    <3>2. Shown \in Seq(Texts) /\ Len(Shown) \in Nat
      BY <3>1, ShownTyped
    <3>3. Len(expected) \in Nat
      BY <3>1, BegunTyped
    <3> QED
      BY <1>1, <3>2, <3>3
  <2>2. s < 2 /\ s = Len(h)
    BY <1>1
  <2> QED
    BY <2>1, <2>2
<1>3. t \in {Hello[2], Hello[3]} /\ t \in Texts
  <2>1. s = 0 \/ s = 1
    BY <1>2
  <2>2. t \in {Hello[2], Hello[3]}
    <3>1. s + 2 = 2 \/ s + 2 = 3
      BY <2>1
    <3> QED
      BY <1>1, <3>1
  <2> QED
    BY <2>2 DEF Texts
<1>4. ViewPlace = <<s + 2, 1>>
  <2>1. PICK none : none = <<>>
    OBVIOUS
  <2>2. Len(none) + 1 = 1
    BY <2>1
  <2> QED
    BY <1>1, <2>1, <2>2 DEF ViewPlace
<1>5. Token(Begun, ViewPlace) = t /\ Succ(Begun, ViewPlace) = <<s + 3, 1>>
  <2>1. PICK x : x = <<s + 2, 1>>
    OBVIOUS
  <2>2. x[1] = s + 2 /\ x[2] = 1 /\ x[1] + 1 = s + 3 /\ s + 2 <= 3
    BY <1>2, <2>1
  <2>3. Unit(b, s + 2) = <<t>>
    BY <1>1, <2>2 DEF Unit
  <2>4. Len(<<t>>) = 1 /\ <<t>>[1] = t /\ ~(1 < 1)
    OBVIOUS
  <2>5. Token(b, x) = t
    BY <2>2, <2>3, <2>4 DEF Token
  <2>6. Succ(b, x) = <<s + 3, 1>>
    BY <2>2, <2>3, <2>4 DEF Succ
  <2> QED
    BY <1>1, <1>4, <2>1, <2>5, <2>6
<1>6. /\ structured' = Saved(t) /\ viewState' = "Connected" /\ message' = <<>> /\ owed' = owed
  BY <1>3, <1>5, Kinds
     DEF Takes, Setup, Report, StartMessage, Parameter, FinishMessage, Refuse
<1>7. structured' \in Logs(Texts) /\ Shown' = Append(h, t)
  BY <1>1, <1>3, <1>6, ShownGrows DEF Tracks, LogInv
<1>8. LogInv'
  BY <1>6, <1>7 DEF LogInv
<1>9. ViewOK(b, e, h, message, viewState, owed) /\ owed = 0
  BY <1>1 DEF Tracks, ViewInv, ViewOK
<1>10. Len(h) + 1 <= 2 + e /\ t = Shows(b, Len(h) + 1)
  <2>1. s + 1 <= 2 + e /\ s + 1 <= 2 /\ s + 1 + 1 = s + 2
    BY <1>2
  <2> QED
    BY <1>1, <1>2, <2>1 DEF Shows
<1>11. ViewOK(b, e, Append(h, t), <<>>, "Connected", 0)
  BY <1>2, <1>3, <1>9, <1>10, ShowsMore
<1>12. ViewInv'
  BY <1>1, <1>6, <1>7, <1>9, <1>11 DEF ViewInv
<1>13. ViewPlace' = <<s + 3, 1>>
  <2>1. PICK none, m : none = <<>> /\ m = Append(h, t)
    OBVIOUS
  <2>2. Len(none) + 1 = 1 /\ Len(m) + 2 = s + 3
    BY <1>2, <1>3, <2>1
  <2> QED
    BY <1>6, <1>7, <2>1, <2>2 DEF ViewPlace
<1> QED
  BY <1>5, <1>6, <1>8, <1>12, <1>13 DEF Advances

\* What the window has of a message, and nothing else, has changed.
LEMMA MessageGrows ==
    ASSUME Tracks, Begun' = Begun, expected' = expected, structured' = structured,
           viewState' # "Setup", message' # <<>>,
           NEW s, s = Len(Shown), s >= 2, s - 1 \in 1..Len(Begun),
           Partial(Begun[s - 1], message', viewState', owed')
    PROVE  LogInv' /\ ViewInv' /\ Shown' = Shown
<1>1. Shown' = Shown
  BY DEF Shown
<1>2. Len(Shown) <= 2 + Len(expected) /\ \A k \in 1..Len(Shown) : Shown[k] = Shows(Begun, k)
  BY DEF Tracks, ViewInv, ViewOK
<1>3. s - 1 <= Len(Begun)
  <2>1. PICK n : n = Len(Begun)
    OBVIOUS
  <2>2. Begun \in Seq(Made)
    BY BegunTyped DEF Tracks
  <2>3. n \in Nat /\ s - 1 \in 1..n
    BY <2>1, <2>2
  <2> QED
    BY <2>1, <2>3
<1>4. PICK m, v, o : m = message' /\ v = viewState' /\ o = owed'
  OBVIOUS
<1>5. ViewOK(Begun, Len(expected), Shown, m, v, o)
  BY <1>2, <1>3, <1>4 DEF ViewOK
<1>6. ViewInv'
  BY <1>1, <1>4, <1>5 DEF ViewInv
<1>7. LogInv'
  BY DEF Tracks, LogInv
<1> QED
  BY <1>1, <1>6, <1>7

\* The function of a call.
LEMMA ReadsHeader ==
    ASSUME Tracks, viewState = "Connected", message = <<>>, Len(Shown) >= 2,
           Written(Begun, todo, ViewPlace), Takes(Token(Begun, ViewPlace)),
           Begun' = Begun, expected' = expected
    PROVE  Advances /\ viewState' # "Error"
<1>1. PICK s, c, t : s = Len(Shown) /\ c = Begun[s - 1] /\ t = Text(c)
  OBVIOUS
<1>2. Len(message) = 0
  <2>1. PICK none : none = <<>>
    OBVIOUS
  <2>2. Len(none) = 0
    BY <2>1
  <2> QED
    BY <2>1, <2>2
<1>3. /\ s \in Nat /\ c \in Made /\ s - 1 \in 1..Len(Begun)
      /\ Token(Begun, ViewPlace) = t[0 + 1]
      /\ Succ(Begun, ViewPlace) = IF 0 + 1 < Len(t) THEN <<s + 2, 0 + 2>> ELSE <<s + 3, 1>>
  BY <1>1, <1>2, CallPlace
<1>4. /\ Len(t) = Len(c.args) + 2 /\ Len(c.args) \in Nat /\ t[1] = Hdr(c.f)
  BY <1>1, <1>3, TextTyped
<1>5. PICK x : x = t[1]
  OBVIOUS
<1>6. /\ Token(Begun, ViewPlace) = x /\ Succ(Begun, ViewPlace) = <<s + 2, 2>>
      /\ x[1] = "J2534Msg" /\ x \notin {Hello[2], Hello[3]}
  <2>1. 0 + 1 = 1 /\ 0 + 2 = 2 /\ 0 + 1 < Len(t)
    BY <1>4
  <2> QED
    BY <1>3, <1>4, <1>5, <2>1, Kinds
<1>7. /\ message' = <<x>> /\ viewState' = "Connected" /\ owed' = owed /\ structured' = structured
  BY <1>6 DEF Takes, Setup, Report, StartMessage, Parameter, FinishMessage, Refuse
<1>8. owed = 0
  BY DEF Tracks, ViewInv, ViewOK
<1>9. PICK m : m = <<x>>
  OBVIOUS
<1>10. Len(m) = 1 /\ m[1] = x /\ m # <<>>
  BY <1>9
<1>11. Partial(c, m, "Connected", 0)
  <2>1. \A i \in 1..Len(m) : m[i] = t[i]
    <3>1. \A i \in 1..1 : i = 1
      OBVIOUS
    <3> QED
      BY <1>5, <1>10, <3>1
  <2>2. Len(m) < Len(t) /\ Len(m) <= Len(t)
    BY <1>4, <1>10
  <2>3. \A o : ParseOf(c.args, o) => 0 = o[Len(m) - 1]
    BY <1>10 DEF ParseOf
  <2> QED
    BY <1>1, <2>1, <2>2, <2>3 DEF Partial
<1>12. message' = m /\ message' # <<>> /\ Partial(c, message', viewState', owed')
  BY <1>7, <1>8, <1>9, <1>10, <1>11
<1>13. LogInv' /\ ViewInv' /\ Shown' = Shown
  BY <1>1, <1>3, <1>7, <1>12, MessageGrows
<1>14. ViewPlace' = <<s + 2, 2>>
  <2>1. Len(m) + 1 = 2
    BY <1>10
  <2> QED
    BY <1>1, <1>7, <1>12, <1>13, <2>1 DEF ViewPlace
<1> QED
  BY <1>6, <1>7, <1>13, <1>14 DEF Advances

\* A parameter of a call.
LEMMA ReadsParameter ==
    ASSUME Tracks, viewState = "Connected", message # <<>>,
           Len(message) <= Len(Begun[Len(Shown) - 1].args),
           Written(Begun, todo, ViewPlace), Takes(Token(Begun, ViewPlace)),
           Begun' = Begun, expected' = expected
    PROVE  Advances /\ viewState' # "Error"
<1>1. PICK s, c, t, l, m, w : /\ s = Len(Shown) /\ c = Begun[s - 1] /\ t = Text(c)
                              /\ l = Len(message) /\ m = message /\ w = owed
  OBVIOUS
<1>2. s >= 2
  BY <1>1 DEF Tracks, ViewInv, ViewOK
<1>3. /\ s \in Nat /\ c \in Made /\ s - 1 \in 1..Len(Begun) /\ l \in Nat
      /\ Token(Begun, ViewPlace) = t[l + 1]
      /\ Succ(Begun, ViewPlace) = IF l + 1 < Len(t) THEN <<s + 2, l + 2>> ELSE <<s + 3, 1>>
      /\ Partial(c, m, viewState, w)
  BY <1>1, <1>2, CallPlace
<1>4. /\ Len(t) = Len(c.args) + 2 /\ Len(c.args) \in Nat
      /\ \A i \in 1..Len(c.args) : t[i + 1] = c.args[i]
  BY <1>1, <1>3, TextTyped
<1>5. m \in Seq(Tok \cup {Garbled}) /\ m # <<>> /\ l = Len(m)
  BY <1>1 DEF Tracks, Typed, ViewTyped
<1>6. l > 0 /\ l <= Len(c.args) /\ l \in 1..Len(c.args) /\ l + 1 < Len(t)
  <2>1. l > 0
    BY <1>5
  <2>2. l <= Len(c.args)
    BY <1>1
  <2> QED
    BY <1>3, <1>4, <2>1, <2>2
<1>7. PICK x : x = c.args[l]
  OBVIOUS
<1>8. x \in ParamTokens /\ x \in Tok /\ x = t[l + 1]
  <2>1. c.args \in Seq(ParamTokens)
    BY <1>3, MadeCalls
  <2> QED
    BY <1>4, <1>6, <1>7, <2>1 DEF Tok
<1>9. Token(Begun, ViewPlace) = x /\ Succ(Begun, ViewPlace) = <<s + 2, l + 2>>
  BY <1>3, <1>6, <1>8
<1>10. x[1] \notin {"J2534Msg", "VERSIONS", "client", "driver", "END"}
  BY <1>8, Kinds
<1>11. PICK new, ow : new = Append(m, x) /\ ow = Owed(x)
  OBVIOUS
<1>12. /\ message' = new /\ owed' = ow /\ viewState' = "Connected" /\ structured' = structured
  BY <1>1, <1>9, <1>10, <1>11
     DEF Takes, Setup, Report, StartMessage, Parameter, FinishMessage, Refuse
<1>13. /\ Len(new) = l + 1 /\ new[l + 1] = x /\ \A i \in 1..l : new[i] = m[i]
  <2>1. m \in Seq(Tok \cup {Garbled}) /\ x \in Tok \cup {Garbled}
    BY <1>5, <1>8
  <2> QED
    BY <1>5, <1>11, <2>1
<1>14. new # <<>>
  BY <1>3, <1>13
<1>15. Partial(c, new, "Connected", ow)
  <2>1. Len(new) < Len(t) /\ Len(new) <= Len(t) /\ Len(new) - 1 = l
    BY <1>3, <1>6, <1>13
  <2>2. ASSUME NEW i \in 1..(l + 1)
        PROVE  new[i] = t[i]
    <3>1. CASE i = l + 1
      BY <1>8, <1>13, <3>1
    <3>2. CASE i # l + 1
      <4>1. i \in 1..l
        BY <1>3, <3>2
      <4>2. m[i] = t[i]
        BY <1>1, <1>3, <1>5, <4>1 DEF Partial
      <4> QED
        BY <1>13, <4>1, <4>2
    <3> QED
      BY <3>1, <3>2
  <2>3. ASSUME NEW o, ParseOf(c.args, o)
        PROVE  ow = o[l]
    <3>1. o[l] = After(o[l - 1], x)
      BY <1>6, <1>7, <2>3 DEF ParseOf
    <3>2. w = o[l - 1]
      BY <1>3, <1>5, <2>3 DEF Partial
    <3>3. ow = After(w, x)
      BY <1>1, <1>11 DEF Owed, After
    <3> QED
      BY <3>1, <3>2, <3>3
  <2> QED
    BY <1>1, <1>13, <2>1, <2>2, <2>3 DEF Partial
<1>16. message' # <<>> /\ Partial(c, message', viewState', owed')
  BY <1>12, <1>14, <1>15
<1>17. LogInv' /\ ViewInv' /\ Shown' = Shown
  BY <1>1, <1>2, <1>3, <1>12, <1>16, MessageGrows
<1>18. ViewPlace' = <<s + 2, l + 2>>
  <2>1. Len(new) + 1 = l + 2
    BY <1>3, <1>13
  <2> QED
    BY <1>1, <1>12, <1>17, <2>1 DEF ViewPlace
<1> QED
  BY <1>9, <1>12, <1>17, <1>18 DEF Advances

\* The return code of a call: its text is complete, or the code is unknown.
LEMMA ReadsEnd ==
    ASSUME Tracks, viewState = "Connected", message # <<>>,
           ~(Len(message) <= Len(Begun[Len(Shown) - 1].args)),
           Written(Begun, todo, ViewPlace), Takes(Token(Begun, ViewPlace)),
           Begun' = Begun, expected' = expected
    PROVE  Advances
<1>1. PICK b, e, h, s, c, t, l, m, w : /\ b = Begun /\ e = Len(expected) /\ h = Shown
                                       /\ s = Len(Shown) /\ c = Begun[s - 1] /\ t = Text(c)
                                       /\ l = Len(message) /\ m = message /\ w = owed
  OBVIOUS
<1>2. s >= 2
  BY <1>1 DEF Tracks, ViewInv, ViewOK
<1>3. /\ s \in Nat /\ c \in Made /\ s - 1 \in 1..Len(Begun) /\ l \in Nat
      /\ Token(Begun, ViewPlace) = t[l + 1]
      /\ Succ(Begun, ViewPlace) = IF l + 1 < Len(t) THEN <<s + 2, l + 2>> ELSE <<s + 3, 1>>
      /\ l + 1 <= Len(t) /\ (l + 1 = Len(t) => s + 1 <= 2 + e)
      /\ Partial(c, m, viewState, w)
  BY <1>1, <1>2, CallPlace
<1>4. /\ Len(t) = Len(c.args) + 2 /\ Len(c.args) \in Nat /\ t \in Seq(Tok)
      /\ t[Len(c.args) + 2] = End(c.code)
  BY <1>1, <1>3, TextTyped
<1>5. /\ m \in Seq(Tok \cup {Garbled}) /\ m # <<>> /\ l = Len(m)
      /\ h \in Seq(Texts) /\ e \in Nat /\ s = Len(h)
  <2>1. message \in Seq(Tok \cup {Garbled})
    BY DEF Tracks, Typed, ViewTyped
  <2>2. h \in Seq(Texts) /\ e \in Nat
    <3>1. LogInv /\ Typed
      BY DEF Tracks
    <3>2. Shown \in Seq(Texts)
      BY <3>1, ShownTyped
    <3>3. Len(expected) \in Nat
      BY <3>1, BegunTyped
    <3> QED
      BY <1>1, <3>2, <3>3
  <2> QED
    BY <1>1, <2>1, <2>2
<1>6. l + 1 = Len(t) /\ l = Len(c.args) + 1
  <2>1. PICK n, k : n = Len(c.args) /\ k = Len(t)
    OBVIOUS
  <2>2. n \in Nat /\ k = n + 2 /\ l \in Nat /\ l + 1 <= k /\ ~(l <= n)
    BY <1>1, <1>3, <1>4, <2>1
  <2>3. l + 1 = k /\ l = n + 1
    BY <2>2
  <2> QED
    BY <2>1, <2>3
<1>7. PICK x : x = t[l + 1]
  OBVIOUS
<1>8. x = End(c.code) /\ x \in Tok
  <2>1. l + 1 = Len(c.args) + 2 /\ l + 1 \in 1..Len(t)
    BY <1>3, <1>4, <1>6
  <2> QED
    BY <1>4, <1>7, <2>1
<1>9. Token(Begun, ViewPlace) = x /\ Succ(Begun, ViewPlace) = <<s + 3, 1>>
  BY <1>3, <1>4, <1>6, <1>7
<1>10. x[1] = "END" /\ x[2] = c.code /\ x \notin {Hello[2], Hello[3]}
  BY <1>8, Kinds
<1>11. w = 0
  <2>1. PICK o : ParseOf(c.args, o)
    BY <1>3, MadeCalls DEF Parses
  <2>2. w = o[l - 1]
    BY <1>3, <1>5, <2>1 DEF Partial
  <2>3. l - 1 = Len(c.args)
    BY <1>4, <1>6
  <2> QED
    BY <2>1, <2>2, <2>3 DEF ParseOf
<1>12. PICK new : new = Append(m, x)
  OBVIOUS
<1>13. /\ new \in Seq(Tok \cup {Garbled}) /\ Len(new) = Len(t)
       /\ \A i \in 1..Len(new) : new[i] = t[i]
  <2>1. m \in Seq(Tok \cup {Garbled}) /\ x \in Tok \cup {Garbled}
    BY <1>5, <1>8
  <2>2. /\ new \in Seq(Tok \cup {Garbled})
        /\ Len(new) = l + 1 /\ new[l + 1] = x /\ \A i \in 1..l : new[i] = m[i]
    BY <1>5, <1>12, <2>1
  <2>3. ASSUME NEW i \in 1..(l + 1)
        PROVE  new[i] = t[i]
    <3>1. CASE i = l + 1
      BY <1>7, <2>2, <3>1
    <3>2. CASE i # l + 1
      <4>1. i \in 1..l
        BY <1>3, <3>2
      <4>2. m[i] = t[i]
        BY <1>1, <1>3, <1>5, <4>1 DEF Partial
      <4> QED
        BY <2>2, <4>1, <4>2
    <3> QED
      BY <3>1, <3>2
  <2> QED
    BY <1>6, <2>2, <2>3
<1>14. new = t
  <2>1. t \in Seq(Tok \cup {Garbled})
    BY <1>4
  <2> QED
    BY <1>13, <2>1
<1>15. t \in Texts /\ t # <<>>
  <2>1. t \in Texts
    BY <1>1, <1>3 DEF Texts
  <2>2. Len(t) > 0
    BY <1>3, <1>6
  <2> QED
    BY <1>4, <2>1, <2>2
<1>16. CASE c.code \in KnownCodes
  <2>1. /\ structured' = Saved(t) /\ message' = <<>> /\ viewState' = "Connected" /\ owed' = 0
    BY <1>1, <1>9, <1>10, <1>11, <1>12, <1>14, <1>16
       DEF Takes, Setup, Report, StartMessage, Parameter, FinishMessage, Refuse
  <2>2. structured' \in Logs(Texts) /\ Shown' = Append(h, t)
    BY <1>1, <1>15, <2>1, ShownGrows DEF Tracks, LogInv
  <2>3. LogInv'
    BY <2>1, <2>2 DEF LogInv
  <2>4. ViewOK(b, e, h, m, viewState, w)
    BY <1>1 DEF Tracks, ViewInv
  <2>5. Len(h) + 1 <= 2 + e /\ t = Shows(b, Len(h) + 1)
    <3>1. s + 1 <= 2 + e /\ ~(s + 1 <= 2) /\ s + 1 - 2 = s - 1
      BY <1>2, <1>3, <1>6
    <3> QED
      BY <1>1, <1>5, <3>1 DEF Shows
  <2>6. ViewOK(b, e, Append(h, t), <<>>, "Connected", 0)
    BY <1>5, <1>15, <2>4, <2>5, ShowsMore
  <2>7. ViewInv'
    BY <1>1, <2>1, <2>2, <2>6 DEF ViewInv
  <2>8. ViewPlace' = <<s + 3, 1>>
    <3>1. PICK none, more : none = <<>> /\ more = Append(h, t)
      OBVIOUS
    <3>2. Len(none) + 1 = 1 /\ Len(more) + 2 = s + 3
      BY <1>5, <1>15, <3>1
    <3> QED
      BY <2>1, <2>2, <3>1, <3>2 DEF ViewPlace
  <2> QED
    BY <1>9, <2>3, <2>7, <2>8 DEF Advances
<1>17. CASE c.code \notin KnownCodes
  <2>1. /\ structured' = structured /\ message' = t /\ viewState' = "Error" /\ owed' = owed
    BY <1>1, <1>9, <1>10, <1>11, <1>12, <1>14, <1>17
       DEF Takes, Setup, Report, StartMessage, Parameter, FinishMessage, Refuse
  <2>2. Partial(c, t, "Error", w)
    <3>1. Len(t) <= Len(t)
      BY <1>4
    <3> QED
      BY <1>1, <1>17, <3>1 DEF Partial
  <2>3. Partial(c, message', viewState', owed') /\ message' # <<>>
    BY <1>1, <1>15, <2>1, <2>2
  <2>4. LogInv' /\ ViewInv'
    BY <1>1, <1>2, <1>3, <2>1, <2>3, MessageGrows
  <2> QED
    BY <2>1, <2>4 DEF Advances, Reading
<1> QED
  BY <1>16, <1>17

LEMMA ViewerReadsTracks ==
    ASSUME Tracks, ViewerReads
    PROVE  Tracks'
<1>1. /\ UNCHANGED <<senderVars, expected>> /\ todo' = todo /\ call' = call /\ expected' = expected
      /\ Takes(Field) /\ Reading /\ Len(wire) > 1
  BY DEF ViewerReads, senderVars, Takes, Field
<1>2. Typed' /\ Begun' = Begun
  BY <1>1, ViewerReadsTyped DEF Tracks, Begun
<1>3. TodoInv'
  BY <1>1 DEF Tracks, TodoInv
<1>4. CASE Doomed
  <2>1. Field = Garbled
    <3>1. wire # <<>>
      <4>1. PICK w, none : w = wire /\ none = <<>>
        OBVIOUS
      <4>2. Len(w) > 1 /\ Len(none) = 0
        BY <1>1, <4>1
      <4>3. w # none
        BY <4>2
      <4> QED
        BY <4>1, <4>3
    <3>2. wire[1][2] = 2
      BY <1>4, <3>1 DEF Doomed
    <3> QED
      BY <3>2 DEF Field
  <2>2. viewState = "Setup" /\ message = <<>>
    BY <1>4 DEF Tracks, LogInv, Doomed
  <2>3. /\ viewState' = "Unsupported" /\ message' = <<>> /\ structured' = structured /\ owed' = owed
    BY <1>1, <2>1, <2>2, Kinds
       DEF Takes, Setup, Report, StartMessage, Parameter, FinishMessage, Refuse
  <2>4. LogInv' /\ Shown' = Shown
    BY <2>3 DEF Tracks, LogInv, Shown
  <2>5. ViewInv'
    BY <1>1, <1>2, <2>2, <2>3, <2>4 DEF Tracks, ViewInv, ViewOK
  <2>6. FlowInv'
    BY <2>3 DEF FlowInv, Reading
  <2> QED
    BY <1>2, <1>3, <2>4, <2>5, <2>6 DEF Tracks
<1>5. CASE ~Doomed
  <2>1. /\ Written(Begun, todo, ViewPlace) /\ Takes(Token(Begun, ViewPlace))
        /\ viewState' # "Error" =>
             \E q : Flow(q, Begun, todo, lost', Line', Succ(Begun, ViewPlace))
    BY <1>1, <1>5, FieldRead
  <2>2. Advances
    <3>1. CASE viewState = "Setup"
      BY <1>1, <1>2, <2>1, <3>1, ReadsVersion
    <3>2. CASE viewState = "Connected" /\ message = <<>> /\ Len(Shown) < 2
      BY <1>1, <1>2, <2>1, <3>2, ReadsName
    <3>3. CASE viewState = "Connected" /\ message = <<>> /\ ~(Len(Shown) < 2)
      <4>1. Len(Shown) \in Nat
        BY ShownTyped DEF Tracks
      <4>2. Len(Shown) >= 2
        BY <3>3, <4>1
      <4> QED
        BY <1>1, <1>2, <2>1, <3>3, <4>2, ReadsHeader
    <3>4. CASE /\ viewState = "Connected" /\ message # <<>>
               /\ Len(message) <= Len(Begun[Len(Shown) - 1].args)
      BY <1>1, <1>2, <2>1, <3>4, ReadsParameter
    <3>5. CASE /\ viewState = "Connected" /\ message # <<>>
               /\ ~(Len(message) <= Len(Begun[Len(Shown) - 1].args))
      BY <1>1, <1>2, <2>1, <3>5, ReadsEnd
    <3> QED
      BY <1>1, <3>1, <3>2, <3>3, <3>4, <3>5 DEF Reading
  <2>3. FlowInv'
    <3>1. SUFFICES ASSUME Reading'
                   PROVE  \E p : Flow(p, Begun', todo', lost', Line', ViewPlace')
      BY DEF FlowInv
    <3>2. viewState' # "Error" /\ ViewPlace' = Succ(Begun, ViewPlace)
      BY <2>2, <3>1 DEF Advances, Reading
    <3> QED
      BY <1>1, <1>2, <2>1, <3>2
  <2> QED
    BY <1>2, <1>3, <2>2, <2>3 DEF Tracks, Advances
<1> QED
  BY <1>4, <1>5

LEMMA InitTracks == Init => Tracks
<1> SUFFICES ASSUME Init
             PROVE  Tracks
  OBVIOUS
<1>1. /\ todo = <<>> /\ expected = <<>> /\ structured = <<>> /\ message = <<>>
      /\ viewState = "Disconnected"
  BY DEF Init
<1>2. structured \in Logs(Texts) /\ Shown = <<>>
  BY <1>1, NothingShown DEF Shown
<1>3. LogInv /\ TodoInv /\ FlowInv
  BY <1>1, <1>2 DEF LogInv, TodoInv, FlowInv, Reading
<1>4. ViewInv
  <2>1. PICK e : e = <<>> /\ Len(e) = 0
    OBVIOUS
  <2>2. ViewOK(e, 0, e, e, "Disconnected", owed)
    BY <2>1 DEF ViewOK
  <2> QED
    BY <1>1, <1>2, <2>1, <2>2 DEF ViewInv, Begun
<1> QED
  BY <1>3, <1>4, InitTyped DEF Tracks

LEMMA NextTracks == ~Overlapping /\ Tracks /\ [Next]_vars => Tracks'
  BY BeginTracks, SkipTracks, WriteFieldTracks, WriteEndTracks, RetryTracks, LoseTracks,
     ViewerReadsTracks, ViewerEndsTracks, StillTracks DEF Next

-----------------------------------------------------------------------------
(* What the window shows *)

LEMMA Prefix ==
    ASSUME NEW X, NEW s \in Seq(X), NEW t \in Seq(X), Len(s) <= Len(t),
           \A i \in 1..Len(s) : s[i] = t[i]
    PROVE  IsPrefix(s, t)
<1>1. PICK n, m : n = Len(s) /\ m = Len(t)
  OBVIOUS
<1>2. n \in Nat /\ m \in Nat /\ n <= m
  BY <1>1
<1>3. PICK a, b : a = SubSeq(s, 1, n) /\ b = SubSeq(t, 1, n)
  OBVIOUS
<1>4. a \in Seq(X) /\ Len(a) = n /\ \A i \in 1..n : a[i] = s[i]
  BY <1>1, <1>2, <1>3, Cut
<1>5. b \in Seq(X) /\ Len(b) = n /\ \A i \in 1..n : b[i] = t[i]
  <2>1. n \in 0..Len(t)
    BY <1>1, <1>2
  <2> QED
    BY <1>3, <2>1, Cut
<1>6. a = b
  <2>1. Len(a) = Len(b) /\ \A i \in 1..Len(a) : a[i] = b[i]
    BY <1>1, <1>4, <1>5
  <2>2. a \in Seq(X) /\ b \in Seq(X)
    BY <1>4, <1>5
  <2> QED
    BY <2>1, <2>2
<1> QED
  BY <1>1, <1>2, <1>3, <1>6 DEF IsPrefix

\* All that has been told of on the connection: the names and the calls.
LEMMA ToldTyped ==
    ASSUME expected \in Seq(Made)
    PROVE  /\ Told \in Seq(Texts) /\ Len(Told) = 2 + Len(expected)
           /\ \A k \in 1..(2 + Len(expected)) : Told[k] = Shows(expected, k)
<1>1. PICK e, g, x, y, n : /\ e = expected /\ n = Len(expected) /\ x = Hello[2] /\ y = Hello[3]
                           /\ g = [i \in 1..Len(expected) |-> Text(expected[i])]
  OBVIOUS
<1>2. e \in Seq(Made) /\ n = Len(e) /\ n \in Nat /\ DOMAIN e = 1..n
  BY <1>1
<1>3. x \in Texts /\ y \in Texts /\ \A i \in 1..n : Text(e[i]) \in Texts
  <2>1. \A i \in 1..n : e[i] \in Made
    BY <1>2
  <2> QED
    BY <1>1, <2>1 DEF Texts
<1>4. g \in [1..n -> Texts] /\ \A i \in 1..n : g[i] = Text(e[i])
  BY <1>1, <1>3
<1>5. g \in Seq(Texts) /\ Len(g) = n
  BY <1>2, <1>4
<1>6. PICK h, t : h = <<x, y>> /\ t = h \o g
  OBVIOUS
<1>7. h \in Seq(Texts) /\ Len(h) = 2 /\ h[1] = x /\ h[2] = y
  BY <1>3, <1>6
<1>8. /\ t \in Seq(Texts) /\ Len(t) = 2 + n /\ t[1] = x /\ t[2] = y
      /\ \A i \in 1..n : t[2 + i] = g[i]
  <2>1. /\ t \in Seq(Texts) /\ Len(t) = Len(h) + Len(g)
        /\ \A i \in 1..Len(h) : t[i] = h[i]
        /\ \A i \in 1..Len(g) : t[Len(h) + i] = g[i]
    BY <1>5, <1>6, <1>7, Joined
  <2>2. 1 \in 1..2 /\ 2 \in 1..2
    OBVIOUS
  <2> QED
    BY <1>5, <1>7, <2>1, <2>2
<1>9. t = Told
  <2>1. g = [i \in DOMAIN expected |-> Text(expected[i])]
    BY <1>1, <1>2
  <2> QED
    BY <1>1, <1>6, <2>1 DEF Told
<1>10. ASSUME NEW k \in 1..(2 + n)
       PROVE  t[k] = Shows(e, k)
  <2>1. CASE k = 1
    BY <1>1, <1>8, <2>1 DEF Shows
  <2>2. CASE k = 2
    BY <1>1, <1>8, <2>2 DEF Shows
  <2>3. CASE k # 1 /\ k # 2
    <3>1. PICK i : i = k - 2
      OBVIOUS
    <3>2. i \in 1..n /\ k = 2 + i /\ ~(k <= 2)
      BY <1>2, <2>3, <3>1
    <3>3. t[k] = Text(e[i])
      BY <1>4, <1>8, <3>2
    <3> QED
      BY <3>1, <3>2, <3>3 DEF Shows
  <2> QED
    BY <2>1, <2>2, <2>3
<1> QED
  BY <1>1, <1>8, <1>9, <1>10

LEMMA TracksFollows == Tracks => ViewerFaithful
<1> SUFFICES ASSUME Tracks
             PROVE  ViewerFaithful
  OBVIOUS
<1>1. PICK h, s, b, e, n, told : /\ h = Shown /\ s = Len(Shown) /\ b = Begun /\ e = expected
                                 /\ n = Len(expected) /\ told = Told
  OBVIOUS
<1>2. /\ h \in Seq(Texts) /\ s = Len(h) /\ s \in Nat /\ b \in Seq(Made) /\ e \in Seq(Made)
      /\ n \in Nat /\ n = Len(e) /\ (b = e \/ (b = Append(e, call) /\ call \in Made))
      /\ told \in Seq(Texts) /\ Len(told) = 2 + n
      /\ \A k \in 1..(2 + n) : told[k] = Shows(e, k)
  <2>1. expected \in Seq(Made) /\ Begun \in Seq(Made) /\ Len(expected) \in Nat
    BY BegunTyped DEF Tracks
  <2>2. Begun = expected \/ (Begun = Append(expected, call) /\ call \in Made)
    BY DEF Begun, Tracks, Typed, CallTyped
  <2>3. Shown \in Seq(Texts) /\ Len(Shown) \in Nat
    BY ShownTyped DEF Tracks
  <2> QED
    BY <1>1, <2>1, <2>2, <2>3, ToldTyped
<1>3. ViewOK(b, n, h, message, viewState, owed)
  BY <1>1 DEF Tracks, ViewInv
<1>4. \A i \in 1..n : b[i] = e[i]
  <2>1. CASE b = e
    BY <2>1
  <2>2. CASE b = Append(e, call) /\ call \in Made
    BY <1>2, <2>2
  <2> QED
    BY <1>2, <2>1, <2>2
<1>5. IsPrefix(h, told)
  <2>1. s <= 2 + n /\ \A k \in 1..s : h[k] = Shows(b, k)
    BY <1>2, <1>3 DEF ViewOK
  <2>2. ASSUME NEW k \in 1..s
        PROVE  h[k] = told[k]
    <3>1. k \in 1..(2 + n)
      BY <1>2, <2>1
    <3>2. Shows(b, k) = Shows(e, k)
      <4>1. CASE k <= 2
        BY <4>1 DEF Shows
      <4>2. CASE ~(k <= 2)
        <5>1. k - 2 \in 1..n
          BY <1>2, <3>1, <4>2
        <5> QED
          BY <1>4, <4>2, <5>1 DEF Shows
      <4> QED
        BY <4>1, <4>2
    <3> QED
      BY <1>2, <2>1, <3>1, <3>2
  <2>3. Len(h) <= Len(told) /\ \A i \in 1..Len(h) : h[i] = told[i]
    BY <1>2, <2>1, <2>2
  <2> QED
    BY <1>2, <2>3, Prefix
<1>6. PICK coming : coming = IF Len(h) < Len(told) THEN told[Len(h) + 1] ELSE Text(call)
  OBVIOUS
<1>7. ASSUME message # <<>>
      PROVE  /\ IsPrefix(message, coming)
             /\ viewState = "Error" => message # coming \/ coming[Len(coming)][2] \notin KnownCodes
  <2>1. PICK c : c = b[s - 1]
    OBVIOUS
  <2>2. s >= 2 /\ s - 1 <= Len(b) /\ Partial(c, message, viewState, owed)
    BY <1>2, <1>3, <1>7, <2>1 DEF ViewOK
  <2>3. s - 1 \in 1..Len(b) /\ c \in Made
    <3>1. Len(b) \in Nat
      BY <1>2
    <3>2. s - 1 \in 1..Len(b)
      BY <1>2, <2>2, <3>1
    <3> QED
      BY <1>2, <2>1, <3>2
  <2>4. coming = Text(c)
    <3>1. CASE s < 2 + n
      <4>1. s + 1 \in 1..(2 + n) /\ ~(s + 1 <= 2) /\ s + 1 - 2 = s - 1 /\ s - 1 \in 1..n
        BY <1>2, <2>2, <3>1
      <4>2. coming = told[s + 1]
        BY <1>2, <1>6, <3>1
      <4>3. told[s + 1] = Text(e[s - 1])
        BY <1>2, <4>1 DEF Shows
      <4> QED
        BY <1>4, <2>1, <4>1, <4>2, <4>3
    <3>2. CASE ~(s < 2 + n)
      <4>1. s <= 2 + n
        BY <1>2, <1>3 DEF ViewOK
      <4>2. s - 1 = n + 1
        BY <1>2, <3>2, <4>1
      <4>3. b # e
        BY <1>2, <2>2, <4>2
      <4>4. b = Append(e, call) /\ call \in Made
        BY <1>2, <4>3
      <4>5. c = call
        BY <1>2, <2>1, <4>2, <4>4
      <4>6. coming = Text(call)
        BY <1>2, <1>6, <3>2
      <4> QED
        BY <4>5, <4>6
    <3> QED
      BY <3>1, <3>2
  <2>5. /\ coming \in Seq(Tok) /\ Len(coming) \in Nat /\ coming[Len(coming)] = End(c.code)
    <3>1. /\ Text(c) \in Seq(Tok) /\ Len(Text(c)) = Len(c.args) + 2 /\ Len(c.args) \in Nat
          /\ Text(c)[Len(c.args) + 2] = End(c.code)
      BY <2>3, TextTyped
    <3> QED
      BY <2>4, <3>1
  <2>6. IsPrefix(message, coming)
    <3>1. PICK X : X = Tok \cup {Garbled}
      OBVIOUS
    <3>2. message \in Seq(X) /\ coming \in Seq(X)
      BY <2>5, <3>1 DEF Tracks, Typed, ViewTyped
    <3>3. Len(message) <= Len(coming) /\ \A i \in 1..Len(message) : message[i] = coming[i]
      BY <2>2, <2>4 DEF Partial
    <3> QED
      BY <3>2, <3>3, Prefix
  <2>7. ASSUME viewState = "Error"
        PROVE  message # coming \/ coming[Len(coming)][2] \notin KnownCodes
    <3>1. Len(message) < Len(coming) \/ c.code \notin KnownCodes
      BY <2>2, <2>4, <2>7 DEF Partial
    <3>2. CASE Len(message) < Len(coming)
      <4>1. message # coming
        BY <2>5, <3>2
      <4> QED
        BY <4>1
    <3>3. CASE c.code \notin KnownCodes
      BY <2>5, <3>3, Kinds
    <3> QED
      BY <3>1, <3>2, <3>3
  <2> QED
    BY <2>6, <2>7
<1>8. viewState = "Error" => message # <<>>
  BY <1>3 DEF ViewOK
<1> QED
  BY <1>1, <1>5, <1>6, <1>7, <1>8 DEF ViewerFaithful

(* Of the calls returned since the handshake the window shows, in order    *)
(* and without gaps, as many as it has read; what it holds of a message is *)
(* the start of the next; and it gives up on a connection only for its end *)
(* or for a return code it does not know.  For all calls that the wrappers *)
(* can make, every size of the buffer and every way the connection breaks, *)
(* as long as no connection is made while a call writes.                   *)
THEOREM WireFollowed ==
    ASSUME ~Overlapping
    PROVE  Spec => []ViewerFaithful
  BY InitTracks, NextTracks, TracksFollows, PTL DEF Spec
=============================================================================
