----------------------- MODULE ReplaySimulatorProofs -----------------------
(***************************************************************************)
(* What holds of the simulator and its scheduler with every scenario, any  *)
(* number of connections, messages and threads, and the scheduler's thread *)
(* as late as it likes.                                                    *)
(***************************************************************************)
EXTENDS ReplaySimulator, FiniteSetTheorems, WellFoundedInduction, TLAPS

NatLess == {ss \in Nat \X Nat : ss[1] < ss[2]}

LEMMA NatLessWellFounded == IsWellFoundedOn(NatLess, Nat)
  BY NatLessThanWellFounded DEF OpToRel, NatLess

\* Induction: a set of numbers that is not empty has a least one.
LEMMA Smallest ==
    ASSUME NEW S, S \subseteq Nat, S # {}
    PROVE  \E n \in S : \A m \in S : n <= m
<1>1. PICK n \in S : \A m \in S : ~(<<m, n>> \in NatLess)
  BY NatLessWellFounded, WFMin
<1>2. ASSUME NEW m \in S
      PROVE  n <= m
  <2>1. n \in Nat /\ m \in Nat
    OBVIOUS
  <2>2. m < n => <<m, n>> \in NatLess
    BY <2>1 DEF NatLess
  <2> QED
    BY <1>1, <2>1, <2>2
<1> QED
  BY <1>2

-----------------------------------------------------------------------------
\* Sequences

LEMMA Appended ==
    ASSUME NEW T, NEW s \in Seq(T), NEW e \in T
    PROVE  /\ Append(s, e) \in Seq(T) /\ Len(Append(s, e)) = Len(s) + 1 /\ Len(s) \in Nat
           /\ \A i \in 1..Len(s) : Append(s, e)[i] = s[i]
           /\ Append(s, e)[Len(s) + 1] = e
  OBVIOUS

LEMMA Shortened ==
    ASSUME NEW T, NEW s \in Seq(T), s # <<>>
    PROVE  /\ Tail(s) \in Seq(T) /\ Len(Tail(s)) = Len(s) - 1 /\ Len(s) \in Nat
           /\ Len(s) >= 1 /\ \A i \in 1..(Len(s) - 1) : Tail(s)[i] = s[i + 1]
           /\ Head(s) = s[1] /\ Head(s) \in T
  OBVIOUS

LEMMA RangeOf ==
    ASSUME NEW T, NEW s \in Seq(T)
    PROVE  /\ Range(s) \subseteq T /\ Len(s) \in Nat /\ DOMAIN s = 1..Len(s)
           /\ \A e \in Range(s) : \E i \in 1..Len(s) : e = s[i]
           /\ \A i \in 1..Len(s) : s[i] \in Range(s) /\ s[i] \in T
           /\ IsSeq(s)
<1>1. Len(s) \in Nat /\ DOMAIN s = 1..Len(s) /\ \A i \in 1..Len(s) : s[i] \in T
  OBVIOUS
<1>2. \A i \in 1..Len(s) : s[i] \in Range(s)
  BY <1>1 DEF Range
<1>3. s \in Seq(Range(s))
  BY <1>1, <1>2
<1> QED
  BY <1>1, <1>2, <1>3 DEF Range, IsSeq

LEMMA AppendedRange ==
    ASSUME NEW T, NEW s \in Seq(T), NEW e \in T
    PROVE  Append(s, e) \in Seq(T) /\ Range(Append(s, e)) \subseteq Range(s) \cup {e}
<1>1. PICK t : /\ t = Append(s, e) /\ t \in Seq(T) /\ Len(t) = Len(s) + 1 /\ Len(s) \in Nat
               /\ \A i \in 1..Len(s) : t[i] = s[i]
               /\ t[Len(s) + 1] = e
  <2>1. PICK t : t = Append(s, e)
    OBVIOUS
  <2>2. /\ t \in Seq(T) /\ Len(t) = Len(s) + 1 /\ Len(s) \in Nat
        /\ \A i \in 1..Len(s) : t[i] = s[i]
        /\ t[Len(s) + 1] = e
    BY <2>1, Appended
  <2> QED
    BY <2>1, <2>2
<1>2. \A i \in 1..Len(s) : s[i] \in Range(s)
  BY RangeOf
<1>3. ASSUME NEW x \in Range(t) PROVE x \in Range(s) \/ x = e
  <2>1. PICK i \in 1..Len(t) : x = t[i]
    BY <1>1, <1>3, RangeOf
  <2>2. i = Len(s) + 1 \/ i \in 1..Len(s)
    BY <1>1
  <2>3. CASE i = Len(s) + 1
    BY <1>1, <2>1, <2>3
  <2>4. CASE i \in 1..Len(s)
    BY <1>1, <1>2, <2>1, <2>4
  <2> QED
    BY <2>2, <2>3, <2>4
<1> QED
  BY <1>1, <1>3

\* The sequences that Among(s, S) is made of, one for each prefix of s.
Kept(s, S, g) ==
  g = [i \in 0..Len(s) |->
        IF i = 0 THEN <<>> ELSE IF s[i] \in S THEN Append(g[i - 1], s[i]) ELSE g[i - 1]]

KeptUpTo(s, S, g, n) ==
  g[0] = <<>> /\ \A i \in 1..n : g[i] = IF s[i] \in S THEN Append(g[i - 1], s[i]) ELSE g[i - 1]

LEMMA KeptExists ==
    ASSUME NEW T, NEW s \in Seq(T), NEW S
    PROVE  \E g : Kept(s, S, g)
<1> DEFINE Bad == {n \in 0..Len(s) : ~ \E g : KeptUpTo(s, S, g, n)}
<1>0. Len(s) \in Nat
  OBVIOUS
<1>1. Bad = {}
  <2> SUFFICES ASSUME Bad # {} PROVE FALSE
    OBVIOUS
  <2>1. PICK n \in Bad : \A m \in Bad : n <= m
    <3>1. Bad \subseteq Nat
      BY <1>0
    <3> QED
      BY <3>1, Smallest
  <2>2. n # 0
    <3>1. KeptUpTo(s, S, [i \in {0} |-> <<>>], 0)
      BY DEF KeptUpTo
    <3> QED
      BY <3>1
  <2>3. n \in Nat /\ n - 1 \in 0..Len(s) /\ ~(n <= n - 1)
    BY <1>0, <2>2
  <2>4. n - 1 \notin Bad
    BY <2>1, <2>3
  <2>5. PICK g : KeptUpTo(s, S, g, n - 1)
    BY <2>3, <2>4
  <2> DEFINE f == [i \in 0..n |-> IF i < n THEN g[i]
                                  ELSE IF s[n] \in S THEN Append(g[n - 1], s[n]) ELSE g[n - 1]]
  <2>6. \A i \in 0..(n - 1) : f[i] = g[i]
    BY <2>3
  <2>7. f[n] = IF s[n] \in S THEN Append(g[n - 1], s[n]) ELSE g[n - 1]
    BY <2>3
  <2> HIDE DEF f
  <2>8. f[0] = <<>>
    BY <2>2, <2>3, <2>5, <2>6 DEF KeptUpTo
  <2>9. ASSUME NEW i \in 1..n
        PROVE  f[i] = IF s[i] \in S THEN Append(f[i - 1], s[i]) ELSE f[i - 1]
    <3>1. CASE i = n
      <4>1. f[n - 1] = g[n - 1]
        BY <2>2, <2>3, <2>6
      <4> QED
        BY <2>7, <3>1, <4>1
    <3>2. CASE i # n
      <4>1. i \in 1..(n - 1) /\ i - 1 \in 0..(n - 1) /\ i \in 0..(n - 1)
        BY <2>3, <3>2
      <4>2. f[i] = g[i] /\ f[i - 1] = g[i - 1]
        BY <2>6, <4>1
      <4> QED
        BY <2>5, <4>1, <4>2 DEF KeptUpTo
    <3> QED
      BY <3>1, <3>2
  <2>10. KeptUpTo(s, S, f, n)
    BY <2>8, <2>9 DEF KeptUpTo
  <2> QED
    BY <2>10
<1>2. Len(s) \in 0..Len(s)
  BY <1>0
<1>3. PICK g : KeptUpTo(s, S, g, Len(s))
  BY <1>1, <1>2
<1> DEFINE h == [i \in 0..Len(s) |-> g[i]]
<1>4. \A i \in 0..Len(s) : h[i] = g[i]
  OBVIOUS
<1> DEFINE k == [i \in 0..Len(s) |->
                   IF i = 0 THEN <<>> ELSE IF s[i] \in S THEN Append(h[i - 1], s[i]) ELSE h[i - 1]]
<1>5. ASSUME NEW i \in 0..Len(s)
      PROVE  h[i] = k[i]
  <2>1. k[i] = IF i = 0 THEN <<>> ELSE IF s[i] \in S THEN Append(h[i - 1], s[i]) ELSE h[i - 1]
    OBVIOUS
  <2>2. i # 0 => i \in 1..Len(s) /\ i - 1 \in 0..Len(s)
    BY <1>0
  <2> QED
    BY <1>3, <1>4, <2>1, <2>2 DEF KeptUpTo
<1>6. h = k
  BY <1>5
<1> QED
  BY <1>6 DEF Kept

\* t is what is left of the first n elements of s: h says where each comes from.
Drawn(s, S, n, t, h) ==
  /\ h \in [1..Len(t) -> 1..n]
  /\ \A i \in 1..Len(t) : t[i] = s[h[i]] /\ s[h[i]] \in S
  /\ \A i, j \in 1..Len(t) : i < j => h[i] < h[j]
  /\ \A j \in 1..n : s[j] \in S => \E i \in 1..Len(t) : h[i] = j

LEMMA DrawnOn ==
    ASSUME NEW T, NEW s \in Seq(T), NEW S, NEW n \in 1..Len(s), NEW t \in Seq(T), NEW h,
           Drawn(s, S, n - 1, t, h)
    PROVE  LET u == IF s[n] \in S THEN Append(t, s[n]) ELSE t
           IN  u \in Seq(T) /\ \E f : Drawn(s, S, n, u, f)
<1>0. n \in Nat /\ n >= 1 /\ Len(t) \in Nat /\ s[n] \in T /\ \A j \in 1..n : j = n \/ j \in 1..(n - 1)
  OBVIOUS
<1>1. CASE s[n] \notin S
  <2>1. h \in [1..Len(t) -> 1..n]
    BY <1>0 DEF Drawn
  <2>2. ASSUME NEW j \in 1..n, s[j] \in S PROVE \E i \in 1..Len(t) : h[i] = j
    BY <1>0, <1>1, <2>2 DEF Drawn
  <2>3. Drawn(s, S, n, t, h)
    BY <2>1, <2>2 DEF Drawn
  <2> QED
    BY <1>1, <2>3
<1>2. CASE s[n] \in S
  <2>0. PICK e \in T : e = s[n]
    BY <1>0
  <2>1. PICK u \in Seq(T) : /\ u = Append(t, s[n]) /\ Len(u) = Len(t) + 1
                            /\ u[Len(t) + 1] = s[n] /\ \A i \in 1..Len(t) : u[i] = t[i]
    <3>1. PICK u : u = Append(t, e)
      OBVIOUS
    <3>2. u \in Seq(T) /\ Len(u) = Len(t) + 1 /\ u[Len(t) + 1] = e /\ \A i \in 1..Len(t) : u[i] = t[i]
      BY <3>1, Appended
    <3> QED
      BY <2>0, <3>1, <3>2
  <2> DEFINE f == [i \in 1..Len(u) |-> IF i <= Len(t) THEN h[i] ELSE n]
  <2>2. \A i \in 1..Len(t) : f[i] = h[i] /\ h[i] \in 1..(n - 1)
    <3>1. \A i \in 1..Len(t) : h[i] \in 1..(n - 1)
      BY DEF Drawn
    <3>2. \A i \in 1..Len(t) : i \in 1..Len(u) /\ i <= Len(t)
      BY <1>0, <2>1
    <3> QED
      BY <3>1, <3>2
  <2>3. f[Len(t) + 1] = n
    BY <1>0, <2>1
  <2>4. \A i \in 1..Len(u) : i = Len(t) + 1 \/ i \in 1..Len(t)
    BY <1>0, <2>1
  <2>5. DOMAIN f = 1..Len(u) /\ f = [i \in 1..Len(u) |-> f[i]]
    OBVIOUS
  <2> HIDE DEF f
  <2>6. f \in [1..Len(u) -> 1..n]
    <3>1. \A i \in 1..Len(u) : f[i] \in 1..n
      BY <1>0, <2>2, <2>3, <2>4
    <3> QED
      BY <2>5, <3>1
  <2>7. \A i \in 1..Len(u) : u[i] = s[f[i]] /\ s[f[i]] \in S
    <3>1. \A i \in 1..Len(t) : t[i] = s[h[i]] /\ s[h[i]] \in S
      BY DEF Drawn
    <3>2. \A i \in 1..Len(t) : u[i] = s[f[i]] /\ s[f[i]] \in S
      BY <2>1, <2>2, <3>1
    <3>3. u[Len(t) + 1] = s[f[Len(t) + 1]] /\ s[f[Len(t) + 1]] \in S
      BY <1>2, <2>1, <2>3
    <3> QED
      BY <2>4, <3>2, <3>3
  <2>8. ASSUME NEW i \in 1..Len(u), NEW j \in 1..Len(u), i < j
        PROVE  f[i] < f[j]
    <3>1. i \in 1..Len(t)
      BY <1>0, <2>1, <2>8
    <3>2. CASE j \in 1..Len(t)
      BY <2>2, <2>8, <3>1, <3>2 DEF Drawn
    <3>3. CASE j = Len(t) + 1
      BY <1>0, <2>2, <2>3, <3>1, <3>3
    <3> QED
      BY <2>4, <3>2, <3>3
  <2>9. ASSUME NEW j \in 1..n, s[j] \in S
        PROVE  \E i \in 1..Len(u) : f[i] = j
    <3>1. CASE j = n
      <4>1. Len(t) + 1 \in 1..Len(u)
        BY <1>0, <2>1
      <4> QED
        BY <2>3, <3>1, <4>1
    <3>2. CASE j \in 1..(n - 1)
      <4>1. PICK i \in 1..Len(t) : h[i] = j
        BY <2>9, <3>2 DEF Drawn
      <4>2. i \in 1..Len(u) /\ f[i] = j
        BY <1>0, <2>1, <2>2, <4>1
      <4> QED
        BY <4>2
    <3> QED
      BY <1>0, <3>1, <3>2
  <2>10. Drawn(s, S, n, u, f)
    BY <2>6, <2>7, <2>8, <2>9 DEF Drawn
  <2> QED
    BY <1>2, <2>1, <2>10
<1> QED
  BY <1>1, <1>2

LEMMA AmongDrawn ==
    ASSUME NEW T, NEW s \in Seq(T), NEW S
    PROVE  Among(s, S) \in Seq(T) /\ \E h : Drawn(s, S, Len(s), Among(s, S), h)
<1>1. PICK g : Kept(s, S, g) /\ Among(s, S) = g[Len(s)]
  <2> DEFINE g == CHOOSE f : Kept(s, S, f)
  <2>1. Kept(s, S, g)
    BY KeptExists
  <2>2. Among(s, S) = g[Len(s)]
    BY DEF Among, Kept
  <2> QED
    BY <2>1, <2>2
<1>0. Len(s) \in Nat
  OBVIOUS
<1>2. g[0] = <<>> /\ \A i \in 1..Len(s) : g[i] = IF s[i] \in S THEN Append(g[i - 1], s[i]) ELSE g[i - 1]
  <2> DEFINE k == [i \in 0..Len(s) |->
                   IF i = 0 THEN <<>> ELSE IF s[i] \in S THEN Append(g[i - 1], s[i]) ELSE g[i - 1]]
  <2>1. g = k
    BY <1>1 DEF Kept
  <2>2. k[0] = <<>> /\ \A i \in 1..Len(s) : k[i] = IF s[i] \in S THEN Append(g[i - 1], s[i]) ELSE g[i - 1]
    BY <1>0
  <2> HIDE DEF k
  <2> QED
    BY <2>1, <2>2
<1> DEFINE Good(n) == g[n] \in Seq(T) /\ \E h : Drawn(s, S, n, g[n], h)
           Bad == {n \in 0..Len(s) : ~Good(n)}
<1>3. Bad = {}
  <2> SUFFICES ASSUME Bad # {} PROVE FALSE
    OBVIOUS
  <2>1. PICK n \in Bad : \A m \in Bad : n <= m
    <3>1. Bad \subseteq Nat
      BY <1>0
    <3> QED
      BY <3>1, Smallest
  <2>2. n # 0
    <3>1. PICK t : t = <<>> /\ Len(t) = 0 /\ t \in Seq(T)
      <4>1. <<>> \in Seq(T) /\ Len(<<>>) = 0
        OBVIOUS
      <4> QED
        BY <4>1
    <3>2. Drawn(s, S, 0, t, [i \in {} |-> 0])
      <4>1. 1..Len(t) = {} /\ 1..0 = {}
        BY <3>1
      <4> QED
        BY <4>1 DEF Drawn
    <3>3. Good(0)
      BY <1>2, <3>1, <3>2
    <3> QED
      BY <3>3
  <2>3. n \in Nat /\ n \in 1..Len(s) /\ n - 1 \in 0..Len(s) /\ ~(n <= n - 1)
    BY <1>0, <2>2
  <2>4. Good(n - 1)
    BY <2>1, <2>3
  <2>5. PICK h : Drawn(s, S, n - 1, g[n - 1], h)
    BY <2>4
  <2>6. PICK t \in Seq(T) : t = g[n - 1]
    BY <2>4
  <2>7. PICK u : u = IF s[n] \in S THEN Append(t, s[n]) ELSE t
    OBVIOUS
  <2>8. u \in Seq(T) /\ \E f : Drawn(s, S, n, u, f)
    BY <2>3, <2>5, <2>6, <2>7, DrawnOn
  <2>9. g[n] = u
    BY <1>2, <2>3, <2>6, <2>7
  <2> QED
    BY <2>1, <2>8, <2>9
<1>4. Good(Len(s))
  BY <1>0, <1>3
<1> QED
  BY <1>1, <1>4

LEMMA AmongRange ==
    ASSUME NEW T, NEW s \in Seq(T), NEW S
    PROVE  Among(s, S) \in Seq(T) /\ Range(Among(s, S)) = Range(s) \cap S
<1>1. PICK t \in Seq(T) : t = Among(s, S)
  BY AmongDrawn
<1>2. PICK h : Drawn(s, S, Len(s), t, h)
  BY <1>1, AmongDrawn
<1>3. ASSUME NEW e \in Range(t) PROVE e \in Range(s) \cap S
  <2>1. PICK i \in 1..Len(t) : e = t[i]
    BY <1>3, RangeOf
  <2>2. h[i] \in 1..Len(s) /\ t[i] = s[h[i]] /\ s[h[i]] \in S
    BY <1>2 DEF Drawn
  <2> QED
    BY <2>1, <2>2, RangeOf
<1>4. ASSUME NEW e \in Range(s) \cap S PROVE e \in Range(t)
  <2>1. PICK j \in 1..Len(s) : e = s[j]
    BY <1>4, RangeOf
  <2>2. PICK i \in 1..Len(t) : h[i] = j
    BY <1>2, <1>4, <2>1 DEF Drawn
  <2>3. t[i] = e
    BY <1>2, <2>1, <2>2 DEF Drawn
  <2> QED
    BY <2>3, RangeOf
<1> QED
  BY <1>1, <1>3, <1>4

LEMMA FirstFound ==
    ASSUME NEW T, NEW s \in Seq(T), NEW I, I \subseteq 1..Len(s),
           NEW n, n = IF I # {} THEN Min(I) ELSE 0
    PROVE  n = 0 \/ (n \in DOMAIN s /\ s[n] \in Range(s))
<1>1. CASE I # {}
  <2>1. I \subseteq Nat
    OBVIOUS
  <2>2. PICK m \in I : \A k \in I : m <= k
    BY <1>1, <2>1, Smallest
  <2>3. Min(I) \in I
    BY <2>2 DEF Min
  <2>4. n \in 1..Len(s)
    BY <1>1, <2>3
  <2>5. DOMAIN s = 1..Len(s) /\ \A i \in 1..Len(s) : s[i] \in Range(s)
    BY RangeOf
  <2> QED
    BY <2>4, <2>5
<1> QED
  BY <1>1

-----------------------------------------------------------------------------
\* Scenarios

TargetOK(v) ==
  /\ v.preferred \in Nat /\ IsSeq(v.replies) /\ IsSeq(v.periodic)
  /\ \A r \in Range(v.replies) : r.delay \in Nat
  /\ \A r \in Range(v.periodic) : r.interval \in Nat
StoreOK == IsSeq(store.targets) /\ \A v \in Range(store.targets) : TargetOK(v)

\* Each element of a list is parsed for itself.
LEMMA Parsed ==
    ASSUME NEW s, IsSeq(s), NEW t, t = [i \in DOMAIN s |-> t[i]]
    PROVE  IsSeq(t) /\ \A e \in Range(t) : \E i \in DOMAIN s : e = t[i] /\ s[i] \in Range(s)
<1>1. Len(s) \in Nat /\ DOMAIN s = 1..Len(s)
  BY DEF IsSeq
<1>2. DOMAIN t = DOMAIN s
  OBVIOUS
<1>3. \A i \in 1..Len(s) : t[i] \in Range(t) /\ s[i] \in Range(s)
  BY <1>1, <1>2 DEF Range
<1>4. t \in Seq(Range(t))
  BY <1>1, <1>3
<1>5. \A e \in Range(t) : \E i \in 1..Len(s) : e = t[i]
  BY <1>1, <1>2 DEF Range
<1> QED
  BY <1>1, <1>3, <1>4, <1>5 DEF IsSeq

LEMMA PeriodicTyped ==
    ASSUME NEW list, IsSeq(list), \A r \in Range(list) : Get(r, "intervalMs", 3) \in Nat
    PROVE  IsSeq(ParsePeriodic(list)) /\ \A r \in Range(ParsePeriodic(list)) : r.interval \in Nat
<1> DEFINE usable(v) == "msg" \in DOMAIN v /\ Get(v.msg, "data", <<>>) # <<>>
           rule(v) == [data |-> v.msg.data, interval |-> Get(v, "intervalMs", 3),
                       onConnect |-> Get(v, "startOn", "connect") = "connect"]
           kept == Among(list, {v \in Range(list) : usable(v)})
           t == [i \in DOMAIN kept |-> rule(kept[i])]
<1>1. IsSeq(kept) /\ Range(kept) \subseteq Range(list)
  <2>1. kept \in Seq(Range(list)) /\ Range(kept) \subseteq Range(list)
    BY AmongRange DEF IsSeq
  <2> HIDE DEF kept
  <2> QED
    BY <2>1, RangeOf
<1>2. ParsePeriodic(list) = t
  BY DEF ParsePeriodic
<1>3. \A i \in DOMAIN kept : t[i].interval = Get(kept[i], "intervalMs", 3)
  OBVIOUS
<1>4. t = [i \in DOMAIN kept |-> t[i]]
  OBVIOUS
<1> HIDE DEF kept, t
<1>5. IsSeq(t) /\ \A r \in Range(t) : \E i \in DOMAIN kept : r = t[i] /\ kept[i] \in Range(kept)
  BY <1>1, <1>4, Parsed
<1> QED
  BY <1>1, <1>2, <1>3, <1>5

LEMMA TargetTyped ==
    ASSUME NEW v, LET replies == Get(v, "replies", <<>>)
                      periodic == Get(v, "periodic", <<>>)
                  IN /\ Get(v, "preferredChannelId", 0) \in Nat
                     /\ IsSeq(replies) /\ IsSeq(periodic)
                     /\ \A r \in Range(replies) : Get(Get(r, "response", <<>>), "delayMs", 0) \in Nat
                     /\ \A r \in Range(periodic) : Get(r, "intervalMs", 3) \in Nat
    PROVE  TargetOK(ParseTarget(v))
<1> DEFINE replies == Get(v, "replies", <<>>)
           periodic == Get(v, "periodic", <<>>)
           t == [i \in DOMAIN replies |-> ParseReply(replies[i])]
<1>1. /\ ParseTarget(v).preferred = Get(v, "preferredChannelId", 0)
      /\ ParseTarget(v).replies = t
      /\ ParseTarget(v).periodic = ParsePeriodic(periodic)
  BY DEF ParseTarget
<1>2. \A i \in DOMAIN replies : t[i].delay = Get(Get(replies[i], "response", <<>>), "delayMs", 0)
  BY DEF ParseReply
<1>3. t = [i \in DOMAIN replies |-> t[i]]
  OBVIOUS
<1>4. IsSeq(ParsePeriodic(periodic)) /\ \A r \in Range(ParsePeriodic(periodic)) : r.interval \in Nat
  BY PeriodicTyped
<1> HIDE DEF t
<1>5. IsSeq(t) /\ \A r \in Range(t) : \E i \in DOMAIN replies : r = t[i] /\ replies[i] \in Range(replies)
  BY <1>3, Parsed
<1>6. \A r \in Range(t) : r.delay \in Nat
  BY <1>2, <1>5
<1> QED
  BY <1>1, <1>4, <1>5, <1>6 DEF TargetOK

LEMMA StoreTyped == ASSUME Init PROVE StoreOK
<1>1. PICK root \in Scenarios : store = ParseScenario(root)
  BY DEF Init
<1> DEFINE targets == Get(root, "targets", <<>>)
           t == [i \in DOMAIN targets |-> ParseTarget(targets[i])]
<1>2. store.targets = t
  BY <1>1 DEF ParseScenario
<1>3. IsSeq(targets) /\ \A v \in Range(targets) : TargetOK(ParseTarget(v))
  BY ScenarioAssumption, TargetTyped
<1>4. t = [i \in DOMAIN targets |-> t[i]] /\ \A i \in DOMAIN targets : t[i] = ParseTarget(targets[i])
  OBVIOUS
<1> HIDE DEF t, targets
<1>5. IsSeq(t) /\ \A v \in Range(t) : \E i \in DOMAIN targets : v = t[i] /\ targets[i] \in Range(targets)
  BY <1>3, <1>4, Parsed
<1> QED
  BY <1>2, <1>3, <1>4, <1>5 DEF StoreOK

LEMMA TargetFound ==
    ASSUME StoreOK, NEW params
    PROVE  LET n == FindTarget(params)
           IN n = 0 \/ (n \in DOMAIN store.targets /\ TargetOK(store.targets[n]))
<1>1. PICK I : /\ I \subseteq 1..Len(store.targets)
               /\ FindTarget(params) = IF I # {} THEN Min(I) ELSE 0
  BY DEF FindTarget, SelectInSeq
<1>2. PICK s : s = store.targets /\ s \in Seq(Range(s))
  BY DEF StoreOK, IsSeq
<1>3. FindTarget(params) = 0 \/ (FindTarget(params) \in DOMAIN s /\ s[FindTarget(params)] \in Range(s))
  BY <1>1, <1>2, FirstFound
<1> QED
  BY <1>2, <1>3 DEF StoreOK

LEMMA ReplyFound ==
    ASSUME NEW replies, IsSeq(replies), NEW data
    PROVE  LET n == FirstMatch(replies, data)
           IN n = 0 \/ replies[n] \in Range(replies)
<1>1. PICK I : /\ I \subseteq 1..Len(replies)
               /\ FirstMatch(replies, data) = IF I # {} THEN Min(I) ELSE 0
  BY DEF FirstMatch, SelectInSeq
<1> QED
  BY <1>1, FirstFound DEF IsSeq

-----------------------------------------------------------------------------
\* Channels

\* Among more numbers than there are channels one is free.
LEMMA FreeId ==
    ASSUME IsFiniteSet(DOMAIN channels), NEW start \in Nat
    PROVE  \E id \in start..(start + Cardinality(DOMAIN channels)) :
              id \notin DOMAIN channels /\ \A other \in start..(id - 1) : other \in DOMAIN channels
<1> DEFINE n == Cardinality(DOMAIN channels)
           ids == start..(start + n)
<1>1. n \in Nat
  BY FS_CardinalityType
<1>2. ids \ DOMAIN channels # {}
  <2> SUFFICES ASSUME ids \subseteq DOMAIN channels PROVE FALSE
    OBVIOUS
  <2>1. Cardinality(ids) = n + 1
    BY <1>1, FS_Interval
  <2>2. Cardinality(ids) <= n
    BY FS_Subset
  <2> QED
    BY <1>1, <2>1, <2>2
<1>3. ids \ DOMAIN channels \subseteq Nat
  BY <1>1
<1>4. PICK id \in ids \ DOMAIN channels : \A m \in ids \ DOMAIN channels : id <= m
  BY <1>2, <1>3, Smallest
<1>5. ASSUME NEW other \in start..(id - 1) PROVE other \in DOMAIN channels
  <2>1. other \in ids /\ ~(id <= other)
    BY <1>1, <1>4
  <2> QED
    BY <1>4, <2>1
<1> QED
  BY <1>4, <1>5

LEMMA AllocatesFree ==
    ASSUME IsFiniteSet(DOMAIN channels), nextChannelId \in Nat, NEW preferred \in Nat
    PROVE  AllocateChannelId(preferred) \in Nat \ DOMAIN channels
<1> DEFINE start == IF preferred + 1 > nextChannelId THEN preferred + 1 ELSE nextChannelId
           fits(id) == id \notin DOMAIN channels /\ \A other \in start..(id - 1) : other \in DOMAIN channels
<1>1. CASE preferred > 0 /\ preferred \notin DOMAIN channels
  BY <1>1 DEF AllocateChannelId
<1>2. CASE ~(preferred > 0 /\ preferred \notin DOMAIN channels)
  <2>1. start \in Nat /\ Cardinality(DOMAIN channels) \in Nat
    BY FS_CardinalityType
  <2>2. \E id \in start..(start + Cardinality(DOMAIN channels)) : fits(id)
    BY <2>1, FreeId
  <2>3. AllocateChannelId(preferred)
          = CHOOSE id \in start..(start + Cardinality(DOMAIN channels)) : fits(id)
    BY <1>2 DEF AllocateChannelId
  <2>4. PICK id \in start..(start + Cardinality(DOMAIN channels)) :
            fits(id) /\ id = AllocateChannelId(preferred)
    BY <2>2, <2>3
  <2> QED
    BY <2>1, <2>4
<1> QED
  BY <1>1, <1>2

-----------------------------------------------------------------------------
\* The invariant

Message == [channel : Nat, conn : Nat, n : Nat, left : Nat, before : SUBSET Nat]
Generator == [channel : Nat, conn : Nat, interval : Nat, left : Nat]
Waiting == [at : {"idle", "waiting", "stopping"}, channel : Nat, conn : Nat, left : Nat,
            want : Nat, woken : BOOLEAN]
Channel(c) ==
  /\ DOMAIN c = {"conn", "dev", "target", "rx", "filters", "seqs"}
  /\ c.conn \in 1..connects /\ c.rx \in Seq(Nat)
  /\ c.target = 0 \/ (c.target \in DOMAIN store.targets /\ TargetOK(store.targets[c.target]))

Types ==
  /\ StoreOK
  /\ connects \in Nat /\ made \in Nat /\ nextChannelId \in Nat /\ nextFilterId \in Nat
  /\ {"id", "state"} \subseteq DOMAIN device
  /\ DOMAIN channels \subseteq Nat /\ IsFiniteSet(DOMAIN channels)
  /\ channels = [id \in DOMAIN channels |-> channels[id]]
  /\ \A id \in DOMAIN channels : Channel(channels[id])
  /\ pending \in Seq(Message) /\ due \in Seq(Message) /\ gens \in Seq(Generator)
  /\ thread \in [Threads -> Waiting]

\* The connection that m was made for lasts.
Live(m) == m.channel \in DOMAIN channels /\ channels[m.channel].conn = m.conn

Apart ==
  /\ \A a, b \in DOMAIN channels : channels[a].conn = channels[b].conn => a = b
  /\ \A m \in Range(due) :
        /\ m.conn \in 1..connects
        /\ \A id \in DOMAIN channels : channels[id].conn = m.conn => id = m.channel
        /\ phase # "down" => Live(m) \/ m.conn \in inFlight
  /\ \A m \in Range(pending) \cup Range(gens) : Live(m)
  /\ phase = "down" => channels = <<>>

Held ==
  /\ \A f \in DOMAIN filters :
        /\ f \in Nat /\ f < nextFilterId
        /\ filters[f] \in DOMAIN channels /\ f \in channels[filters[f]].filters
  /\ \A id \in DOMAIN channels : \A f \in channels[id].filters :
        f \in DOMAIN filters /\ filters[f] = id
  /\ device.id = 0 => \A id \in DOMAIN channels : channels[id].dev = 0

Same(k, m, p) == p.n = k /\ p.conn = m.conn /\ p.channel = m.channel

\* What m waits for has been received or is before it.
Awaits(m, k, q, i) ==
  \/ k \in delivered
  \/ \E j \in 1..Len(due) : Same(k, m, due[j])
  \/ \E j \in 1..(i - 1) : Same(k, m, q[j]) /\ q[j].left <= m.left
InLine(q) == \A i \in 1..Len(q) : \A k \in q[i].before : Awaits(q[i], k, q, i)
Ordered ==
  /\ InLine(pending)
  /\ \A i \in 1..Len(due) : Live(due[i]) => \A k \in due[i].before :
        k \in delivered \/ \E j \in 1..(i - 1) : Same(k, due[i], due[j])
  /\ inOrder

SimInv == Types /\ Apart /\ NothingOutlives /\ Held /\ Ordered

-----------------------------------------------------------------------------
\* What a write schedules

Work(w) ==
  /\ DOMAIN w = {"queue", "n", "seqs"} /\ w.n \in Nat /\ w.queue \in Seq(Message)
  /\ \A m \in Range(w.queue) : Live(m)
  /\ InLine(w.queue)

LEMMA Scheduled ==
    ASSUME Types, Apart, NEW id \in DOMAIN channels, NEW w, Work(w), NEW delay \in Nat
    PROVE  Work(Schedule(w, id, delay))
<1> DEFINE left == IF Instant THEN 0 ELSE delay
           conn == channels[id].conn
           q == w.queue
           before == {m.n : m \in {m \in Range(due) : m.conn = conn}}
                     \cup {m.n : m \in {m \in Range(q) : m.conn = conn /\ m.left <= left}}
           msg == [channel |-> id, conn |-> conn, n |-> w.n + 1, left |-> left,
                   before |-> before \ {0}]
<1>1. /\ id \in Nat /\ conn \in Nat /\ w.n \in Nat /\ left \in Nat
      /\ due \in Seq(Message) /\ q \in Seq(Message)
  BY DEF Types, Channel, Work
<1>2. before \subseteq Nat
  <2>1. Range(due) \subseteq Message /\ Range(q) \subseteq Message
    BY <1>1, RangeOf
  <2> QED
    BY <2>1 DEF Message
<1>3. msg \in Message
  BY <1>1, <1>2 DEF Message
<1>4. /\ msg.channel = id /\ msg.conn = conn /\ msg.left = left /\ msg.before \subseteq before
      /\ Live(msg)
  BY DEF Live
<1> HIDE DEF msg
<1>5. PICK p \in Seq(Message) : /\ p = Append(q, msg) /\ Len(p) = Len(q) + 1 /\ Len(q) \in Nat
                                /\ p[Len(q) + 1] = msg /\ \A i \in 1..Len(q) : p[i] = q[i]
  <2>1. PICK p : p = Append(q, msg)
    OBVIOUS
  <2>2. /\ p \in Seq(Message) /\ Len(p) = Len(q) + 1 /\ Len(q) \in Nat
        /\ p[Len(q) + 1] = msg /\ \A i \in 1..Len(q) : p[i] = q[i]
    BY <1>1, <1>3, <2>1, Appended
  <2> QED
    BY <2>1, <2>2
<1>6. PICK u : u = Schedule(w, id, delay)
  OBVIOUS
<1>7. DOMAIN u = {"queue", "n", "seqs"} /\ u.n = w.n + 1 /\ u.queue = p
  BY <1>5, <1>6 DEF Schedule, Work, msg
<1>8. ASSUME NEW m \in Range(p) PROVE Live(m)
  <2>1. PICK i \in 1..Len(p) : m = p[i]
    BY <1>8, RangeOf
  <2>2. CASE i = Len(q) + 1
    BY <1>4, <1>5, <2>1, <2>2
  <2>3. CASE i \in 1..Len(q)
    <3>1. m = q[i] /\ q[i] \in Range(q)
      BY <1>1, <1>5, <2>1, <2>3, RangeOf
    <3> QED
      BY <3>1 DEF Work
  <2> QED
    BY <1>5, <2>2, <2>3
<1>9. ASSUME NEW i \in 1..Len(p), NEW k \in p[i].before PROVE Awaits(p[i], k, p, i)
  <2>1. CASE i \in 1..Len(q)
    <3>1. p[i] = q[i] /\ \A j \in 1..(i - 1) : p[j] = q[j]
      BY <1>5, <2>1
    <3>2. Awaits(q[i], k, q, i)
      BY <1>9, <2>1, <3>1 DEF Work, InLine
    <3> QED
      BY <3>1, <3>2 DEF Awaits
  <2>2. CASE i = Len(q) + 1
    <3>1. p[i] = msg /\ k \in before /\ i - 1 = Len(q)
      BY <1>4, <1>5, <1>9, <2>2
    <3>2. ASSUME NEW m \in Range(due), m.conn = conn, k = m.n
          PROVE  Awaits(msg, k, p, i)
      <4>1. PICK j \in 1..Len(due) : m = due[j]
        BY <1>1, <3>2, RangeOf
      <4>2. m.channel = id
        BY <3>2 DEF Apart
      <4> QED
        BY <1>4, <3>2, <4>1, <4>2 DEF Awaits, Same
    <3>3. ASSUME NEW m \in Range(q), m.conn = conn, m.left <= left, k = m.n
          PROVE  Awaits(msg, k, p, i)
      <4>1. PICK j \in 1..Len(q) : m = q[j]
        BY <1>1, <3>3, RangeOf
      <4>2. m.channel = id
        BY <3>3 DEF Apart, Live, Work
      <4>3. p[j] = m /\ j \in 1..(i - 1)
        BY <1>5, <3>1, <4>1
      <4> QED
        BY <1>4, <3>3, <4>2, <4>3 DEF Awaits, Same
    <3> QED
      BY <3>1, <3>2, <3>3
  <2> QED
    BY <1>5, <2>1, <2>2
<1>10. u.n \in Nat
  BY <1>1, <1>7
<1> QED
  BY <1>5, <1>6, <1>7, <1>8, <1>9, <1>10 DEF Work, InLine

LEMMA OneWritten ==
    ASSUME Types, Apart, NEW id \in DOMAIN channels, NEW w, Work(w), NEW data
    PROVE  Work(WriteOne(id, w, data))
<1> DEFINE target == channels[id].target
           replies == IF target = 0 THEN <<>> ELSE store.targets[target].replies
           n == FirstMatch(replies, data)
           seq == NextSeq(w.seqs, n, replies[n])
           reply == IF replies[n].sequence = <<>> THEN replies[n].data
                    ELSE replies[n].sequence[seq.index]
           announced == store.echo /\ reply # <<>> /\ data # <<>> /\ reply[1] # data[1]
           echoed == IF store.echo THEN Schedule(w, id, EchoDelay) ELSE w
           told == IF announced THEN Schedule(echoed, id, SomDelay) ELSE echoed
           answered == Schedule(told, id, replies[n].delay)
<1>1. IsSeq(replies) /\ \A r \in Range(replies) : r.delay \in Nat
  <2>1. CASE target = 0
    <3>1. replies = <<>> /\ Range(<<>>) = {} /\ <<>> \in Seq({})
      BY <2>1 DEF Range
    <3> QED
      BY <3>1 DEF IsSeq
  <2>2. CASE target # 0
    BY <2>2 DEF Types, Channel, TargetOK
  <2> QED
    BY <2>1, <2>2
<1>2. n = 0 \/ replies[n].delay \in Nat
  BY <1>1, ReplyFound
<1>3. Work(echoed)
  BY Scheduled, DelayAssumption
<1>4. Work(told)
  BY <1>3, Scheduled, DelayAssumption
<1>5. n # 0 => Work(answered)
  BY <1>2, <1>4, Scheduled
<1>6. WriteOne(id, w, data)
        = IF n = 0 THEN echoed
          ELSE [answered EXCEPT !.seqs = IF replies[n].sequence = <<>> THEN @ ELSE With(@, n, seq)]
  BY DEF WriteOne
<1> HIDE DEF n, seq, reply, announced, echoed, told, answered, replies, target
<1>7. ASSUME n # 0
      PROVE  Work([answered EXCEPT !.seqs = IF replies[n].sequence = <<>> THEN @ ELSE With(@, n, seq)])
  <2>1. PICK s : s = IF replies[n].sequence = <<>> THEN answered.seqs ELSE With(answered.seqs, n, seq)
    OBVIOUS
  <2>2. PICK u : u = [answered EXCEPT !.seqs = s]
    OBVIOUS
  <2>3. DOMAIN u = {"queue", "n", "seqs"} /\ u.n = answered.n /\ u.queue = answered.queue
    BY <1>5, <1>7, <2>2 DEF Work
  <2>4. Work(u)
    BY <1>5, <1>7, <2>3 DEF Work
  <2>5. u = [answered EXCEPT !.seqs = IF replies[n].sequence = <<>> THEN @ ELSE With(@, n, seq)]
    BY <2>1, <2>2
  <2> QED
    BY <2>4, <2>5
<1> QED
  BY <1>3, <1>6, <1>7

\* The states of work that Written(id, messages) goes through.
First(id) == [queue |-> pending, n |-> made, seqs |-> channels[id].seqs]
Writing(id, messages, g) ==
  g = [i \in 0..Len(messages) |->
        IF i = 0 THEN First(id) ELSE WriteOne(id, g[i - 1], messages[i])]
WritingUpTo(id, messages, g, n) ==
  g[0] = First(id) /\ \A i \in 1..n : g[i] = WriteOne(id, g[i - 1], messages[i])

LEMMA WritingExists ==
    ASSUME NEW id, NEW messages, Len(messages) \in Nat
    PROVE  \E g : Writing(id, messages, g)
<1> DEFINE Bad == {n \in 0..Len(messages) : ~ \E g : WritingUpTo(id, messages, g, n)}
<1>1. Bad = {}
  <2> SUFFICES ASSUME Bad # {} PROVE FALSE
    OBVIOUS
  <2>1. PICK n \in Bad : \A m \in Bad : n <= m
    <3>1. Bad \subseteq Nat
      OBVIOUS
    <3> QED
      BY <3>1, Smallest
  <2>2. n # 0
    <3>1. WritingUpTo(id, messages, [i \in {0} |-> First(id)], 0)
      BY DEF WritingUpTo
    <3> QED
      BY <3>1
  <2>3. n \in Nat /\ n - 1 \in 0..Len(messages) /\ ~(n <= n - 1)
    BY <2>2
  <2>4. PICK g : WritingUpTo(id, messages, g, n - 1)
    BY <2>1, <2>3
  <2> DEFINE f == [i \in 0..n |-> IF i < n THEN g[i] ELSE WriteOne(id, g[n - 1], messages[n])]
  <2>5. \A i \in 0..(n - 1) : f[i] = g[i]
    BY <2>3
  <2>6. f[n] = WriteOne(id, g[n - 1], messages[n])
    BY <2>3
  <2> HIDE DEF f
  <2>7. f[0] = First(id)
    BY <2>2, <2>3, <2>4, <2>5 DEF WritingUpTo
  <2>8. ASSUME NEW i \in 1..n
        PROVE  f[i] = WriteOne(id, f[i - 1], messages[i])
    <3>1. CASE i = n
      <4>1. f[n - 1] = g[n - 1]
        BY <2>2, <2>3, <2>5
      <4> QED
        BY <2>6, <3>1, <4>1
    <3>2. CASE i # n
      <4>1. i \in 1..(n - 1) /\ i - 1 \in 0..(n - 1) /\ i \in 0..(n - 1)
        BY <2>3, <3>2
      <4>2. f[i] = g[i] /\ f[i - 1] = g[i - 1]
        BY <2>5, <4>1
      <4> QED
        BY <2>4, <4>1, <4>2 DEF WritingUpTo
    <3> QED
      BY <3>1, <3>2
  <2> QED
    BY <2>1, <2>7, <2>8 DEF WritingUpTo
<1>2. PICK g : WritingUpTo(id, messages, g, Len(messages))
  BY <1>1
<1> DEFINE h == [i \in 0..Len(messages) |-> g[i]]
           k == [i \in 0..Len(messages) |->
                   IF i = 0 THEN First(id) ELSE WriteOne(id, h[i - 1], messages[i])]
<1>3. \A i \in 0..Len(messages) : h[i] = g[i]
  OBVIOUS
<1>4. ASSUME NEW i \in 0..Len(messages)
      PROVE  h[i] = k[i]
  <2>1. k[i] = IF i = 0 THEN First(id) ELSE WriteOne(id, h[i - 1], messages[i])
    OBVIOUS
  <2>2. i # 0 => i \in 1..Len(messages) /\ i - 1 \in 0..Len(messages)
    OBVIOUS
  <2> HIDE DEF k
  <2>3. CASE i = 0
    BY <1>2, <1>3, <2>1, <2>3 DEF WritingUpTo
  <2>4. CASE i # 0
    <3>1. h[i - 1] = g[i - 1] /\ h[i] = g[i]
      BY <1>3, <2>2, <2>4
    <3> HIDE DEF h
    <3> QED
      BY <1>2, <2>1, <2>2, <2>4, <3>1 DEF WritingUpTo
  <2> QED
    BY <2>3, <2>4
<1>5. h = k
  BY <1>4
<1> QED
  BY <1>5 DEF Writing

LEMMA WrittenWork ==
    ASSUME Types, Apart, Ordered, NEW id \in DOMAIN channels, NEW messages, IsSeq(messages)
    PROVE  Work(Written(id, messages))
<1>1. Len(messages) \in Nat
  BY DEF IsSeq
<1>2. PICK g : Writing(id, messages, g) /\ Written(id, messages) = g[Len(messages)]
  <2> DEFINE g == CHOOSE f : Writing(id, messages, f)
  <2>1. Writing(id, messages, g)
    BY <1>1, WritingExists
  <2>2. Written(id, messages) = g[Len(messages)]
    BY DEF Written, Writing, First
  <2> QED
    BY <2>1, <2>2
<1>3. g[0] = First(id) /\ \A i \in 1..Len(messages) : g[i] = WriteOne(id, g[i - 1], messages[i])
  <2> DEFINE k == [i \in 0..Len(messages) |->
                     IF i = 0 THEN First(id) ELSE WriteOne(id, g[i - 1], messages[i])]
  <2>1. g = k
    BY <1>2 DEF Writing
  <2>2. k[0] = First(id) /\ \A i \in 1..Len(messages) : k[i] = WriteOne(id, g[i - 1], messages[i])
    BY <1>1
  <2> HIDE DEF k
  <2> QED
    BY <2>1, <2>2
<1>4. Work(First(id))
  BY DEF Work, First, Types, Apart, Ordered
<1> DEFINE Bad == {n \in 0..Len(messages) : ~Work(g[n])}
<1>5. Bad = {}
  <2> SUFFICES ASSUME Bad # {} PROVE FALSE
    OBVIOUS
  <2>1. PICK n \in Bad : \A m \in Bad : n <= m
    <3>1. Bad \subseteq Nat
      BY <1>1
    <3> QED
      BY <3>1, Smallest
  <2>2. n # 0
    BY <1>3, <1>4
  <2>3. n \in 1..Len(messages) /\ n - 1 \in 0..Len(messages) /\ ~(n <= n - 1)
    BY <1>1, <2>2
  <2>4. Work(g[n - 1])
    BY <2>1, <2>3
  <2>5. Work(WriteOne(id, g[n - 1], messages[n]))
    BY <2>4, OneWritten
  <2> QED
    BY <1>3, <2>1, <2>3, <2>5
<1> QED
  BY <1>1, <1>2, <1>5

-----------------------------------------------------------------------------
\* Steps that open and close no channel

Keeps ==
  /\ UNCHANGED <<store, connects>>
  /\ DOMAIN channels' = DOMAIN channels
  /\ channels' = [id \in DOMAIN channels' |-> channels'[id]]
  /\ \A id \in DOMAIN channels :
        DOMAIN channels'[id] = DOMAIN channels[id] /\ channels'[id].rx \in Seq(Nat)
        /\ channels'[id].conn = channels[id].conn /\ channels'[id].target = channels[id].target
        /\ channels'[id].dev = channels[id].dev
KeepsFilters ==
  /\ UNCHANGED <<filters, nextFilterId, device>>
  /\ \A id \in DOMAIN channels : channels'[id].filters = channels[id].filters
Down == phase' = phase \/ (phase = "up" /\ phase' = "stopping")

LEMMA ChannelsKept ==
    ASSUME Types, Keeps
    PROVE  /\ \A id \in DOMAIN channels' : Channel(channels[id])'
           /\ DOMAIN channels' \subseteq Nat /\ IsFiniteSet(DOMAIN channels')
           /\ channels' = [id \in DOMAIN channels' |-> channels'[id]]
           /\ StoreOK' /\ connects' \in Nat /\ \A m : Live(m)' <=> Live(m)
<1>1. StoreOK' /\ connects' \in Nat
  BY DEF Types, Keeps, StoreOK, TargetOK
<1>2. \A id \in DOMAIN channels' : Channel(channels[id])'
  BY DEF Types, Keeps, Channel, TargetOK
<1> QED
  BY <1>1, <1>2 DEF Types, Keeps, Live

LEMMA ApartKept ==
    ASSUME Types, Apart, Keeps, Down, phase = "down" => channels' = channels,
           UNCHANGED inFlight,
           \A m \in Range(due') : m \in Range(due) \/ Live(m),
           \A m \in Range(pending') \cup Range(gens') : Live(m)
    PROVE  Apart'
<1>1. \A m : Live(m)' <=> Live(m)
  BY ChannelsKept
<1>2. \A a, b \in DOMAIN channels' : channels'[a].conn = channels'[b].conn => a = b
  BY DEF Apart, Keeps
<1>3. ASSUME NEW m \in Range(due')
      PROVE  /\ m.conn \in 1..connects'
             /\ \A id \in DOMAIN channels' : channels'[id].conn = m.conn => id = m.channel
             /\ phase' # "down" => Live(m)' \/ m.conn \in inFlight'
  <2>1. CASE m \in Range(due)
    <3>1. phase' # "down" => phase # "down"
      BY DEF Down
    <3> QED
      BY <1>1, <2>1, <3>1 DEF Apart, Keeps
  <2>2. CASE Live(m)
    <3>1. m.conn \in 1..connects
      BY <2>2 DEF Live, Types, Channel
    <3>2. \A id \in DOMAIN channels : channels[id].conn = m.conn => id = m.channel
      BY <2>2 DEF Live, Apart
    <3> QED
      BY <1>1, <2>2, <3>1, <3>2 DEF Keeps
  <2> QED
    BY <1>3, <2>1, <2>2
<1>4. phase' = "down" => channels' = <<>>
  BY DEF Apart, Down
<1> QED
  BY <1>1, <1>2, <1>3, <1>4 DEF Apart

LEMMA OutlivesKept ==
    ASSUME NothingOutlives, Keeps, UNCHANGED inFlight,
           \A id \in DOMAIN channels : \A conn \in Range(channels'[id].rx) :
              conn \in Range(channels[id].rx) \/ conn = channels[id].conn \/ conn \in inFlight
    PROVE  NothingOutlives'
  BY DEF NothingOutlives, Keeps

LEMMA HeldKept == ASSUME Held, Keeps, KeepsFilters PROVE Held'
<1>1. device'.id = 0 => \A id \in DOMAIN channels' : channels'[id].dev = 0
  BY DEF Held, Keeps, KeepsFilters
<1> QED
  BY <1>1 DEF Held, Keeps, KeepsFilters

LEMMA OrderedKept ==
    ASSUME Types, Ordered, Keeps, UNCHANGED <<due, delivered, inOrder>>, InLine(pending)'
    PROVE  Ordered'
<1>1. \A m : Live(m)' <=> Live(m)
  BY ChannelsKept
<1> QED
  BY <1>1 DEF Ordered

\* Nothing moves but threads, what is left of queues, and what replies have done.
LEMMA QuietStep ==
    ASSUME SimInv, Keeps, KeepsFilters, Down, phase = "down" => channels' = channels,
           UNCHANGED <<nextChannelId, made, pending, gens, due, delivered, inOrder, inFlight>>,
           thread' \in [Threads -> Waiting],
           \A id \in DOMAIN channels : Range(channels'[id].rx) \subseteq Range(channels[id].rx)
    PROVE  SimInv'
<1>1. Types'
  <2>1. /\ \A id \in DOMAIN channels' : Channel(channels[id])'
        /\ DOMAIN channels' \subseteq Nat /\ IsFiniteSet(DOMAIN channels')
        /\ channels' = [id \in DOMAIN channels' |-> channels'[id]]
        /\ StoreOK' /\ connects' \in Nat
    BY ChannelsKept DEF SimInv
  <2> QED
    BY <2>1 DEF SimInv, Types, KeepsFilters
<1>2. Apart'
  BY ApartKept DEF SimInv, Apart
<1>3. NothingOutlives'
  BY OutlivesKept DEF SimInv
<1>4. Held'
  BY HeldKept DEF SimInv
<1>5. Ordered'
  <2>1. InLine(pending)'
    BY DEF SimInv, Ordered, InLine, Awaits
  <2> QED
    BY <2>1, OrderedKept DEF SimInv
<1> QED
  BY <1>1, <1>2, <1>3, <1>4, <1>5 DEF SimInv

LEMMA SimInit == Init => SimInv
<1> SUFFICES ASSUME Init PROVE SimInv
  OBVIOUS
<1>1. channels = <<>> /\ DOMAIN channels = {} /\ channels = [id \in DOMAIN channels |-> channels[id]]
  <2>1. channels = <<>>
    BY DEF Init
  <2>2. channels \in [{} -> {}]
    BY <2>1
  <2> QED
    BY <2>1, <2>2
<1>2. IsFiniteSet({})
  BY FS_EmptySet
<1>3. Idle \in Waiting
  BY DEF Idle, Waiting
<1>4. /\ pending \in Seq(Message) /\ due \in Seq(Message) /\ gens \in Seq(Generator)
      /\ Len(pending) = 0 /\ Len(due) = 0 /\ Range(pending) = {} /\ Range(due) = {} /\ Range(gens) = {}
  <2>1. <<>> \in Seq(Message) /\ <<>> \in Seq(Generator) /\ Len(<<>>) = 0 /\ Range(<<>>) = {}
    BY DEF Range
  <2>2. pending = <<>> /\ due = <<>> /\ gens = <<>>
    BY DEF Init
  <2> QED
    BY <2>1, <2>2
<1>5. Types
  BY <1>1, <1>2, <1>3, <1>4, StoreTyped DEF Init, Types
<1>6. Apart
  BY <1>1, <1>4 DEF Apart
<1>7. NothingOutlives /\ Held
  BY <1>1 DEF NothingOutlives, Held, Init
<1>8. Ordered
  <2>1. 1..Len(pending) = {} /\ 1..Len(due) = {}
    BY <1>4
  <2>2. inOrder
    BY DEF Init
  <2> QED
    BY <2>1, <2>2 DEF Ordered, InLine
<1> QED
  BY <1>5, <1>6, <1>7, <1>8 DEF SimInv

LEMMA LeftOver ==
    ASSUME NEW s \in Seq(Nat), NEW want \in Nat
    PROVE  LET t == SubSeq(s, Smaller(want, Len(s)) + 1, Len(s))
           IN  t \in Seq(Nat) /\ Range(t) \subseteq Range(s)
<1> DEFINE m == Smaller(want, Len(s)) + 1
           t == SubSeq(s, m, Len(s))
<1>1. Len(s) \in Nat /\ m \in 1..(Len(s) + 1)
  BY DEF Smaller
<1> HIDE DEF m
<1>2. \A i \in m..Len(s) : i \in 1..Len(s)
  BY <1>1
<1>3. t \in Seq(Nat)
  BY <1>1, <1>2
<1>4. ASSUME NEW e \in Range(t) PROVE e \in Range(s)
  <2>1. PICK i \in 1..Len(t) : e = t[i]
    BY <1>3, RangeOf
  <2>2. Len(t) = Len(s) - m + 1
    BY <1>1
  <2>3. t[i] = s[m + i - 1] /\ m + i - 1 \in 1..Len(s)
    BY <1>1, <2>2
  <2> QED
    BY <2>1, <2>3, RangeOf
<1> QED
  BY <1>3, <1>4 DEF m

LEMMA TakenKeeps ==
    ASSUME Types, NEW id \in DOMAIN channels, NEW want \in Nat, channels' = Taken(id, want),
           UNCHANGED <<store, connects>>
    PROVE  /\ Keeps
           /\ \A c \in DOMAIN channels : /\ channels'[c].filters = channels[c].filters
                                         /\ Range(channels'[c].rx) \subseteq Range(channels[c].rx)
<1>1. PICK rest : rest = SubSeq(channels[id].rx, Smaller(want, Len(channels[id].rx)) + 1,
                                Len(channels[id].rx))
  OBVIOUS
<1>2. rest \in Seq(Nat) /\ Range(rest) \subseteq Range(channels[id].rx)
  BY <1>1, LeftOver DEF Types, Channel
<1>3. channels' = [channels EXCEPT ![id].rx = rest]
  BY <1>1 DEF Taken
<1>4. \A c \in DOMAIN channels : Channel(channels[c])
  BY DEF Types
<1>5. DOMAIN channels' = DOMAIN channels /\ channels' = [c \in DOMAIN channels' |-> channels'[c]]
  BY <1>3
<1>6. channels'[id] = [channels[id] EXCEPT !.rx = rest]
  BY <1>3
<1>7. \A c \in DOMAIN channels : c # id => channels'[c] = channels[c]
  BY <1>3
<1>8. /\ DOMAIN channels'[id] = DOMAIN channels[id] /\ channels'[id].rx = rest
      /\ channels'[id].conn = channels[id].conn /\ channels'[id].target = channels[id].target
      /\ channels'[id].filters = channels[id].filters /\ channels'[id].dev = channels[id].dev
  BY <1>4, <1>6 DEF Channel
<1> QED
  BY <1>2, <1>4, <1>5, <1>7, <1>8 DEF Keeps, Channel

LEMMA NothingTaken ==
    ASSUME Types, UNCHANGED <<channels, store, connects>>
    PROVE  /\ Keeps
           /\ \A c \in DOMAIN channels : /\ channels'[c].filters = channels[c].filters
                                         /\ Range(channels'[c].rx) \subseteq Range(channels[c].rx)
  BY DEF Types, Keeps, Channel

LEMMA ReadsStep ==
    ASSUME SimInv, NEW t \in Threads,
           \/ \E id \in DOMAIN channels, timeout \in Timeouts \cup {0} : ReadMsgs(t, id, 1, timeout)
           \/ SleepAgain(t) \/ ReadReturns(t) \/ BeginShutdown(t)
    PROVE  SimInv'
<1> USE DEF simVars, schedVars, ghosts
<1>0. thread[t] \in Waiting /\ thread \in [Threads -> Waiting] /\ Idle \in Waiting
  BY DEF SimInv, Types, Idle, Waiting
<1>1. ASSUME NEW id \in DOMAIN channels, NEW timeout \in Timeouts \cup {0}, ReadMsgs(t, id, 1, timeout)
      PROVE  SimInv'
  <2>1. channels' = channels \/ channels' = Taken(id, 1)
    BY <1>1 DEF ReadMsgs
  <2>2. /\ Keeps
        /\ \A c \in DOMAIN channels : /\ channels'[c].filters = channels[c].filters
                                      /\ Range(channels'[c].rx) \subseteq Range(channels[c].rx)
    BY <1>1, <2>1, TakenKeeps, NothingTaken DEF ReadMsgs, SimInv
  <2>3. thread' \in [Threads -> Waiting]
    <3>1. id \in Nat /\ channels[id].conn \in Nat /\ timeout \in Nat
      BY DelayAssumption DEF SimInv, Types, Channel
    <3>2. [at |-> "waiting", channel |-> id, conn |-> channels[id].conn, left |-> timeout,
           want |-> 1, woken |-> FALSE] \in Waiting
      BY <3>1 DEF Waiting
    <3> QED
      BY <1>0, <1>1, <3>2 DEF ReadMsgs
  <2> QED
    BY <1>1, <2>2, <2>3, QuietStep DEF ReadMsgs, KeepsFilters, Down, Free
<1>2. CASE SleepAgain(t)
  <2>1. thread' \in [Threads -> Waiting]
    <3>1. [thread[t] EXCEPT !.woken = FALSE] \in Waiting
      BY <1>0 DEF Waiting
    <3> QED
      BY <1>0, <1>2, <3>1 DEF SleepAgain
  <2> QED
    BY <1>2, <2>1, NothingTaken, QuietStep DEF SleepAgain, KeepsFilters, Down, SimInv
<1>3. CASE ReadReturns(t)
  <2>1. \/ channels' = channels
        \/ thread[t].channel \in DOMAIN channels /\ channels' = Taken(thread[t].channel, thread[t].want)
    BY <1>3 DEF ReadReturns
  <2>2. thread[t].want \in Nat
    BY <1>0 DEF Waiting
  <2>3. /\ Keeps
        /\ \A c \in DOMAIN channels : /\ channels'[c].filters = channels[c].filters
                                      /\ Range(channels'[c].rx) \subseteq Range(channels[c].rx)
    BY <1>3, <2>1, <2>2, TakenKeeps, NothingTaken DEF ReadReturns, SimInv
  <2>4. thread' \in [Threads -> Waiting]
    BY <1>0, <1>3 DEF ReadReturns
  <2> QED
    BY <1>3, <2>3, <2>4, QuietStep DEF ReadReturns, KeepsFilters, Down
<1>4. CASE BeginShutdown(t)
  <2>1. thread' \in [Threads -> Waiting]
    <3>1. [thread[t] EXCEPT !.at = "stopping"] \in Waiting
      BY <1>0 DEF Waiting
    <3> QED
      BY <1>0, <1>4, <3>1 DEF BeginShutdown
  <2> QED
    BY <1>4, <2>1, NothingTaken, QuietStep DEF BeginShutdown, KeepsFilters, Down, Free, SimInv
<1> QED
  BY <1>1, <1>2, <1>3, <1>4

-----------------------------------------------------------------------------
\* The device and its filters

\* What stays true while the channels and messages stay as they are.
LEMMA SimUnchanged ==
    ASSUME SimInv, UNCHANGED <<store, channels, pending, due, gens, connects, made, nextChannelId,
                               delivered, inOrder, inFlight, thread, phase>>
    PROVE  Apart' /\ NothingOutlives' /\ Ordered' /\ Keeps
<1>1. Keeps
  BY NothingTaken DEF SimInv
<1>2. Apart'
  BY <1>1, ApartKept DEF SimInv, Apart, Down
<1>3. NothingOutlives'
  BY <1>1, OutlivesKept DEF SimInv
<1>4. Ordered'
  <2>1. InLine(pending)'
    BY DEF SimInv, Ordered, InLine, Awaits
  <2> QED
    BY <1>1, <2>1, OrderedKept DEF SimInv
<1> QED
  BY <1>1, <1>2, <1>3, <1>4

LEMMA DeviceStep ==
    ASSUME SimInv, NEW t \in Threads, NEW handle \in Handles,
           OpenDevice(t) \/ CloseDevice(t, handle)
    PROVE  SimInv'
<1> USE DEF schedVars, ghosts
<1>1. /\ UNCHANGED <<store, channels, pending, due, gens, connects, made, nextChannelId, nextFilterId,
                     delivered, inOrder, inFlight, thread, phase, filters>>
      /\ \E state : \/ device' = [state |-> state, id |-> 1]
                    \/ device' = [state |-> state, id |-> 0] /\ channels = <<>>
  BY DEF OpenDevice, CloseDevice
<1>2. {"id", "state"} \subseteq DOMAIN device' /\ (device'.id = 0 => DOMAIN channels' = {})
  BY <1>1
<1>3. Apart' /\ NothingOutlives' /\ Ordered' /\ Keeps
  BY <1>1, SimUnchanged
<1>4. Types'
  BY <1>1, <1>2, <1>3, ChannelsKept DEF SimInv, Types
<1>5. Held'
  BY <1>1, <1>2 DEF SimInv, Held
<1> QED
  BY <1>3, <1>4, <1>5 DEF SimInv

\* A step that changes the filters of channel id alone.
LEMMA FilterKeeps ==
    ASSUME Types, NEW id \in DOMAIN channels, NEW s,
           channels' = [channels EXCEPT ![id].filters = s], UNCHANGED <<store, connects>>
    PROVE  /\ Keeps /\ channels'[id].filters = s
           /\ \A c \in DOMAIN channels : /\ channels'[c].rx = channels[c].rx
                                         /\ c # id => channels'[c].filters = channels[c].filters
<1>1. \A c \in DOMAIN channels : Channel(channels[c])
  BY DEF Types
<1>2. DOMAIN channels' = DOMAIN channels /\ channels' = [c \in DOMAIN channels' |-> channels'[c]]
  OBVIOUS
<1>3. channels'[id] = [channels[id] EXCEPT !.filters = s]
  OBVIOUS
<1>4. \A c \in DOMAIN channels : c # id => channels'[c] = channels[c]
  OBVIOUS
<1>5. /\ DOMAIN channels'[id] = DOMAIN channels[id] /\ channels'[id].rx = channels[id].rx
      /\ channels'[id].conn = channels[id].conn /\ channels'[id].target = channels[id].target
      /\ channels'[id].filters = s /\ channels'[id].dev = channels[id].dev
  BY <1>1, <1>3 DEF Channel
<1> QED
  BY <1>1, <1>2, <1>4, <1>5 DEF Keeps, Channel

LEMMA FilterStep ==
    ASSUME SimInv, NEW t \in Threads, NEW id \in DOMAIN channels,
           StartMsgFilter(t, id) \/ \E f \in DOMAIN filters : StopMsgFilter(t, id, f)
    PROVE  SimInv'
<1> USE DEF schedVars, ghosts
<1>1. /\ UNCHANGED <<store, pending, due, gens, connects, made, nextChannelId, device,
                     delivered, inOrder, inFlight, thread, phase>>
      /\ phase = "up"
      /\ \E s : channels' = [channels EXCEPT ![id].filters = s]
  BY DEF StartMsgFilter, StopMsgFilter, Free
<1>2. Types
  BY DEF SimInv
<1>3. /\ Keeps
      /\ \A c \in DOMAIN channels : channels'[c].rx = channels[c].rx
  BY <1>1, <1>2, FilterKeeps
<1>4. Apart' /\ NothingOutlives' /\ Ordered'
  <2>1. Apart'
    BY <1>1, <1>3, ApartKept DEF SimInv, Apart, Down
  <2>2. NothingOutlives'
    BY <1>1, <1>3, OutlivesKept DEF SimInv
  <2>3. InLine(pending)'
    BY <1>1 DEF SimInv, Ordered, InLine, Awaits
  <2> QED
    BY <1>1, <1>2, <1>3, <2>1, <2>2, <2>3, OrderedKept DEF SimInv
<1>5. device'.id = 0 => \A c \in DOMAIN channels' : channels'[c].dev = 0
  BY <1>1, <1>3 DEF SimInv, Held, Keeps
<1>6. ASSUME StartMsgFilter(t, id) PROVE Held' /\ nextFilterId' \in Nat
  <2>1. nextFilterId \in Nat /\ nextFilterId \notin DOMAIN filters
    BY DEF SimInv, Types, Held
  <2>2. /\ filters' = With(filters, nextFilterId, id) /\ nextFilterId' = nextFilterId + 1
        /\ channels' = [channels EXCEPT ![id].filters = channels[id].filters \cup {nextFilterId}]
    BY <1>6 DEF StartMsgFilter
  <2>3. /\ channels'[id].filters = channels[id].filters \cup {nextFilterId}
        /\ \A c \in DOMAIN channels : c # id => channels'[c].filters = channels[c].filters
    BY <1>1, <1>2, <2>2, FilterKeeps
  <2>4. /\ DOMAIN filters' = DOMAIN filters \cup {nextFilterId} /\ filters'[nextFilterId] = id
        /\ \A f \in DOMAIN filters : filters'[f] = filters[f]
    BY <2>1, <2>2 DEF With
  <2>5. DOMAIN channels' = DOMAIN channels
    BY <1>3 DEF Keeps
  <2>6. ASSUME NEW f \in DOMAIN filters'
        PROVE  /\ f \in Nat /\ f < nextFilterId'
               /\ filters'[f] \in DOMAIN channels' /\ f \in channels'[filters'[f]].filters
    BY <2>1, <2>2, <2>3, <2>4, <2>5 DEF SimInv, Held
  <2>7. ASSUME NEW c \in DOMAIN channels', NEW f \in channels'[c].filters
        PROVE  f \in DOMAIN filters' /\ filters'[f] = c
    BY <2>3, <2>4, <2>5, <2>7 DEF SimInv, Held
  <2> QED
    BY <1>1, <1>5, <2>1, <2>2, <2>6, <2>7 DEF Held
<1>7. ASSUME NEW f \in DOMAIN filters, StopMsgFilter(t, id, f) PROVE Held' /\ nextFilterId' \in Nat
  <2>1. /\ filters' = Without(filters, {f}) /\ nextFilterId' = nextFilterId /\ filters[f] = id
        /\ channels' = [channels EXCEPT ![id].filters = channels[id].filters \ {f}]
    BY <1>7 DEF StopMsgFilter
  <2>2. /\ channels'[id].filters = channels[id].filters \ {f}
        /\ \A c \in DOMAIN channels : c # id => channels'[c].filters = channels[c].filters
    BY <1>1, <1>2, <2>1, FilterKeeps
  <2>3. /\ DOMAIN filters' = DOMAIN filters \ {f}
        /\ \A g \in DOMAIN filters \ {f} : filters'[g] = filters[g]
    BY <2>1 DEF Without
  <2>4. DOMAIN channels' = DOMAIN channels
    BY <1>3 DEF Keeps
  <2>5. ASSUME NEW g \in DOMAIN filters'
        PROVE  /\ g \in Nat /\ g < nextFilterId'
               /\ filters'[g] \in DOMAIN channels' /\ g \in channels'[filters'[g]].filters
    BY <2>1, <2>2, <2>3, <2>4 DEF SimInv, Held
  <2>6. ASSUME NEW c \in DOMAIN channels', NEW g \in channels'[c].filters
        PROVE  g \in DOMAIN filters' /\ filters'[g] = c
    <3>1. g \in channels[c].filters /\ g # f
      BY <2>1, <2>2, <2>4, <2>6 DEF SimInv, Held
    <3>2. g \in DOMAIN filters /\ filters[g] = c
      BY <2>4, <3>1 DEF SimInv, Held
    <3> QED
      BY <2>3, <3>1, <3>2
  <2> QED
    BY <1>1, <1>2, <1>5, <2>1, <2>5, <2>6 DEF Held, Types
<1>8. Held' /\ nextFilterId' \in Nat
  BY <1>6, <1>7
<1>9. Types'
  BY <1>1, <1>2, <1>3, <1>8, ChannelsKept DEF Types
<1> QED
  BY <1>4, <1>8, <1>9 DEF SimInv

-----------------------------------------------------------------------------
\* Messages

\* Channels keep what the client sees of them; what is scheduled changes.
LEMMA ScheduleStep ==
    ASSUME SimInv, Keeps, KeepsFilters, Down, phase = "down" => channels' = channels,
           \A id \in DOMAIN channels : channels'[id].rx = channels[id].rx,
           UNCHANGED <<nextChannelId, delivered, inOrder, inFlight>>, made' \in Nat,
           thread' \in [Threads -> Waiting],
           pending' \in Seq(Message), due' \in Seq(Message), gens' \in Seq(Generator),
           \A m \in Range(due') : m \in Range(due) \/ Live(m),
           \A m \in Range(pending') \cup Range(gens') : Live(m),
           InLine(pending)',
           \A i \in 1..Len(due') : Live(due'[i]) => \A k \in due'[i].before :
              k \in delivered \/ \E j \in 1..(i - 1) : Same(k, due'[i], due'[j])
    PROVE  SimInv'
<1>1. Types'
  <2>1. /\ \A id \in DOMAIN channels' : Channel(channels[id])'
        /\ DOMAIN channels' \subseteq Nat /\ IsFiniteSet(DOMAIN channels')
        /\ channels' = [id \in DOMAIN channels' |-> channels'[id]]
        /\ StoreOK' /\ connects' \in Nat
    BY ChannelsKept DEF SimInv
  <2> QED
    BY <2>1 DEF SimInv, Types, KeepsFilters
<1>2. Apart'
  BY ApartKept DEF SimInv
<1>3. NothingOutlives'
  BY OutlivesKept DEF SimInv
<1>4. Held'
  BY HeldKept DEF SimInv
<1>5. Ordered'
  <2>1. \A m : Live(m)' <=> Live(m)
    BY ChannelsKept DEF SimInv
  <2> QED
    BY <2>1 DEF SimInv, Ordered
<1> QED
  BY <1>1, <1>2, <1>3, <1>4, <1>5 DEF SimInv

LEMMA SeqsKeep ==
    ASSUME Types, NEW s, UNCHANGED <<store, connects, filters, nextFilterId, device>>,
           DOMAIN channels' = DOMAIN channels, channels' = [c \in DOMAIN channels' |-> channels'[c]],
           \A id \in DOMAIN channels :
              channels'[id] = channels[id] \/ channels'[id] = [channels[id] EXCEPT !.seqs = s[id]]
    PROVE  Keeps /\ KeepsFilters /\ \A id \in DOMAIN channels : channels'[id].rx = channels[id].rx
<1>1. ASSUME NEW id \in DOMAIN channels
      PROVE  /\ DOMAIN channels'[id] = DOMAIN channels[id] /\ channels'[id].rx = channels[id].rx
             /\ channels'[id].conn = channels[id].conn /\ channels'[id].target = channels[id].target
             /\ channels'[id].filters = channels[id].filters
             /\ channels'[id].dev = channels[id].dev
             /\ channels'[id].rx \in Seq(Nat)
  <2>1. Channel(channels[id])
    BY DEF Types
  <2>2. CASE channels'[id] = channels[id]
    BY <2>1, <2>2 DEF Channel
  <2>3. CASE channels'[id] = [channels[id] EXCEPT !.seqs = s[id]]
    BY <2>1, <2>3 DEF Channel
  <2> QED
    BY <2>2, <2>3
<1> QED
  BY <1>1 DEF Keeps, KeepsFilters

LEMMA WriteStep ==
    ASSUME SimInv, NEW t \in Threads, NEW id \in DOMAIN channels, NEW messages \in Writes,
           WriteMsgs(t, id, messages)
    PROVE  SimInv'
<1>0. Types /\ Apart /\ Ordered
  BY DEF SimInv
<1>1. Work(Written(id, messages))
  BY <1>0, WrittenWork, WriteAssumption
<1>2. PICK w : w = Written(id, messages)
  OBVIOUS
<1>3. /\ pending' = w.queue /\ made' = w.n /\ channels' = [channels EXCEPT ![id].seqs = w.seqs]
      /\ phase = "up"
      /\ UNCHANGED <<store, phase, device, filters, nextChannelId, nextFilterId, gens, due,
                     thread, connects, delivered, inOrder, inFlight>>
  BY <1>2 DEF WriteMsgs, Free
<1>4. PICK s : s = [c \in DOMAIN channels |-> w.seqs]
  OBVIOUS
<1>5. /\ DOMAIN channels' = DOMAIN channels /\ channels' = [c \in DOMAIN channels' |-> channels'[c]]
      /\ \A c \in DOMAIN channels :
            channels'[c] = channels[c] \/ channels'[c] = [channels[c] EXCEPT !.seqs = s[c]]
  BY <1>3, <1>4
<1>6. Keeps /\ KeepsFilters /\ \A c \in DOMAIN channels : channels'[c].rx = channels[c].rx
  BY <1>0, <1>3, <1>5, SeqsKeep
<1>7. InLine(pending)'
  BY <1>1, <1>2, <1>3 DEF Work, InLine, Awaits
<1>8. /\ pending' \in Seq(Message) /\ made' \in Nat /\ due' = due /\ gens' = gens /\ Down
      /\ \A m \in Range(pending') \cup Range(gens') : Live(m)
  BY <1>0, <1>1, <1>2, <1>3 DEF Work, Apart, Down
<1>9. \A i \in 1..Len(due') : Live(due'[i]) => \A k \in due'[i].before :
              k \in delivered \/ \E j \in 1..(i - 1) : Same(k, due'[i], due'[j])
  BY <1>0, <1>8 DEF Ordered
<1> QED
  BY <1>0, <1>3, <1>6, <1>7, <1>8, <1>9, ScheduleStep DEF Types

-----------------------------------------------------------------------------
\* The clock

LEMMA LessTyped == \A n \in Nat : Less(n) \in Nat
  BY DEF Less

LEMMA LessKeepsOrder == \A a, b \in Nat : a <= b => Less(a) <= Less(b)
  BY DEF Less

LEMMA MessagesAged ==
    ASSUME NEW q \in Seq(Message), NEW p, p = [i \in DOMAIN q |-> [q[i] EXCEPT !.left = Less(@)]]
    PROVE  /\ p \in Seq(Message) /\ Len(p) = Len(q)
           /\ \A i \in 1..Len(q) :
                /\ p[i].channel = q[i].channel /\ p[i].conn = q[i].conn /\ p[i].n = q[i].n
                /\ p[i].before = q[i].before /\ p[i].left = Less(q[i].left)
<1>1. Len(q) \in Nat /\ DOMAIN q = 1..Len(q) /\ \A i \in 1..Len(q) : q[i] \in Message
  OBVIOUS
<1>2. ASSUME NEW i \in 1..Len(q)
      PROVE  /\ p[i] \in Message
             /\ p[i].channel = q[i].channel /\ p[i].conn = q[i].conn /\ p[i].n = q[i].n
             /\ p[i].before = q[i].before /\ p[i].left = Less(q[i].left)
  <2>1. PICK e \in Message : e = q[i]
    BY <1>1
  <2>2. Less(e.left) \in Nat
    BY <2>1, LessTyped DEF Message
  <2>3. p[i] = [e EXCEPT !.left = Less(e.left)]
    BY <1>1, <2>1
  <2>4. PICK u : u = [e EXCEPT !.left = Less(e.left)]
    OBVIOUS
  <2>5. /\ u \in Message /\ u.channel = e.channel /\ u.conn = e.conn /\ u.n = e.n
        /\ u.before = e.before /\ u.left = Less(e.left)
    BY <2>2, <2>4 DEF Message
  <2> QED
    BY <2>1, <2>3, <2>4, <2>5
<1>3. p = [i \in 1..Len(q) |-> p[i]]
  BY <1>1
<1>4. \A i \in 1..Len(q) : p[i] \in Message
  BY <1>2
<1>5. p \in Seq(Message) /\ Len(p) = Len(q)
  BY <1>1, <1>3, <1>4
<1> QED
  BY <1>2, <1>5

LEMMA GeneratorsAged ==
    ASSUME NEW q \in Seq(Generator), NEW p, NEW left,
           p = [i \in 1..Len(q) |-> p[i]],
           \A i \in 1..Len(q) : p[i] = [q[i] EXCEPT !.left = left[i]],
           \A i \in 1..Len(q) : left[i] \in Nat
    PROVE  /\ p \in Seq(Generator) /\ Len(p) = Len(q)
           /\ \A i \in 1..Len(q) : p[i].channel = q[i].channel /\ p[i].conn = q[i].conn
<1>1. Len(q) \in Nat /\ DOMAIN q = 1..Len(q) /\ \A i \in 1..Len(q) : q[i] \in Generator
  OBVIOUS
<1>2. ASSUME NEW i \in 1..Len(q)
      PROVE  p[i] \in Generator /\ p[i].channel = q[i].channel /\ p[i].conn = q[i].conn
  <2>1. PICK e \in Generator : e = q[i]
    BY <1>1
  <2>2. p[i] = [e EXCEPT !.left = left[i]]
    BY <1>1, <2>1
  <2> QED
    BY <2>1, <2>2 DEF Generator
<1>3. \A i \in 1..Len(q) : p[i] \in Generator
  BY <1>2
<1>4. p \in Seq(Generator) /\ Len(p) = Len(q)
  BY <1>1, <1>3
<1> QED
  BY <1>2, <1>4

LEMMA TickStep == ASSUME SimInv, Tick PROVE SimInv'
<1>0. Types /\ Apart /\ Ordered
  BY DEF SimInv
<1>1. /\ UNCHANGED <<store, phase, device, filters, nextChannelId, nextFilterId, due, connects, made,
                     delivered, inOrder, inFlight>>
      /\ phase # "down" /\ pending \in Seq(Message) /\ gens \in Seq(Generator)
  BY <1>0 DEF Tick, ghosts, Types
<1>2. Keeps /\ KeepsFilters /\ \A c \in DOMAIN channels : channels'[c].rx = channels[c].rx
  <2>1. channels' = [id \in DOMAIN channels |-> [channels[id] EXCEPT !.seqs = Aged(id)]]
    BY DEF Tick
  <2>2. PICK s : s = [id \in DOMAIN channels |-> Aged(id)]
    OBVIOUS
  <2>3. /\ DOMAIN channels' = DOMAIN channels /\ channels' = [c \in DOMAIN channels' |-> channels'[c]]
        /\ \A id \in DOMAIN channels : channels'[id] = [channels[id] EXCEPT !.seqs = s[id]]
    BY <2>1, <2>2
  <2> QED
    BY <1>0, <1>1, <2>3, SeqsKeep
<1>3. PICK p : p = pending' /\ p = [i \in DOMAIN pending |-> [pending[i] EXCEPT !.left = Less(@)]]
  BY DEF Tick
<1>4. /\ p \in Seq(Message) /\ Len(p) = Len(pending)
      /\ \A i \in 1..Len(pending) :
           /\ p[i].channel = pending[i].channel /\ p[i].conn = pending[i].conn /\ p[i].n = pending[i].n
           /\ p[i].before = pending[i].before /\ p[i].left = Less(pending[i].left)
  BY <1>1, <1>3, MessagesAged
<1>5. PICK g : g = gens' /\ g \in Seq(Generator) /\ Len(g) = Len(gens)
               /\ \A i \in 1..Len(gens) : g[i].channel = gens[i].channel /\ g[i].conn = gens[i].conn
  <2>1. PICK left : left = [i \in DOMAIN gens |-> Less(gens[i].left)]
    OBVIOUS
  <2>2. PICK g : g = gens'
    OBVIOUS
  <2>3. /\ g = [i \in 1..Len(gens) |-> g[i]]
        /\ \A i \in 1..Len(gens) : g[i] = [gens[i] EXCEPT !.left = left[i]]
    <3>1. g = [i \in DOMAIN gens |-> [gens[i] EXCEPT !.left = Less(@)]] /\ DOMAIN gens = 1..Len(gens)
      BY <1>1, <2>2 DEF Tick
    <3> QED
      BY <2>1, <3>1
  <2>4. \A i \in 1..Len(gens) : left[i] \in Nat
    <3>1. \A i \in 1..Len(gens) : gens[i] \in Generator /\ i \in DOMAIN gens
      BY <1>1
    <3> QED
      BY <2>1, <3>1, LessTyped DEF Generator
  <2>5. g \in Seq(Generator) /\ Len(g) = Len(gens)
        /\ \A i \in 1..Len(gens) : g[i].channel = gens[i].channel /\ g[i].conn = gens[i].conn
    BY <1>1, <2>3, <2>4, GeneratorsAged
  <2> QED
    BY <2>2, <2>5
<1>6. \A m \in Range(p) \cup Range(g) : Live(m)
  <2>1. ASSUME NEW m \in Range(p) PROVE Live(m)
    <3>1. PICK i \in 1..Len(pending) : m = p[i] /\ pending[i] \in Range(pending)
      BY <1>1, <1>4, RangeOf
    <3> QED
      BY <1>0, <1>4, <3>1 DEF Live, Apart
  <2>2. ASSUME NEW m \in Range(g) PROVE Live(m)
    <3>1. PICK i \in 1..Len(gens) : m = g[i] /\ gens[i] \in Range(gens)
      BY <1>1, <1>5, RangeOf
    <3> QED
      BY <1>0, <1>5, <3>1 DEF Live, Apart
  <2> QED
    BY <2>1, <2>2
<1>7. ASSUME NEW i \in 1..Len(p), NEW k \in p[i].before PROVE Awaits(p[i], k, p, i)
  <2>1. i \in 1..Len(pending) /\ Len(pending) \in Nat /\ pending[i] \in Message
    BY <1>1, <1>4
  <2>2. Awaits(pending[i], k, pending, i)
    BY <1>0, <1>4, <1>7, <2>1 DEF Ordered, InLine
  <2>3. ASSUME NEW j \in 1..(i - 1), Same(k, pending[i], pending[j]), pending[j].left <= pending[i].left
        PROVE  Same(k, p[i], p[j]) /\ p[j].left <= p[i].left
    <3>1. j \in 1..Len(pending) /\ pending[j] \in Message
      BY <1>1, <2>1
    <3>2. Less(pending[j].left) <= Less(pending[i].left)
      BY <2>1, <2>3, <3>1, LessKeepsOrder DEF Message
    <3> QED
      BY <1>4, <2>1, <2>3, <3>1, <3>2 DEF Same
  <2> QED
    BY <1>4, <2>1, <2>2, <2>3 DEF Awaits, Same
<1>8. InLine(pending)'
  BY <1>1, <1>3, <1>7 DEF InLine, Awaits
<1>9. thread' \in [Threads -> Waiting]
  <2>1. ASSUME NEW t \in Threads PROVE [thread[t] EXCEPT !.left = Less(@)] \in Waiting
    <3>1. PICK w \in Waiting : w = thread[t]
      BY <1>0 DEF Types
    <3>2. Less(w.left) \in Nat
      BY LessTyped DEF Waiting
    <3>3. [w EXCEPT !.left = Less(w.left)] \in Waiting
      BY <3>2 DEF Waiting
    <3> QED
      BY <3>1, <3>3
  <2> QED
    BY <2>1 DEF Tick
<1>10. \A i \in 1..Len(due') : Live(due'[i]) => \A k \in due'[i].before :
              k \in delivered \/ \E j \in 1..(i - 1) : Same(k, due'[i], due'[j])
  BY <1>0, <1>1 DEF Ordered
<1>11. due' \in Seq(Message) /\ made' \in Nat /\ Down
  BY <1>0, <1>1 DEF Types, Down
<1> QED
  BY <1>0, <1>1, <1>2, <1>3, <1>4, <1>5, <1>6, <1>8, <1>9, <1>10, <1>11, ScheduleStep DEF SimInv

-----------------------------------------------------------------------------
\* The thread collects a batch

\* What comes before an element that is kept, and is kept, still comes before it.
InOrder(s, S, t, h) ==
  \A i \in 1..Len(t) : \A j \in 1..(h[i] - 1) : s[j] \in S => \E k \in 1..(i - 1) : t[k] = s[j]

LEMMA DrawnBefore ==
    ASSUME NEW s, NEW S, NEW n \in Nat, NEW t, Len(t) \in Nat, NEW h, Drawn(s, S, n, t, h)
    PROVE  InOrder(s, S, t, h)
<1> SUFFICES ASSUME NEW i \in 1..Len(t), NEW j \in 1..(h[i] - 1), s[j] \in S
             PROVE  \E k \in 1..(i - 1) : t[k] = s[j]
  BY DEF InOrder
<1>1. h[i] \in 1..n /\ j \in 1..n
  BY DEF Drawn
<1>2. PICK k \in 1..Len(t) : h[k] = j
  BY <1>1 DEF Drawn
<1>3. t[k] = s[j]
  BY <1>2 DEF Drawn
<1>4. ~(h[i] <= h[k])
  BY <1>1, <1>2
<1>5. k # i /\ ~(i < k)
  BY <1>1, <1>2, <1>4 DEF Drawn
<1>6. k \in 1..(i - 1)
  BY <1>1, <1>5
<1> QED
  BY <1>3, <1>6

LEMMA ScanStep == ASSUME SimInv, Scan PROVE SimInv'
<1>0. Types /\ Apart /\ Ordered
  BY DEF SimInv
<1>n. PICK Now : Now = {m \in Range(pending) : m.left = 0}
  OBVIOUS
<1>l. PICK Later : Later = {m \in Range(pending) : m.left > 0}
  OBVIOUS
<1>f. PICK Firing : Firing = {gen \in Range(gens) :
                               gen.left = 0 /\ Len(channels[gen.channel].rx) < MaxQueue}
  OBVIOUS
<1> DEFINE message(gen) == [channel |-> gen.channel, conn |-> gen.conn, n |-> 0, left |-> 0,
                            before |-> {}]
<1>1. /\ UNCHANGED <<store, phase, device, filters, nextChannelId, nextFilterId, channels, connects,
                     made, delivered, inOrder, inFlight, thread>>
      /\ phase # "down" /\ pending \in Seq(Message) /\ gens \in Seq(Generator) /\ Len(due) = 0
  BY <1>0 DEF Scan, simVars, ghosts, Types
<1>2. PICK now \in Seq(Message) : now = Among(pending, Now)
  BY <1>1, AmongDrawn
<1>3. PICK h : Drawn(pending, Now, Len(pending), now, h)
  BY <1>1, <1>2, AmongDrawn
<1>4. PICK later \in Seq(Message) : later = Among(pending, Later)
  BY <1>1, AmongDrawn
<1>5. PICK l : Drawn(pending, Later, Len(pending), later, l)
  BY <1>1, <1>4, AmongDrawn
<1>6. PICK fired \in Seq(Generator) : fired = Among(gens, Firing) /\ Range(fired) \subseteq Range(gens)
  BY <1>1, AmongRange
<1>7. PICK news : news = [i \in DOMAIN fired |-> message(fired[i])]
  OBVIOUS
<1>8. due' = now \o news /\ pending' = later
  BY <1>n, <1>l, <1>f, <1>2, <1>4, <1>6, <1>7 DEF Scan
<1>i. /\ \A m : m \in Now <=> m \in Range(pending) /\ m.left = 0
      /\ \A m : m \in Later <=> m \in Range(pending) /\ m.left > 0
  BY <1>n, <1>l
<1>9. /\ news \in Seq(Message) /\ Len(news) = Len(fired) /\ Len(fired) \in Nat
      /\ \A i \in 1..Len(fired) :
            /\ news[i].channel = fired[i].channel /\ news[i].conn = fired[i].conn
            /\ news[i].before = {}
  <2>1. Len(fired) \in Nat /\ DOMAIN fired = 1..Len(fired) /\ \A i \in 1..Len(fired) : fired[i] \in Generator
    OBVIOUS
  <2>2. \A i \in 1..Len(fired) : news[i] = message(fired[i])
    BY <1>7, <2>1
  <2>3. \A gen \in Generator : message(gen) \in Message
    BY DEF Message, Generator
  <2>4. \A gen : /\ message(gen).channel = gen.channel /\ message(gen).conn = gen.conn
                 /\ message(gen).before = {}
    OBVIOUS
  <2> HIDE DEF message
  <2>5. news = [i \in 1..Len(fired) |-> news[i]] /\ \A i \in 1..Len(fired) : news[i] \in Message
    BY <1>7, <2>1, <2>2, <2>3
  <2>6. news \in Seq(Message) /\ Len(news) = Len(fired)
    BY <2>1, <2>5
  <2> QED
    BY <2>1, <2>2, <2>4, <2>6
<1> HIDE DEF message
<1>10. PICK u : u = now \o news
  OBVIOUS
<1>11. /\ u = due' /\ u \in Seq(Message) /\ Len(u) = Len(now) + Len(fired) /\ Len(now) \in Nat
       /\ \A i \in 1..Len(now) : u[i] = now[i]
       /\ \A i \in 1..Len(fired) : u[Len(now) + i] = news[i]
  <2>1. /\ u \in Seq(Message) /\ Len(u) = Len(now) + Len(news) /\ Len(now) \in Nat
        /\ \A i \in 1..Len(now) : u[i] = now[i]
        /\ \A i \in 1..Len(news) : u[Len(now) + i] = news[i]
    <3>1. news \in Seq(Message)
      BY <1>9
    <3> QED
      BY <1>10, <3>1
  <2> QED
    BY <1>8, <1>9, <1>10, <2>1
<1>12. \A i \in 1..Len(u) : i \in 1..Len(now) \/ \E j \in 1..Len(fired) : i = Len(now) + j
  <2>1. ASSUME NEW i \in 1..Len(u), i \notin 1..Len(now)
        PROVE  i - Len(now) \in 1..Len(fired) /\ i = Len(now) + (i - Len(now))
    BY <1>9, <1>11, <2>1
  <2> QED
    BY <2>1
<1>13. ASSUME NEW i \in 1..Len(now) PROVE /\ h[i] \in 1..Len(pending) /\ now[i] = pending[h[i]]
                                          /\ now[i] \in Now
  BY <1>3 DEF Drawn
<1>14. ASSUME NEW i \in 1..Len(later) PROVE /\ l[i] \in 1..Len(pending) /\ later[i] = pending[l[i]]
                                            /\ later[i] \in Later
  BY <1>5 DEF Drawn
<1>15. ASSUME NEW m \in Range(due') PROVE Live(m)
  <2>1. PICK i \in 1..Len(u) : m = u[i]
    BY <1>11, <1>15, RangeOf
  <2>2. CASE i \in 1..Len(now)
    BY <1>0, <1>i, <1>11, <1>13, <2>1, <2>2 DEF Apart
  <2>3. ASSUME NEW j \in 1..Len(fired), i = Len(now) + j PROVE Live(m)
    <3>1. fired[j] \in Range(gens)
      BY <1>6, RangeOf
    <3>2. Live(fired[j])
      BY <1>0, <3>1 DEF Apart
    <3>3. m.channel = fired[j].channel /\ m.conn = fired[j].conn
      BY <1>9, <1>11, <2>1, <2>3
    <3> QED
      BY <3>2, <3>3 DEF Live
  <2> QED
    BY <1>12, <2>2, <2>3
<1>16. PICK g : g = gens' /\ g \in Seq(Generator) /\ Len(g) = Len(gens)
               /\ \A i \in 1..Len(gens) : g[i].channel = gens[i].channel /\ g[i].conn = gens[i].conn
  <2>1. PICK left : left = [i \in DOMAIN gens |-> IF gens[i].left > 0 THEN gens[i].left
                                                  ELSE gens[i].interval]
    OBVIOUS
  <2>2. PICK g : g = gens'
    OBVIOUS
  <2>3. DOMAIN gens = 1..Len(gens) /\ \A i \in 1..Len(gens) : gens[i] \in Generator
    BY <1>1
  <2>4. /\ g = [i \in 1..Len(gens) |-> g[i]]
        /\ \A i \in 1..Len(gens) : g[i] = IF gens[i].left > 0 THEN gens[i]
                                          ELSE [gens[i] EXCEPT !.left = gens[i].interval]
    BY <2>2, <2>3 DEF Scan
  <2>5. \A e \in Generator : [e EXCEPT !.left = e.left] = e
    BY DEF Generator
  <2>6. /\ \A i \in 1..Len(gens) : left[i] \in Nat
        /\ \A i \in 1..Len(gens) : g[i] = [gens[i] EXCEPT !.left = left[i]]
    <3>1. ASSUME NEW i \in 1..Len(gens) PROVE left[i] \in Nat /\ g[i] = [gens[i] EXCEPT !.left = left[i]]
      <4>1. PICK e \in Generator : e = gens[i]
        BY <2>3
      <4>2. left[i] = IF e.left > 0 THEN e.left ELSE e.interval
        BY <2>1, <2>3, <4>1
      <4>3. left[i] \in Nat
        BY <4>2 DEF Generator
      <4> QED
        BY <2>4, <2>5, <4>1, <4>2, <4>3
    <3> QED
      BY <3>1
  <2>7. g \in Seq(Generator) /\ Len(g) = Len(gens)
        /\ \A i \in 1..Len(gens) : g[i].channel = gens[i].channel /\ g[i].conn = gens[i].conn
    <3>1. g = [i \in 1..Len(gens) |-> g[i]] /\ gens \in Seq(Generator)
      BY <1>1, <2>4
    <3> QED
      BY <2>6, <3>1, GeneratorsAged
  <2> QED
    BY <2>2, <2>7
<1>17. \A m \in Range(pending') \cup Range(gens') : Live(m)
  <2>1. ASSUME NEW m \in Range(later) PROVE Live(m)
    <3>1. PICK i \in 1..Len(later) : m = later[i]
      BY <2>1, RangeOf
    <3> QED
      BY <1>0, <1>i, <1>14, <3>1 DEF Apart
  <2>2. ASSUME NEW m \in Range(g) PROVE Live(m)
    <3>1. PICK i \in 1..Len(gens) : m = g[i] /\ gens[i] \in Range(gens)
      BY <1>1, <1>16, <2>2, RangeOf
    <3> QED
      BY <1>0, <1>16, <3>1 DEF Live, Apart
  <2> QED
    BY <1>8, <1>16, <2>1, <2>2
<1>18. ASSUME NEW i \in 1..Len(u), Live(u[i]), NEW k \in u[i].before
       PROVE  k \in delivered \/ \E j \in 1..(i - 1) : Same(k, u[i], u[j])
  <2>1. i \in 1..Len(now)
    BY <1>9, <1>11, <1>12, <1>18
  <2>2. u[i] = pending[h[i]] /\ h[i] \in 1..Len(pending) /\ u[i].left = 0
    BY <1>i, <1>11, <1>13, <2>1
  <2>3. Awaits(pending[h[i]], k, pending, h[i])
    BY <1>0, <1>18, <2>2 DEF Ordered, InLine
  <2>4. ASSUME NEW j \in 1..(h[i] - 1), Same(k, pending[h[i]], pending[j]), pending[j].left <= pending[h[i]].left
        PROVE  \E j2 \in 1..(i - 1) : Same(k, u[i], u[j2])
    <3>1. j \in 1..Len(pending) /\ pending[j] \in Message /\ pending[j] \in Range(pending)
      BY <1>1, <2>2, RangeOf
    <3>2. pending[j] \in Now
      BY <1>i, <2>2, <2>4, <3>1 DEF Message
    <3>3. PICK j2 \in 1..(i - 1) : now[j2] = pending[j]
      <4>1. Len(now) \in Nat /\ Len(pending) \in Nat
        BY <1>1
      <4>2. InOrder(pending, Now, now, h)
        BY <1>3, <4>1, DrawnBefore
      <4> QED
        BY <2>1, <3>2, <4>2 DEF InOrder
    <3>4. u[j2] = pending[j]
      BY <1>11, <2>1, <3>3
    <3> QED
      BY <2>2, <2>4, <3>4
  <2> QED
    BY <1>1, <2>3, <2>4 DEF Awaits
<1>19. ASSUME NEW i \in 1..Len(later), NEW k \in later[i].before
       PROVE  \/ k \in delivered
              \/ \E j \in 1..Len(u) : Same(k, later[i], u[j])
              \/ \E j \in 1..(i - 1) : Same(k, later[i], later[j]) /\ later[j].left <= later[i].left
  <2>2. later[i] = pending[l[i]] /\ l[i] \in 1..Len(pending)
    BY <1>14
  <2>3. Awaits(pending[l[i]], k, pending, l[i])
    BY <1>0, <1>19, <2>2 DEF Ordered, InLine
  <2>4. ASSUME NEW j \in 1..(l[i] - 1), Same(k, pending[l[i]], pending[j]), pending[j].left <= pending[l[i]].left
        PROVE  \/ \E j2 \in 1..Len(u) : Same(k, later[i], u[j2])
               \/ \E j2 \in 1..(i - 1) : Same(k, later[i], later[j2]) /\ later[j2].left <= later[i].left
    <3>1. j \in 1..Len(pending) /\ pending[j] \in Message /\ pending[j] \in Range(pending)
      BY <1>1, <2>2, RangeOf
    <3>2. pending[j] \in Now \/ pending[j] \in Later
      <4>1. pending[j].left \in Nat
        BY <3>1 DEF Message
      <4> QED
        BY <1>i, <3>1, <4>1
    <3>3. CASE pending[j] \in Now
      <4>1. PICK j2 \in 1..Len(now) : h[j2] = j
        BY <1>3, <3>1, <3>3 DEF Drawn
      <4>2. u[j2] = pending[j] /\ j2 \in 1..Len(u)
        BY <1>9, <1>11, <1>13, <4>1
      <4> QED
        BY <2>2, <2>4, <4>2
    <3>4. CASE pending[j] \in Later
      <4>1. PICK j2 \in 1..(i - 1) : later[j2] = pending[j]
        <5>1. Len(later) \in Nat /\ Len(pending) \in Nat
          BY <1>1
        <5>2. InOrder(pending, Later, later, l)
          BY <1>5, <5>1, DrawnBefore
        <5> QED
          BY <3>4, <5>2 DEF InOrder
      <4> QED
        BY <2>2, <2>4, <4>1
    <3> QED
      BY <3>2, <3>3, <3>4
  <2> QED
    BY <1>1, <2>2, <2>3, <2>4 DEF Awaits
<1>20. InLine(pending)'
  <2>1. ASSUME NEW i \in 1..Len(pending'), NEW k \in pending'[i].before
        PROVE  \/ k \in delivered'
               \/ \E j \in 1..Len(due') : Same(k, pending'[i], due'[j])
               \/ \E j \in 1..(i - 1) : Same(k, pending'[i], pending'[j]) /\ pending'[j].left <= pending'[i].left
    BY <1>1, <1>8, <1>11, <1>19, <2>1
  <2> QED
    BY <2>1 DEF InLine, Awaits, Same
<1>21. Keeps /\ KeepsFilters /\ \A c \in DOMAIN channels : channels'[c].rx = channels[c].rx
  BY <1>0, <1>1, NothingTaken DEF KeepsFilters
<1>22. Down /\ made' \in Nat /\ thread' \in [Threads -> Waiting]
  BY <1>0, <1>1 DEF Down, Types
<1>23. \A i \in 1..Len(due') : Live(due'[i]) => \A k \in due'[i].before :
              k \in delivered \/ \E j \in 1..(i - 1) : Same(k, due'[i], due'[j])
  BY <1>11, <1>18
<1> QED
  BY <1>1, <1>8, <1>11, <1>15, <1>16, <1>17, <1>20, <1>21, <1>22, <1>23, ScheduleStep

-----------------------------------------------------------------------------
\* The thread delivers a message

\* A step that changes what has been received on channel id alone.
LEMMA RxKeeps ==
    ASSUME Types, NEW id \in DOMAIN channels, NEW rx \in Seq(Nat),
           channels' = [channels EXCEPT ![id].rx = rx],
           UNCHANGED <<store, connects, filters, nextFilterId, device>>
    PROVE  /\ Keeps /\ KeepsFilters /\ channels'[id].rx = rx
           /\ \A c \in DOMAIN channels : c # id => channels'[c].rx = channels[c].rx
<1>1. \A c \in DOMAIN channels : Channel(channels[c])
  BY DEF Types
<1>2. DOMAIN channels' = DOMAIN channels /\ channels' = [c \in DOMAIN channels' |-> channels'[c]]
  OBVIOUS
<1>3. channels'[id] = [channels[id] EXCEPT !.rx = rx]
  OBVIOUS
<1>4. \A c \in DOMAIN channels : c # id => channels'[c] = channels[c]
  OBVIOUS
<1>5. /\ DOMAIN channels'[id] = DOMAIN channels[id] /\ channels'[id].rx = rx
      /\ channels'[id].conn = channels[id].conn /\ channels'[id].target = channels[id].target
      /\ channels'[id].filters = channels[id].filters /\ channels'[id].dev = channels[id].dev
  BY <1>1, <1>3 DEF Channel
<1> QED
  BY <1>1, <1>2, <1>4, <1>5 DEF Keeps, KeepsFilters, Channel

LEMMA DeliverStep == ASSUME SimInv, DeliverRx PROVE SimInv'
<1>0. Types /\ Apart /\ Ordered
  BY DEF SimInv
<1>1. /\ UNCHANGED <<store, phase, device, filters, nextChannelId, nextFilterId, pending, gens,
                     connects, made, inFlight>>
      /\ due \in Seq(Message) /\ due # <<>> /\ Down
  BY <1>0 DEF DeliverRx, Types, Down
<1>2. PICK d : d = due' /\ d \in Seq(Message) /\ Len(d) = Len(due) - 1
               /\ Len(due) \in Nat /\ Len(due) >= 1
               /\ \A i \in 1..(Len(due) - 1) : d[i] = due[i + 1]
  <2>1. PICK d : d = Tail(due)
    OBVIOUS
  <2>2. /\ d \in Seq(Message) /\ Len(d) = Len(due) - 1 /\ Len(due) \in Nat /\ Len(due) >= 1
        /\ \A i \in 1..(Len(due) - 1) : d[i] = due[i + 1]
    BY <1>1, <2>1, Shortened
  <2> QED
    BY <2>1, <2>2 DEF DeliverRx
<1>3. PICK m \in Message : m = Head(due) /\ m = due[1] /\ m \in Range(due)
  BY <1>1, <1>2, Shortened, RangeOf
<1>4. \/ /\ m.channel \in DOMAIN channels
         /\ channels' = [channels EXCEPT ![m.channel].rx = Append(@, m.conn)]
         /\ thread' \in WakeOne
         /\ Live(m) => /\ delivered' = delivered \cup {m.n}
                       /\ inOrder' = (inOrder /\ m.before \subseteq delivered)
         /\ ~Live(m) => UNCHANGED <<delivered, inOrder>>
      \/ m.channel \notin DOMAIN channels /\ UNCHANGED <<channels, thread, delivered, inOrder>>
  BY <1>3 DEF DeliverRx, Live
<1>5. \A c \in DOMAIN channels : channels[c].rx \in Seq(Nat)
  BY <1>0 DEF Types, Channel
<1>6. /\ Keeps /\ KeepsFilters
      /\ \A c \in DOMAIN channels : \A conn \in Range(channels'[c].rx) :
            conn \in Range(channels[c].rx) \/ (c = m.channel /\ conn = m.conn)
  <2>1. CASE m.channel \in DOMAIN channels
    <3>1. PICK rx : rx = Append(channels[m.channel].rx, m.conn)
      OBVIOUS
    <3>2. PICK old \in Seq(Nat) : old = channels[m.channel].rx
      BY <1>5, <2>1
    <3>3. /\ rx \in Seq(Nat)
          /\ \A conn \in Range(rx) : conn \in Range(channels[m.channel].rx) \/ conn = m.conn
      <4>1. PICK own \in Nat : own = m.conn
        BY DEF Message
      <4>2. PICK t : t = Append(old, own)
        OBVIOUS
      <4>3. t \in Seq(Nat) /\ Range(t) \subseteq Range(old) \cup {own}
        BY <4>2, AppendedRange
      <4>4. t = rx
        BY <3>1, <3>2, <4>1, <4>2
      <4> QED
        BY <3>2, <4>1, <4>3, <4>4
    <3>4. channels' = [channels EXCEPT ![m.channel].rx = rx]
      BY <1>4, <2>1, <3>1
    <3>5. /\ Keeps /\ KeepsFilters /\ channels'[m.channel].rx = rx
          /\ \A c \in DOMAIN channels : c # m.channel => channels'[c].rx = channels[c].rx
      BY <1>0, <1>1, <2>1, <3>3, <3>4, RxKeeps
    <3> QED
      BY <3>3, <3>5
  <2>2. CASE m.channel \notin DOMAIN channels
    <3>1. UNCHANGED channels
      BY <1>4, <2>2
    <3> QED
      BY <1>0, <1>1, <3>1, NothingTaken DEF KeepsFilters
  <2> QED
    BY <2>1, <2>2
<1>7. thread' \in [Threads -> Waiting]
  <2>1. thread \in [Threads -> Waiting]
    BY <1>0 DEF Types
  <2>2. ASSUME NEW t \in Threads PROVE [thread EXCEPT ![t].woken = TRUE] \in [Threads -> Waiting]
    <3>1. PICK w \in Waiting : w = thread[t]
      BY <2>1
    <3>2. [w EXCEPT !.woken = TRUE] \in Waiting
      BY DEF Waiting
    <3> QED
      BY <2>1, <3>1, <3>2
  <2>3. ASSUME thread' \in WakeOne PROVE thread' \in [Threads -> Waiting]
    BY <2>1, <2>2, <2>3 DEF WakeOne
  <2> QED
    BY <1>4, <2>1, <2>3
<1>8. \A x : Live(x)' <=> Live(x)
  BY <1>0, <1>6, ChannelsKept
<1>9. Range(due') \subseteq Range(due)
  <2>1. ASSUME NEW x \in Range(d) PROVE x \in Range(due)
    <3>1. PICK i \in 1..Len(d) : x = d[i]
      BY <1>2, <2>1, RangeOf
    <3>2. x = due[i + 1] /\ i + 1 \in 1..Len(due)
      BY <1>2, <3>1
    <3> QED
      BY <1>1, <3>2, RangeOf
  <2> QED
    BY <1>2, <2>1
<1>10. Types'
  <2>1. /\ \A id \in DOMAIN channels' : Channel(channels[id])'
        /\ DOMAIN channels' \subseteq Nat /\ IsFiniteSet(DOMAIN channels')
        /\ channels' = [id \in DOMAIN channels' |-> channels'[id]]
        /\ StoreOK' /\ connects' \in Nat
    BY <1>0, <1>6, ChannelsKept
  <2> QED
    BY <1>0, <1>1, <1>2, <1>6, <1>7, <2>1 DEF Types, KeepsFilters
<1>11. Apart'
  <2>1. phase = "down" => channels' = channels
    <3>1. phase = "down" => m.channel \notin DOMAIN channels
      BY <1>0 DEF Apart
    <3> QED
      BY <1>4, <3>1
  <2>2. \A x \in Range(pending') \cup Range(gens') : Live(x)
    BY <1>0, <1>1 DEF Apart
  <2> QED
    BY <1>0, <1>1, <1>6, <1>9, <2>1, <2>2, ApartKept
<1>12. NothingOutlives'
  <2>1. ASSUME m.channel \in DOMAIN channels PROVE m.conn = channels[m.channel].conn \/ m.conn \in inFlight
    <3>1. phase # "down"
      BY <1>0, <2>1 DEF Apart
    <3> QED
      BY <1>0, <1>3, <3>1 DEF Apart, Live
  <2> QED
    BY <1>1, <1>6, <2>1, OutlivesKept DEF SimInv
<1>13. Held'
  BY <1>6, HeldKept DEF SimInv
<1>14. /\ \A k \in delivered : k \in delivered' /\ (Live(m) => m.n \in delivered')
       /\ Live(m) => m.n \in delivered'
  BY <1>4 DEF Live
<1>15. ASSUME NEW i \in 1..Len(pending), NEW k \in pending[i].before
       PROVE  \/ k \in delivered'
              \/ \E j \in 1..Len(d) : Same(k, pending[i], d[j])
              \/ \E j \in 1..(i - 1) : Same(k, pending[i], pending[j]) /\ pending[j].left <= pending[i].left
  <2>1. Awaits(pending[i], k, pending, i)
    BY <1>0, <1>15 DEF Ordered, InLine
  <2>2. Live(pending[i])
    <3>1. pending[i] \in Range(pending)
      BY <1>0, RangeOf DEF Types
    <3> QED
      BY <1>0, <3>1 DEF Apart
  <2>3. ASSUME NEW j \in 1..Len(due), Same(k, pending[i], due[j])
        PROVE  k \in delivered' \/ \E j2 \in 1..Len(d) : Same(k, pending[i], d[j2])
    <3>1. CASE j = 1
      <4>1. Live(m) /\ m.n = k
        BY <1>3, <2>2, <2>3, <3>1 DEF Same, Live
      <4> QED
        BY <1>14, <4>1
    <3>2. CASE j # 1
      <4>1. j - 1 \in 1..Len(d) /\ d[j - 1] = due[j]
        BY <1>2, <3>2
      <4> QED
        BY <2>3, <4>1
    <3> QED
      BY <3>1, <3>2
  <2> QED
    BY <1>14, <2>1, <2>3 DEF Awaits
<1>16. ASSUME NEW i \in 1..Len(d), Live(d[i]), NEW k \in d[i].before
       PROVE  k \in delivered' \/ \E j \in 1..(i - 1) : Same(k, d[i], d[j])
  <2>1. d[i] = due[i + 1] /\ i + 1 \in 1..Len(due)
    BY <1>2
  <2>2. k \in delivered \/ \E j \in 1..((i + 1) - 1) : Same(k, d[i], due[j])
    BY <1>0, <1>16, <2>1 DEF Ordered
  <2>3. ASSUME NEW j \in 1..((i + 1) - 1), Same(k, d[i], due[j])
        PROVE  k \in delivered' \/ \E j2 \in 1..(i - 1) : Same(k, d[i], d[j2])
    <3>1. CASE j = 1
      <4>1. Live(m) /\ m.n = k
        BY <1>3, <1>16, <2>3, <3>1 DEF Same, Live
      <4> QED
        BY <1>14, <4>1
    <3>2. CASE j # 1
      <4>1. j - 1 \in 1..(i - 1) /\ d[j - 1] = due[j]
        BY <1>2, <3>2
      <4> QED
        BY <2>3, <4>1
    <3> QED
      BY <3>1, <3>2
  <2> QED
    BY <1>14, <2>2, <2>3
<1>17. inOrder'
  <2>1. inOrder
    BY <1>0 DEF Ordered
  <2>2. ASSUME Live(m), NEW k \in m.before PROVE k \in delivered
    <3>1. 1 \in 1..Len(due) /\ 1..(1 - 1) = {}
      BY <1>2
    <3> QED
      BY <1>0, <1>3, <2>2, <3>1 DEF Ordered
  <2> QED
    BY <1>4, <2>1, <2>2
<1>18. Ordered'
  <2>1. InLine(pending)'
    BY <1>1, <1>2, <1>15 DEF InLine, Awaits, Same
  <2>2. ASSUME NEW i \in 1..Len(due'), Live(due[i])', NEW k \in due'[i].before
        PROVE  k \in delivered' \/ \E j \in 1..(i - 1) : Same(k, due'[i], due'[j])
    <3>1. Live(d[i])
      BY <1>2, <1>8, <2>2
    <3> QED
      BY <1>2, <1>16, <2>2, <3>1
  <2> QED
    BY <1>17, <2>1, <2>2 DEF Ordered, Same
<1> QED
  BY <1>10, <1>11, <1>12, <1>13, <1>18 DEF SimInv

-----------------------------------------------------------------------------
\* Connections

\* connect() and disconnect() leave the device's id alone.
LEMMA MovedKeeps ==
    ASSUME {"id", "state"} \subseteq DOMAIN device, NEW event, Moved(event)
    PROVE  {"id", "state"} \subseteq DOMAIN device' /\ device'.id = device.id
  BY DEF Moved

LEMMA StartedTyped ==
    ASSUME Types, NEW id \in Nat, NEW target, TargetOK(target), NEW g, g = StartPeriodic(id, target)
    PROVE  /\ g \in Seq(Generator)
           /\ \A m \in Range(g) : m \in Range(gens) \/ (m.channel = id /\ m.conn = connects + 1)
<1> DEFINE first(rule) == IF Instant THEN 0 ELSE StartDelay + rule.interval
           generator(rule) == [channel |-> id, conn |-> connects + 1, interval |-> rule.interval,
                               left |-> first(rule)]
<1>1. PICK chosen : chosen = {rule \in Range(target.periodic) : rule.onConnect}
  OBVIOUS
<1>2. PICK started : /\ started = Among(target.periodic, chosen)
                     /\ started \in Seq(Range(target.periodic))
  BY AmongRange DEF TargetOK, IsSeq
<1>3. PICK news : news = [i \in DOMAIN started |-> generator(started[i])]
  OBVIOUS
<1>4. g = gens \o news
  BY <1>1, <1>2, <1>3 DEF StartPeriodic
<1>5. Len(started) \in Nat /\ DOMAIN started = 1..Len(started)
      /\ \A i \in 1..Len(started) : started[i] \in Range(target.periodic)
  BY <1>2
<1>6. \A r \in Range(target.periodic) : r.interval \in Nat
  BY DEF TargetOK
<1>7. connects + 1 \in Nat /\ gens \in Seq(Generator)
  BY DEF Types
<1>8. \A r \in Range(target.periodic) :
         /\ generator(r) \in Generator
         /\ generator(r).channel = id /\ generator(r).conn = connects + 1
  <2>1. ASSUME NEW r \in Range(target.periodic) PROVE first(r) \in Nat
    BY <1>6, DelayAssumption
  <2> HIDE DEF first
  <2> QED
    BY <1>6, <1>7, <2>1 DEF Generator
<1> HIDE DEF generator
<1>9. \A i \in 1..Len(started) : /\ news[i] \in Generator
                                 /\ news[i].channel = id /\ news[i].conn = connects + 1
  BY <1>3, <1>5, <1>8
<1>10. news \in Seq(Generator) /\ Len(news) = Len(started)
  <2>1. \A i \in 1..Len(started) : news[i] \in Generator
    BY <1>9
  <2>2. news = [i \in 1..Len(started) |-> news[i]]
    BY <1>3, <1>5
  <2> QED
    BY <1>5, <2>1, <2>2
<1>11. /\ g \in Seq(Generator) /\ Len(g) = Len(gens) + Len(news) /\ Len(gens) \in Nat
       /\ \A i \in 1..Len(gens) : g[i] = gens[i]
       /\ \A i \in 1..Len(news) : g[Len(gens) + i] = news[i]
  <2>1. news \in Seq(Generator)
    BY <1>10
  <2> QED
    BY <1>4, <1>7, <2>1
<1>12. ASSUME NEW m \in Range(g) PROVE m \in Range(gens) \/ (m.channel = id /\ m.conn = connects + 1)
  <2>1. PICK i \in 1..Len(g) : m = g[i]
    BY <1>11, <1>12, RangeOf
  <2>2. CASE i \in 1..Len(gens)
    BY <1>7, <1>11, <2>1, <2>2, RangeOf
  <2>3. CASE i \notin 1..Len(gens)
    <3>1. i - Len(gens) \in 1..Len(news) /\ i = Len(gens) + (i - Len(gens))
      BY <1>5, <1>10, <1>11, <2>3
    <3>2. m = news[i - Len(gens)]
      BY <1>11, <2>1, <3>1
    <3> QED
      BY <1>9, <1>10, <3>1, <3>2
  <2> QED
    BY <2>2, <2>3
<1> QED
  BY <1>11, <1>12

LEMMA ConnectStep ==
    ASSUME SimInv, NEW t \in Threads, NEW handle, NEW params, Connect(t, handle, params)
    PROVE  SimInv'
<1>0. Types /\ Apart /\ Ordered /\ Held
  BY DEF SimInv
<1>1. /\ UNCHANGED <<store, phase, filters, nextFilterId, pending, due, thread, made, delivered,
                     inOrder, inFlight>>
      /\ handle = device.id /\ phase = "up" /\ connects' = connects + 1 /\ connects \in Nat
  BY <1>0 DEF Connect, Free, Types
<1>2. PICK n : n = FindTarget(params)
  OBVIOUS
<1>3. PICK preferred \in Nat : preferred = IF n = 0 THEN 0 ELSE store.targets[n].preferred
  BY <1>0, <1>2, TargetFound DEF Types, TargetOK
<1>4. PICK id \in Nat : id = AllocateChannelId(preferred) /\ id \notin DOMAIN channels
  BY <1>0, AllocatesFree DEF Types
<1>5. PICK c : c = [conn |-> connects + 1, dev |-> handle, target |-> n, rx |-> <<>>,
                    filters |-> {}, seqs |-> <<>>]
  OBVIOUS
<1>6. /\ channels' = With(channels, id, c)
      /\ nextChannelId' = IF id # preferred /\ id >= nextChannelId THEN id + 1 ELSE nextChannelId
      /\ gens' = IF n = 0 THEN gens ELSE StartPeriodic(id, store.targets[n])
      /\ Moved("PassThruConnect")
  BY <1>2, <1>3, <1>4, <1>5 DEF Connect
<1>7. n = 0 \/ (n \in DOMAIN store.targets /\ TargetOK(store.targets[n]))
  BY <1>0, <1>2, TargetFound DEF Types
<1>8. /\ DOMAIN channels' = DOMAIN channels \cup {id} /\ channels'[id] = c
      /\ channels' = [a \in DOMAIN channels' |-> channels'[a]]
      /\ \A a \in DOMAIN channels : channels'[a] = channels[a] /\ a # id
  BY <1>4, <1>6 DEF With
<1>9. /\ DOMAIN c = {"conn", "dev", "target", "rx", "filters", "seqs"}
      /\ c.dev = handle /\ c.conn = connects + 1 /\ c.target = n /\ c.rx = <<>> /\ c.filters = {}
  BY <1>5
<1>10. \A a \in DOMAIN channels : channels[a].conn \in 1..connects
  BY <1>0 DEF Types, Channel
<1>11. PICK g : /\ g = gens' /\ g \in Seq(Generator)
                /\ \A m \in Range(g) : m \in Range(gens) \/ (m.channel = id /\ m.conn = connects + 1)
  <2>1. CASE n = 0
    BY <1>0, <1>6, <2>1 DEF Types
  <2>2. CASE n # 0
    BY <1>0, <1>6, <1>7, <2>2, StartedTyped
  <2> QED
    BY <2>1, <2>2
<1>12. \A m : Live(m) => Live(m)'
  BY <1>8 DEF Live
<1>13. \A m : Live(m)' => Live(m) \/ (m.channel = id /\ m.conn = connects + 1)
  BY <1>8, <1>9 DEF Live
<1>14. \A m : m.channel = id /\ m.conn = connects + 1 => Live(m)'
  BY <1>8, <1>9 DEF Live
<1>15. Types'
  <2>1. ASSUME NEW a \in DOMAIN channels' PROVE Channel(channels[a])'
    <3>1. CASE a = id
      <4>1. c.rx \in Seq(Nat) /\ c.conn \in 1..connects'
        BY <1>1, <1>9
      <4>2. c.target = 0 \/ (c.target \in DOMAIN store'.targets /\ TargetOK(store'.targets[c.target]))
        BY <1>1, <1>7, <1>9
      <4> QED
        BY <1>8, <1>9, <3>1, <4>1, <4>2 DEF Channel, TargetOK
    <3>2. CASE a \in DOMAIN channels
      <4>1. Channel(channels[a])
        BY <1>0, <3>2 DEF Types
      <4>2. 1..connects \subseteq 1..connects'
        BY <1>1
      <4> QED
        BY <1>1, <1>8, <3>2, <4>1, <4>2 DEF Channel, TargetOK
    <3> QED
      BY <1>8, <3>1, <3>2
  <2>2. DOMAIN channels' \subseteq Nat /\ IsFiniteSet(DOMAIN channels')
    BY <1>0, <1>8, FS_AddElement DEF Types
  <2>3. StoreOK'
    BY <1>0, <1>1 DEF Types, StoreOK, TargetOK
  <2>4. nextChannelId' \in Nat /\ connects' \in Nat
    BY <1>0, <1>1, <1>6 DEF Types
  <2>5. {"id", "state"} \subseteq DOMAIN device'
    BY <1>0, <1>6, MovedKeeps DEF Types
  <2> QED
    BY <1>0, <1>1, <1>8, <1>11, <2>1, <2>2, <2>3, <2>4, <2>5 DEF Types
<1>16. Apart'
  <2>1. ASSUME NEW a \in DOMAIN channels', NEW b \in DOMAIN channels', channels'[a].conn = channels'[b].conn
        PROVE  a = b
    BY <1>0, <1>1, <1>8, <1>9, <1>10, <2>1 DEF Apart
  <2>2. ASSUME NEW m \in Range(due')
        PROVE  /\ m.conn \in 1..connects'
               /\ \A a \in DOMAIN channels' : channels'[a].conn = m.conn => a = m.channel
               /\ phase' # "down" => Live(m)' \/ m.conn \in inFlight'
    <3>1. m \in Range(due) /\ m.conn \in 1..connects
      BY <1>0, <1>1, <2>2 DEF Apart
    <3>2. m.conn \in 1..connects' /\ m.conn # connects + 1
      BY <1>1, <3>1
    <3>3. \A a \in DOMAIN channels' : channels'[a].conn = m.conn => a = m.channel
      BY <1>0, <1>8, <1>9, <3>1, <3>2 DEF Apart
    <3> QED
      BY <1>0, <1>1, <1>12, <3>1, <3>2, <3>3 DEF Apart
  <2>3. \A m \in Range(pending') \cup Range(gens') : Live(m)'
    BY <1>0, <1>1, <1>11, <1>12, <1>14 DEF Apart
  <2> QED
    BY <1>1, <2>1, <2>2, <2>3 DEF Apart
<1>17. NothingOutlives'
  <2>1. Range(c.rx) = {}
    BY <1>9 DEF Range
  <2> QED
    BY <1>1, <1>8, <2>1 DEF SimInv, NothingOutlives
<1>18. Held'
  <2>1. device'.id = device.id
    BY <1>0, <1>6, MovedKeeps DEF Types
  <2>2. device'.id = 0 => \A a \in DOMAIN channels' : channels'[a].dev = 0
    BY <1>0, <1>1, <1>8, <1>9, <2>1 DEF Held
  <2> QED
    BY <1>0, <1>1, <1>8, <1>9, <2>2 DEF Held
<1>19. Ordered'
  <2>1. InLine(pending)'
    BY <1>0, <1>1 DEF Ordered, InLine, Awaits
  <2>2. ASSUME NEW i \in 1..Len(due'), Live(due[i])' PROVE Live(due[i])
    <3>1. due[i] \in Range(due)
      BY <1>0, <1>1, RangeOf DEF Types
    <3>2. due[i].conn # connects + 1
      BY <1>0, <1>1, <3>1 DEF Apart
    <3> QED
      BY <1>1, <1>13, <2>2, <3>2
  <2> QED
    BY <1>0, <1>1, <2>1, <2>2 DEF Ordered
<1> QED
  BY <1>15, <1>16, <1>17, <1>18, <1>19 DEF SimInv

LEMMA DisconnectStep ==
    ASSUME SimInv, NEW t \in Threads, NEW id \in DOMAIN channels, Disconnect(t, id)
    PROVE  SimInv'
<1>0. Types /\ Apart /\ Ordered /\ Held
  BY DEF SimInv
<1>1. /\ UNCHANGED <<store, phase, nextChannelId, nextFilterId, due, connects, made, delivered, inOrder>>
      /\ phase = "up"
      /\ pending \in Seq(Message) /\ gens \in Seq(Generator)
  BY <1>0 DEF Disconnect, Free, Types, Held
<1>2. /\ channels' = Without(channels, {id})
      /\ filters' = Without(filters, {f \in DOMAIN filters : filters[f] = id})
      /\ inFlight' = inFlight \cup {channels[id].conn : m \in {m \in Range(due) : m.channel = id}}
      /\ Moved("PassThruDisconnect")
  BY DEF Disconnect
<1>3. /\ DOMAIN channels' = DOMAIN channels \ {id}
      /\ channels' = [a \in DOMAIN channels' |-> channels'[a]]
      /\ \A a \in DOMAIN channels' : channels'[a] = channels[a]
  BY <1>2 DEF Without
<1>4. /\ DOMAIN filters' = {f \in DOMAIN filters : filters[f] # id}
      /\ \A f \in DOMAIN filters' : filters'[f] = filters[f]
  BY <1>2 DEF Without
<1>5. PICK Others : Others = {reply \in Range(pending) : reply.channel # id}
  OBVIOUS
<1>6. PICK kept \in Seq(Message) : /\ kept = Among(pending, Others)
                                   /\ Range(kept) = Range(pending) \cap Others
  BY <1>1, AmongRange
<1>7. PICK h : Drawn(pending, Others, Len(pending), kept, h)
  BY <1>1, <1>6, AmongDrawn
<1>8. pending' = kept
  BY <1>5, <1>6 DEF Disconnect, CancelReplies
<1>9. PICK g \in Seq(Generator) : /\ g = gens' /\ Range(g) \subseteq Range(gens)
                                  /\ \A m \in Range(g) : m.channel # id
  <2>1. PICK S : S = {gen \in Range(gens) : gen.channel # id}
    OBVIOUS
  <2>2. PICK g \in Seq(Generator) : g = Among(gens, S) /\ Range(g) = Range(gens) \cap S
    BY <1>1, AmongRange
  <2>3. g = gens'
    BY <2>1, <2>2 DEF Disconnect, StopChannel
  <2> QED
    BY <2>1, <2>2, <2>3
<1>10. \A m : Live(m)' <=> Live(m) /\ m.channel # id
  BY <1>3 DEF Live
<1>11. Types'
  <2>1. ASSUME NEW a \in DOMAIN channels' PROVE Channel(channels[a])'
    <3>1. Channel(channels[a]) /\ channels'[a] = channels[a]
      BY <1>0, <1>3 DEF Types
    <3> QED
      BY <1>1, <3>1 DEF Channel, TargetOK
  <2>2. DOMAIN channels' \subseteq Nat /\ IsFiniteSet(DOMAIN channels')
    BY <1>0, <1>3, FS_Subset DEF Types
  <2>3. StoreOK'
    BY <1>0, <1>1 DEF Types, StoreOK, TargetOK
  <2>4. {"id", "state"} \subseteq DOMAIN device'
    BY <1>0, <1>2, MovedKeeps DEF Types
  <2>5. thread' \in [Threads -> Waiting]
    <3>1. thread \in [Threads -> Waiting]
      BY <1>0 DEF Types
    <3>2. ASSUME NEW u \in Threads PROVE [thread[u] EXCEPT !.woken = TRUE] \in Waiting
      <4>1. PICK w \in Waiting : w = thread[u]
        BY <3>1
      <4>2. [w EXCEPT !.woken = TRUE] \in Waiting
        BY DEF Waiting
      <4> QED
        BY <4>1, <4>2
    <3> QED
      BY <3>1, <3>2 DEF Disconnect
  <2> QED
    BY <1>0, <1>1, <1>3, <1>8, <1>9, <2>1, <2>2, <2>3, <2>4, <2>5 DEF Types
<1>12. Apart'
  <2>1. \A a, b \in DOMAIN channels' : channels'[a].conn = channels'[b].conn => a = b
    BY <1>0, <1>3 DEF Apart
  <2>2. ASSUME NEW m \in Range(due')
        PROVE  /\ m.conn \in 1..connects'
               /\ \A a \in DOMAIN channels' : channels'[a].conn = m.conn => a = m.channel
               /\ phase' # "down" => Live(m)' \/ m.conn \in inFlight'
    <3>1. m \in Range(due)
      BY <1>1, <2>2
    <3>2. /\ m.conn \in 1..connects /\ (Live(m) \/ m.conn \in inFlight)
          /\ \A a \in DOMAIN channels : channels[a].conn = m.conn => a = m.channel
      BY <1>0, <1>1, <3>1 DEF Apart
    <3>3. Live(m) /\ m.channel = id => m.conn \in inFlight'
      BY <1>2, <3>1 DEF Live
    <3>4. m.conn \in inFlight => m.conn \in inFlight'
      BY <1>2
    <3>5. Live(m)' \/ m.conn \in inFlight'
      BY <1>10, <3>2, <3>3, <3>4
    <3>6. \A a \in DOMAIN channels' : channels'[a].conn = m.conn => a = m.channel
      BY <1>3, <3>2
    <3> QED
      BY <1>1, <3>2, <3>5, <3>6
  <2>3. ASSUME NEW m \in Range(pending') \cup Range(gens') PROVE Live(m)'
    BY <1>0, <1>5, <1>6, <1>8, <1>9, <1>10 DEF Apart
  <2> QED
    BY <1>1, <2>1, <2>2, <2>3 DEF Apart
<1>13. NothingOutlives'
  BY <1>2, <1>3 DEF SimInv, NothingOutlives
<1>14. Held'
  <2>1. device'.id = 0 => \A a \in DOMAIN channels' : channels'[a].dev = 0
    <3>1. device'.id = device.id
      BY <1>0, <1>2, MovedKeeps DEF Types
    <3> QED
      BY <1>0, <1>3, <3>1 DEF Held
  <2>2. ASSUME NEW f \in DOMAIN filters'
        PROVE  /\ f \in Nat /\ f < nextFilterId'
               /\ filters'[f] \in DOMAIN channels' /\ f \in channels'[filters'[f]].filters
    BY <1>0, <1>1, <1>3, <1>4 DEF Held
  <2>3. ASSUME NEW a \in DOMAIN channels', NEW f \in channels'[a].filters
        PROVE  f \in DOMAIN filters' /\ filters'[f] = a
    BY <1>0, <1>3, <1>4 DEF Held
  <2> QED
    BY <2>1, <2>2, <2>3 DEF Held
<1>15. ASSUME NEW i \in 1..Len(kept), NEW k \in kept[i].before
       PROVE  \/ k \in delivered
              \/ \E j \in 1..Len(due) : Same(k, kept[i], due[j])
              \/ \E j \in 1..(i - 1) : Same(k, kept[i], kept[j]) /\ kept[j].left <= kept[i].left
  <2>1. h[i] \in 1..Len(pending) /\ kept[i] = pending[h[i]] /\ kept[i] \in Others
    BY <1>7 DEF Drawn
  <2>2. Awaits(pending[h[i]], k, pending, h[i])
    BY <1>0, <1>15, <2>1 DEF Ordered, InLine
  <2>3. ASSUME NEW j \in 1..(h[i] - 1), Same(k, kept[i], pending[j]), pending[j].left <= kept[i].left
        PROVE  \E j2 \in 1..(i - 1) : Same(k, kept[i], kept[j2]) /\ kept[j2].left <= kept[i].left
    <3>1. j \in 1..Len(pending) /\ pending[j] \in Range(pending)
      BY <1>1, <2>1, RangeOf
    <3>2. pending[j] \in Others
      BY <1>5, <2>1, <2>3, <3>1 DEF Same
    <3>3. Len(kept) \in Nat /\ Len(pending) \in Nat
      BY <1>1
    <3>4. InOrder(pending, Others, kept, h)
      BY <1>7, <3>3, DrawnBefore
    <3>5. PICK j2 \in 1..(i - 1) : kept[j2] = pending[j]
      BY <3>2, <3>4 DEF InOrder
    <3> QED
      BY <2>3, <3>5
  <2> QED
    BY <2>1, <2>2, <2>3 DEF Awaits
<1>16. Ordered'
  <2>1. ASSUME NEW i \in 1..Len(pending'), NEW k \in pending'[i].before
        PROVE  \/ k \in delivered'
               \/ \E j \in 1..Len(due') : Same(k, pending'[i], due'[j])
               \/ \E j \in 1..(i - 1) : Same(k, pending'[i], pending'[j]) /\ pending'[j].left <= pending'[i].left
    BY <1>1, <1>8, <1>15, <2>1
  <2>2. InLine(pending)'
    BY <2>1 DEF InLine, Awaits, Same
  <2> QED
    BY <1>0, <1>1, <1>10, <2>2 DEF Ordered
<1> QED
  BY <1>11, <1>12, <1>13, <1>14, <1>16 DEF SimInv

LEMMA EndStep ==
    ASSUME SimInv, NEW t \in Threads, EndShutdown(t)
    PROVE  SimInv'
<1>0. Types /\ Apart /\ Ordered
  BY DEF SimInv
<1>1. /\ UNCHANGED <<store, device, nextChannelId, nextFilterId, due, connects, made, delivered, inOrder, inFlight>>
      /\ phase' = "down" /\ pending' = <<>> /\ gens' = <<>> /\ channels' = <<>> /\ filters' = <<>>
      /\ thread' = [thread EXCEPT ![t] = Idle]
  BY DEF EndShutdown, ghosts
<1>2. channels' = [id \in DOMAIN channels' |-> channels'[id]] /\ DOMAIN channels' = {}
  <2>1. channels' \in [{} -> {}]
    BY <1>1
  <2> QED
    BY <2>1
<1>3. /\ pending' \in Seq(Message) /\ gens' \in Seq(Generator) /\ Len(pending') = 0
      /\ Range(pending') = {} /\ Range(gens') = {} /\ DOMAIN filters' = {}
  <2>1. <<>> \in Seq(Message) /\ <<>> \in Seq(Generator) /\ Len(<<>>) = 0 /\ DOMAIN <<>> = {}
    OBVIOUS
  <2>2. Range(<<>>) = {}
    BY DEF Range
  <2> QED
    BY <1>1, <2>1, <2>2
<1>4. thread' \in [Threads -> Waiting]
  <2>1. Idle \in Waiting
    BY DEF Idle, Waiting
  <2> QED
    BY <1>0, <1>1, <2>1 DEF Types
<1>5. Types'
  <2>1. StoreOK'
    BY <1>0, <1>1 DEF Types, StoreOK, TargetOK
  <2>2. IsFiniteSet(DOMAIN channels')
    BY <1>2, FS_EmptySet
  <2> QED
    BY <1>0, <1>1, <1>2, <1>3, <1>4, <2>1, <2>2 DEF Types
<1>6. Apart'
  BY <1>0, <1>1, <1>2, <1>3 DEF Apart
<1>7. NothingOutlives'
  BY <1>2 DEF NothingOutlives
<1>8. Held'
  BY <1>1, <1>2, <1>3 DEF Held
<1>9. Ordered'
  <2>1. \A m : ~Live(m)'
    BY <1>2 DEF Live
  <2>2. InLine(pending)'
    <3>1. 1..Len(pending') = {}
      BY <1>3
    <3> QED
      BY <3>1 DEF InLine
  <2> QED
    BY <1>0, <1>1, <2>1, <2>2 DEF Ordered
<1> QED
  BY <1>5, <1>6, <1>7, <1>8, <1>9 DEF SimInv

-----------------------------------------------------------------------------
\* Every step

LEMMA StepInv == SimInv /\ [Next]_vars => SimInv'
<1> SUFFICES ASSUME SimInv, [Next]_vars PROVE SimInv'
  OBVIOUS
<1>1. App \in Threads /\ \A t \in Readers : t \in Threads
  BY DEF Threads
<1>2. CASE AppCalls
  <2>1. CASE OpenDevice(App) \/ \E handle \in Handles : CloseDevice(App, handle)
    <3>1. 0 \in Handles
      BY DEF Handles
    <3> QED
      BY <1>1, <2>1, <3>1, DeviceStep
  <2>2. CASE BeginShutdown(App)
    BY <1>1, <2>2, ReadsStep
  <2>3. ASSUME NEW handle \in Handles, NEW params \in Params, Connect(App, handle, params) PROVE SimInv'
    BY <1>1, <2>3, ConnectStep
  <2>4. ASSUME NEW id \in DOMAIN channels, Disconnect(App, id) PROVE SimInv'
    BY <1>1, <2>4, DisconnectStep
  <2>5. ASSUME NEW id \in DOMAIN channels,
               StartMsgFilter(App, id) \/ \E f \in DOMAIN filters : StopMsgFilter(App, id, f)
        PROVE  SimInv'
    BY <1>1, <2>5, FilterStep
  <2>6. ASSUME NEW id \in DOMAIN channels, NEW messages \in Writes, WriteMsgs(App, id, messages)
        PROVE  SimInv'
    BY <1>1, <2>6, WriteStep
  <2>7. ASSUME NEW id \in DOMAIN channels, ReadMsgs(App, id, 1, 0) PROVE SimInv'
    <3>1. 0 \in Timeouts \cup {0}
      OBVIOUS
    <3> QED
      BY <1>1, <2>7, <3>1, ReadsStep
  <2> QED
    BY <1>2, <2>1, <2>2, <2>3, <2>4, <2>5, <2>6, <2>7 DEF AppCalls
<1>3. ASSUME NEW t \in Readers, Reads(t) PROVE SimInv'
  <2>1. \E id \in DOMAIN channels, timeout \in Timeouts \cup {0} : ReadMsgs(t, id, 1, timeout)
    BY <1>3 DEF Reads
  <2> QED
    BY <1>1, <2>1, ReadsStep
<1>4. ASSUME NEW t \in Threads, Ends(t) PROVE SimInv'
  BY <1>4, ReadsStep, EndStep DEF Ends
<1>5. CASE Scan
  BY <1>5, ScanStep
<1>6. CASE DeliverRx
  BY <1>6, DeliverStep
<1>7. CASE Tick
  BY <1>7, TickStep
<1>8. CASE UNCHANGED vars
  <2>1. UNCHANGED <<store, phase, device, channels, filters, nextChannelId, nextFilterId, pending, gens,
                    due, thread, connects, made, delivered, inOrder, inFlight>>
    BY <1>8 DEF vars, simVars, schedVars, ghosts
  <2>2. Types
    BY DEF SimInv
  <2>3. Keeps /\ \A c \in DOMAIN channels : Range(channels'[c].rx) \subseteq Range(channels[c].rx)
    BY <2>1, <2>2, NothingTaken
  <2>4. KeepsFilters /\ Down /\ thread' \in [Threads -> Waiting]
    BY <2>1, <2>2 DEF KeepsFilters, Down, Types
  <2> QED
    BY <2>1, <2>3, <2>4, QuietStep
<1> QED
  BY <1>2, <1>3, <1>4, <1>5, <1>6, <1>7, <1>8 DEF Next

LEMMA SimHolds == Spec => []SimInv
<1>1. Init => SimInv
  BY SimInit
<1>2. SimInv /\ [Next]_vars => SimInv'
  BY StepInv
<1> QED
  BY <1>1, <1>2, PTL DEF Spec

(* A channel receives what was made for its own connection, but for what   *)
(* the scheduler's thread had already collected when an earlier connection *)
(* with the same id was closed: with any scenario, any number of calls and *)
(* delays, and the thread as late as it likes.  disconnect(), deliverRx(). *)
THEOREM Confined == Spec => []NothingOutlives
<1>1. SimInv => NothingOutlives
  BY DEF SimInv
<1> QED
  BY <1>1, SimHolds, PTL

(* While a connection lasts, a message is received after all those that    *)
(* were scheduled before it and due no later.  scheduleReply(),            *)
(* threadLoop(), deliverRx().                                              *)
THEOREM NoOvertaking == Spec => []DeliveryOrder
<1>1. SimInv => DeliveryOrder
  BY DEF SimInv, Ordered, DeliveryOrder
<1> QED
  BY <1>1, SimHolds, PTL

(* The filters of the device and those of its channels agree; no channel   *)
(* that was opened on a device outlives its close, and a closed device     *)
(* answers only handle 0 and the channels connected to it.  connect(),     *)
(* startMsgFilter() to disconnect(), closeDevice(), ioctl(), readVersion(). *)
THEOREM Honest == Spec => []HandlesHonest
<1>1. SimInv => HandlesHonest
  <2> SUFFICES ASSUME SimInv PROVE HandlesHonest
    OBVIOUS
  <2>1. Held
    BY DEF SimInv
  <2>2. ASSUME device.id = 0, NEW handle
        PROVE  /\ ReadVersionCode(handle) = "STATUS_NOERROR" => handle = 0
               /\ \A key \in KnownIoctls :
                    IoctlCode(handle, key) = "STATUS_NOERROR" => handle \in {0} \cup DOMAIN channels
    BY <2>2 DEF ReadVersionCode, IoctlCode
  <2> QED
    BY <2>1, <2>2 DEF Held, HandlesHonest
<1> QED
  BY <1>1, SimHolds, PTL
=============================================================================
