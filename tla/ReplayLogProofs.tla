----------------------------- MODULE ReplayLogProofs -----------------------------
(***************************************************************************)
(* What holds of the replay engine with every recorded session: the order  *)
(* of its answers, whatever a client calls, and the answers themselves for *)
(* a client that repeats the session.                                      *)
(***************************************************************************)
EXTENDS ReplayLog, FiniteSetTheorems, WellFoundedInduction, TLAPS

NatLess == {ss \in Nat \X Nat : ss[1] < ss[2]}

LEMMA NatLessWellFounded == IsWellFoundedOn(NatLess, Nat)
  BY NatLessThanWellFounded DEF OpToRel, NatLess

LEMMA Smallest ==
    ASSUME NEW S, S \subseteq Nat, S # {}
    PROVE  \E n \in S : \A m \in S : n <= m
<1>1. PICK n \in S : \A m \in S : ~(<<m, n>> \in NatLess)
  BY NatLessWellFounded, WFMin
<1>2. ASSUME NEW m \in S
      PROVE  n <= m
  <2>1. n \in Nat /\ m \in Nat
    OBVIOUS
  <2>2. m < n => <<m, n>> \in NatLess
    BY <2>1 DEF NatLess
  <2> QED
    BY <1>1, <2>1, <2>2
<1> QED
  BY <1>2

\* Induction up to n, over the set of the numbers that have a property.
LEMMA UpTo ==
    ASSUME NEW n \in Nat, NEW S, 0 \in S, \A i \in 1..n : i - 1 \in S => i \in S
    PROVE  0..n \subseteq S
<1> DEFINE Bad == {i \in 0..n : i \notin S}
<1>1. Bad = {}
  <2> SUFFICES ASSUME Bad # {} PROVE FALSE
    OBVIOUS
  <2>1. PICK i \in Bad : \A j \in Bad : i <= j
    <3>1. Bad \subseteq Nat
      OBVIOUS
    <3> QED
      BY <3>1, Smallest
  <2>2. i # 0
    OBVIOUS
  <2>3. i \in 1..n /\ i - 1 \in 0..n /\ ~(i <= i - 1)
    BY <2>2
  <2>4. i - 1 \in S
    BY <2>1, <2>3
  <2> QED
    BY <2>3, <2>4
<1> QED
  BY <1>1

\* A function that is defined step by step exists.
Steps(n, T, base, step) ==
  \E g \in [0..n -> T] : g[0] = base /\ \A i \in 1..n : g[i] = step[<<i, g[i - 1]>>]

LEMMA Recursion ==
    ASSUME NEW n \in Nat, NEW T, NEW base \in T, NEW step \in [(1..n) \X T -> T]
    PROVE  Steps(n, T, base, step)
<1> DEFINE Made(m, g) == g[0] = base /\ \A i \in 1..m : g[i] = step[<<i, g[i - 1]>>]
           S == {m \in 0..n : \E g \in [0..m -> T] : Made(m, g)}
<1>1. 0 \in S
  <2>1. PICK g : g = [i \in 0..0 |-> base]
    OBVIOUS
  <2>2. g \in [0..0 -> T] /\ Made(0, g)
    BY <2>1
  <2> QED
    BY <2>2
<1>2. ASSUME NEW m \in 1..n, m - 1 \in S
      PROVE  m \in S
  <2>1. PICK g \in [0..(m - 1) -> T] : Made(m - 1, g)
    BY <1>2
  <2> DEFINE last == step[<<m, g[m - 1]>>]
             f == [i \in 0..m |-> IF i < m THEN g[i] ELSE last]
  <2>2. last \in T
    <3>1. g[m - 1] \in T /\ <<m, g[m - 1]>> \in (1..n) \X T
      OBVIOUS
    <3> QED
      BY <3>1
  <2>3. f[m] = last /\ \A i \in 0..(m - 1) : f[i] = g[i]
    OBVIOUS
  <2>4. f \in [0..m -> T]
    BY <2>2
  <2> HIDE DEF f
  <2>5. ASSUME NEW i \in 1..m
        PROVE  f[i] = step[<<i, f[i - 1]>>]
    <3>1. f[i - 1] = g[i - 1]
      BY <2>3
    <3>2. CASE i = m
      BY <2>3, <3>1, <3>2
    <3>3. CASE i # m
      <4>1. i \in 1..(m - 1) /\ i \in 0..(m - 1)
        BY <3>3
      <4>2. g[i] = step[<<i, g[i - 1]>>]
        BY <2>1, <4>1
      <4> QED
        BY <2>3, <3>1, <4>1, <4>2
    <3> QED
      BY <3>2, <3>3
  <2>6. f[0] = base
    BY <2>1, <2>3
  <2> QED
    BY <2>4, <2>5, <2>6
<1>3. n \in S
  <2> HIDE DEF S
  <2>1. 0..n \subseteq S
    BY <1>1, <1>2, UpTo
  <2> QED
    BY <2>1
<1> QED
  BY <1>3 DEF Steps

-----------------------------------------------------------------------------
\* The log of the window

Logs(X) == Seq([text : X, count : Nat \ {0}])

\* What saveLogEntry() makes of a log: the last entry counts once more, or
\* there is a new one.
Grown(log, text, new) ==
  /\ Len(log) \in Nat /\ \A j \in 1..(Len(log) - 1) : new[j] = log[j]
  /\ \/ /\ Len(log) > 0 /\ log[Len(log)].text = text /\ Len(new) = Len(log)
        /\ new[Len(log)] = [text |-> text, count |-> log[Len(log)].count + 1]
     \/ /\ Len(log) > 0 => log[Len(log)].text # text /\ new[Len(log)] = log[Len(log)]
        /\ Len(new) = Len(log) + 1
        /\ new[Len(log) + 1] = [text |-> text, count |-> 1]

LEMMA SavedGrows ==
    ASSUME NEW X, NEW log \in Logs(X), NEW text \in X
    PROVE  Saved(log, text) \in Logs(X) /\ Grown(log, text, Saved(log, text))
<1> DEFINE Entry == [text : X, count : Nat \ {0}]
<1>0. log \in Seq(Entry) /\ Len(log) \in Nat /\ (log # <<>> <=> Len(log) > 0)
  BY DEF Logs
<1>1. CASE log # <<>> /\ Last(log).text = text
  <2>1. PICK n : n = Len(log) /\ n \in Nat /\ n > 0
    BY <1>0, <1>1
  <2>a. PICK e : e = log[n]
    OBVIOUS
  <2>c. e \in Entry
    <3>1. n \in 1..Len(log)
      BY <2>1
    <3> HIDE DEF Entry
    <3> QED
      BY <1>0, <2>a, <3>1
  <2>2. e = log[n] /\ e \in Entry /\ e.text = text
    BY <1>1, <2>1, <2>a, <2>c DEF Last
  <2>b. PICK f : f = [text |-> text, count |-> e.count + 1]
    OBVIOUS
  <2>3. f = [text |-> text, count |-> e.count + 1] /\ f \in Entry
    BY <2>2, <2>b
  <2>4. [e EXCEPT !.count = @ + 1] = f
    BY <2>2, <2>3
  <2>5. PICK new : new = [log EXCEPT ![n].count = @ + 1]
    OBVIOUS
  <2>6. new = [log EXCEPT ![n] = f]
    BY <2>2, <2>4, <2>5
  <2>7. new \in Seq(Entry) /\ Len(new) = n /\ new[n] = f /\ \A j \in 1..(n - 1) : new[j] = log[j]
    BY <1>0, <2>1, <2>3, <2>6
  <2>8. Saved(log, text) = new
    BY <1>1, <2>1, <2>5 DEF Saved
  <2> QED
    BY <2>1, <2>2, <2>3, <2>7, <2>8 DEF Logs, Grown
<1>2. CASE ~(log # <<>> /\ Last(log).text = text)
  <2>a. PICK f : f = [text |-> text, count |-> 1]
    OBVIOUS
  <2>1. f = [text |-> text, count |-> 1] /\ f \in Entry
    BY <2>a
  <2>2. PICK new : new = Append(log, f)
    OBVIOUS
  <2>3. /\ new \in Seq(Entry) /\ Len(new) = Len(log) + 1 /\ new[Len(log) + 1] = f
        /\ \A j \in 1..Len(log) : new[j] = log[j]
    BY <1>0, <2>1, <2>2
  <2>4. Saved(log, text) = new
    BY <1>2, <2>1, <2>2 DEF Saved
  <2>5. Len(log) > 0 => log[Len(log)].text # text /\ new[Len(log)] = log[Len(log)]
    BY <1>0, <1>2, <2>3 DEF Last
  <2>6. \A j \in 1..(Len(log) - 1) : new[j] = log[j]
    BY <1>0, <2>3
  <2> QED
    BY <1>0, <2>1, <2>3, <2>4, <2>5, <2>6 DEF Logs, Grown
<1> QED
  BY <1>1, <1>2

Texts(calls) == {Text(calls[i]) : i \in 1..Len(calls)}

\* g[i] is the log of the first i calls.
LogBy(calls, g) ==
  /\ g \in [0..Len(calls) -> Logs(Texts(calls))] /\ Len(calls) \in Nat
  /\ g[0] = <<>>
  /\ \A i \in 1..Len(calls) : Grown(g[i - 1], Text(calls[i]), g[i])
  /\ Structured(calls) = g[Len(calls)]

LEMMA StructuredLog ==
    ASSUME NEW C, NEW calls \in Seq(C)
    PROVE  \E g : LogBy(calls, g)
<1> DEFINE X == Texts(calls)
           n == Len(calls)
           step == [x \in (1..n) \X Logs(X) |-> Saved(x[2], Text(calls[x[1]]))]
           Def(f) == f = [i \in 0..n |-> IF i = 0 THEN <<>> ELSE Saved(f[i - 1], Text(calls[i]))]
<1>0. n \in Nat
  OBVIOUS
<1>1. \A i \in 1..n : Text(calls[i]) \in X
  BY DEF Texts
<1>2. <<>> \in Logs(X)
  BY DEF Logs
<1>3. step \in [(1..n) \X Logs(X) -> Logs(X)]
  <2>1. ASSUME NEW x \in (1..n) \X Logs(X)
        PROVE  Saved(x[2], Text(calls[x[1]])) \in Logs(X)
    <3>1. x[1] \in 1..n /\ x[2] \in Logs(X) /\ Text(calls[x[1]]) \in X
      BY <1>1
    <3> HIDE DEF X
    <3> QED
      BY <3>1, SavedGrows
  <2> QED
    BY <2>1
<1>4. \A i \in 1..n, l \in Logs(X) : step[<<i, l>>] = Saved(l, Text(calls[i]))
  OBVIOUS
<1> HIDE DEF X, step
<1>5. PICK g \in [0..n -> Logs(X)] : g[0] = <<>> /\ \A i \in 1..n : g[i] = step[<<i, g[i - 1]>>]
  <2> DEFINE T == Logs(X)
  <2>1. n \in Nat /\ <<>> \in T /\ step \in [(1..n) \X T -> T]
    BY <1>0, <1>2, <1>3
  <2> HIDE DEF n, T
  <2>2. Steps(n, T, <<>>, step)
    BY <2>1, Recursion
  <2> QED
    BY <2>2 DEF T, Steps
<1>6. \E f : Def(f)
  <2> DEFINE k == [i \in 0..n |-> IF i = 0 THEN <<>> ELSE Saved(g[i - 1], Text(calls[i]))]
  <2>1. ASSUME NEW i \in 0..n
        PROVE  g[i] = k[i]
    <3>1. CASE i = 0
      BY <1>5, <3>1
    <3>2. CASE i # 0
      <4>1. i \in 1..n /\ i - 1 \in 0..n /\ g[i - 1] \in Logs(X)
        BY <1>0, <3>2
      <4> QED
        BY <1>4, <1>5, <3>2, <4>1
    <3> QED
      BY <3>1, <3>2
  <2>2. g = k
    BY <2>1
  <2> QED
    BY <2>2
<1>7. PICK f : Def(f) /\ Structured(calls) = f[n]
  <2> DEFINE f == CHOOSE h : Def(h)
  <2>1. Def(f)
    BY <1>6
  <2>2. Structured(calls) = f[n]
    BY DEF Structured
  <2> QED
    BY <2>1, <2>2
<1>8. f[0] = <<>> /\ \A i \in 1..n : f[i] = Saved(f[i - 1], Text(calls[i]))
  <2> DEFINE k == [i \in 0..n |-> IF i = 0 THEN <<>> ELSE Saved(f[i - 1], Text(calls[i]))]
  <2>1. f = k
    BY <1>7
  <2>2. k[0] = <<>> /\ \A i \in 1..n : k[i] = Saved(f[i - 1], Text(calls[i]))
    BY <1>0
  <2> HIDE DEF k
  <2> QED
    BY <2>1, <2>2
<1>9. \A i \in 0..n : f[i] \in Logs(X)
  <2> DEFINE S == {i \in 0..n : f[i] \in Logs(X)}
  <2>1. 0 \in S
    BY <1>0, <1>2, <1>8
  <2>2. ASSUME NEW i \in 1..n, i - 1 \in S
        PROVE  i \in S
    <3>1. f[i - 1] \in Logs(X) /\ Text(calls[i]) \in X
      BY <1>1, <2>2
    <3>2. f[i] \in Logs(X)
      BY <1>8, <3>1, SavedGrows
    <3> QED
      BY <3>2
  <2>3. 0..n \subseteq S
    <3> HIDE DEF S, n
    <3> QED
      BY <1>0, <2>1, <2>2, UpTo
  <2> QED
    BY <2>3
<1>10. f \in [0..n -> Logs(X)]
  BY <1>7, <1>9
<1>11. ASSUME NEW i \in 1..n
       PROVE  Grown(f[i - 1], Text(calls[i]), f[i])
  <2>1. f[i - 1] \in Logs(X) /\ Text(calls[i]) \in X
    <3>1. i - 1 \in 0..n
      BY <1>0
    <3> QED
      BY <1>1, <1>9, <3>1
  <2>2. f[i] = Saved(f[i - 1], Text(calls[i]))
    BY <1>8
  <2> QED
    BY <2>1, <2>2, SavedGrows
<1>12. LogBy(calls, f)
  BY <1>0, <1>7, <1>8, <1>10, <1>11 DEF LogBy, X
<1> QED
  BY <1>12

-----------------------------------------------------------------------------
\* The events of the parser

\* An entry becomes no event or one, which has its count.
LEMMA EntryParsed ==
    ASSUME NEW entry
    PROVE  \/ ParseEntry(entry) = <<>>
           \/ \E ev : ParseEntry(entry) = <<ev>> /\ ev.count = entry.count
<1> DEFINE text == Decoded(entry.text)
           ev == [NoEvent EXCEPT !.type = text.name, !.code = LookupError(text.code),
                                 !.count = entry.count]
<1>1. ParseEntry(entry) = ParseCallText(text, ev)
  BY DEF ParseEntry
<1>2. ev.count = entry.count /\ {"handle", "id", "count"} \subseteq DOMAIN ev
  BY DEF NoEvent
<1> HIDE DEF text, ev
<1>3. \A args : ParseOpen(ev, args).count = ev.count
  BY <1>2 DEF ParseOpen
<1>4. \A args : ParseHandle(ev, args).count = ev.count
  BY <1>2 DEF ParseHandle
<1>5. \A args : ParseConnect(ev, args).count = ev.count
  BY <1>2 DEF ParseConnect
<1>6. \A args : ParseTransfer(ev, args).count = ev.count
  BY <1>2 DEF ParseTransfer
<1>7. \A args : ParseIoctl(ev, args).count = ev.count
  BY <1>2 DEF ParseIoctl
<1>8. \A args : ParseFilterStart(ev, args).count = ev.count
  BY <1>2 DEF ParseFilterStart
<1>9. \A args : ParseVersion(ev, args).count = ev.count
  BY <1>2 DEF ParseVersion
<1> QED
  BY <1>1, <1>2, <1>3, <1>4, <1>5, <1>6, <1>7, <1>8, <1>9 DEF ParseCallText

LEMMA EventCounted ==
    ASSUME NEW entry, NEW e, ParseEntry(entry) = <<e>>
    PROVE  e.count = entry.count
<1>1. ParseEntry(entry) # <<>>
  OBVIOUS
<1>2. PICK ev : ParseEntry(entry) = <<ev>> /\ ev.count = entry.count
  BY <1>1, EntryParsed
<1>3. ev = e
  BY <1>2
<1> QED
  BY <1>2, <1>3

EventsOf(log) == {ParseEntry(log[j])[1] : j \in {i \in 1..Len(log) : ParseEntry(log[i]) # <<>>}}

\* What an entry adds to the events: nothing, or its event at their end.
Added(before, parsed, after) ==
  /\ Len(before) \in Nat /\ \A i \in 1..Len(before) : after[i] = before[i]
  /\ \/ parsed = <<>> /\ Len(after) = Len(before)
     \/ parsed # <<>> /\ Len(after) = Len(before) + 1 /\ after[Len(before) + 1] = parsed[1]

\* h[j] is what the first j entries make.
ParsedBy(log, h) ==
  /\ h \in [0..Len(log) -> Seq(EventsOf(log))] /\ Len(log) \in Nat
  /\ h[0] = <<>>
  /\ \A j \in 1..Len(log) : Added(h[j - 1], ParseEntry(log[j]), h[j])
  /\ ParseJsonFile(log) = h[Len(log)]

LEMMA AtMostOne ==
    ASSUME NEW entry
    PROVE  ParseEntry(entry) = <<>> \/ ParseEntry(entry) = <<ParseEntry(entry)[1]>>
  BY EntryParsed

LEMMA EntryAdded ==
    ASSUME NEW T, NEW before \in Seq(T), NEW entry, ParseEntry(entry) # <<>> => ParseEntry(entry)[1] \in T
    PROVE  /\ before \o ParseEntry(entry) \in Seq(T)
           /\ Added(before, ParseEntry(entry), before \o ParseEntry(entry))
<1> DEFINE p == ParseEntry(entry)
<1>1. p = <<>> \/ p = <<p[1]>>
  BY AtMostOne
<1>2. p # <<>> => p[1] \in T
  OBVIOUS
<1> HIDE DEF p
<1>3. CASE p = <<>>
  <2>1. PICK u : u = before \o p
    OBVIOUS
  <2>2. u = before
    BY <1>3, <2>1
  <2>3. Added(before, p, u)
    BY <1>3, <2>2 DEF Added
  <2> QED
    BY <2>1, <2>2, <2>3 DEF p
<1>4. CASE p # <<>>
  <2>1. PICK e : e = p[1]
    OBVIOUS
  <2>2. e \in T /\ p = <<e>>
    BY <1>1, <1>2, <1>4, <2>1
  <2>3. PICK u : u = before \o p
    OBVIOUS
  <2>4. /\ u \in Seq(T) /\ Len(u) = Len(before) + 1 /\ u[Len(before) + 1] = e /\ Len(before) \in Nat
        /\ \A i \in 1..Len(before) : u[i] = before[i]
    BY <2>2, <2>3
  <2>5. Added(before, p, u)
    BY <1>4, <2>1, <2>4 DEF Added
  <2> QED
    BY <2>3, <2>4, <2>5 DEF p
<1> QED
  BY <1>3, <1>4

Joined(before, entry) == before \o ParseEntry(entry)

LEMMA Parsed ==
    ASSUME NEW X, NEW log \in Logs(X)
    PROVE  \E h : ParsedBy(log, h)
<1> DEFINE T == EventsOf(log)
           n == Len(log)
           S == Seq(T)
           step == [x \in (1..n) \X S |-> Joined(x[2], log[x[1]])]
           Def(f) == f = [j \in 0..n |-> IF j = 0 THEN <<>> ELSE Joined(f[j - 1], log[j])]
<1>0. n \in Nat
  BY DEF Logs
<1>1. \A j \in 1..n : ParseEntry(log[j]) # <<>> => ParseEntry(log[j])[1] \in T
  BY DEF EventsOf
<1>2. <<>> \in S
  OBVIOUS
<1>3. \A j \in 1..n, l \in S : /\ Joined(l, log[j]) \in S
                                /\ Added(l, ParseEntry(log[j]), Joined(l, log[j]))
  <2> HIDE DEF T
  <2> QED
    BY <1>1, EntryAdded DEF Joined
<1>4. step \in [(1..n) \X S -> S]
  <2>1. ASSUME NEW x \in (1..n) \X S
        PROVE  Joined(x[2], log[x[1]]) \in S
    <3>1. x[1] \in 1..n /\ x[2] \in S
      OBVIOUS
    <3> HIDE DEF S
    <3> QED
      BY <1>3, <3>1
  <2> HIDE DEF S
  <2> QED
    BY <2>1
<1> HIDE DEF S
<1>5. \A j \in 1..n, l \in S : step[<<j, l>>] = Joined(l, log[j])
  OBVIOUS
<1> HIDE DEF T, step
<1>6. PICK g \in [0..n -> S] : g[0] = <<>> /\ \A j \in 1..n : g[j] = step[<<j, g[j - 1]>>]
  <2> HIDE DEF n
  <2>2. Steps(n, S, <<>>, step)
    BY <1>0, <1>2, <1>4, Recursion
  <2> QED
    BY <2>2 DEF Steps
<1>7. \E f : Def(f)
  <2> DEFINE k == [j \in 0..n |-> IF j = 0 THEN <<>> ELSE Joined(g[j - 1], log[j])]
  <2>1. ASSUME NEW j \in 0..n
        PROVE  g[j] = k[j]
    <3>1. CASE j = 0
      BY <1>6, <3>1
    <3>2. CASE j # 0
      <4>1. j \in 1..n /\ j - 1 \in 0..n /\ g[j - 1] \in S
        BY <1>0, <3>2
      <4> QED
        BY <1>5, <1>6, <3>2, <4>1
    <3> QED
      BY <3>1, <3>2
  <2>2. g = k
    BY <2>1
  <2> QED
    BY <2>2
<1>8. PICK f : Def(f) /\ ParseJsonFile(log) = f[n]
  <2> DEFINE f == CHOOSE h : Def(h)
  <2>1. Def(f)
    BY <1>7
  <2>2. ParseJsonFile(log) = f[n]
    BY DEF ParseJsonFile, Joined
  <2> QED
    BY <2>1, <2>2
<1>9. f[0] = <<>> /\ \A j \in 1..n : f[j] = Joined(f[j - 1], log[j])
  <2> DEFINE k == [j \in 0..n |-> IF j = 0 THEN <<>> ELSE Joined(f[j - 1], log[j])]
  <2>1. f = k
    BY <1>8
  <2>2. k[0] = <<>> /\ \A j \in 1..n : k[j] = Joined(f[j - 1], log[j])
    BY <1>0
  <2> HIDE DEF k
  <2> QED
    BY <2>1, <2>2
<1>10. \A j \in 0..n : f[j] \in S
  <2> DEFINE G == {j \in 0..n : f[j] \in S}
  <2>1. 0 \in G
    BY <1>0, <1>2, <1>9
  <2>2. ASSUME NEW j \in 1..n, j - 1 \in G
        PROVE  j \in G
    <3>1. f[j - 1] \in S
      BY <2>2
    <3>2. f[j] \in S
      BY <1>3, <1>9, <3>1
    <3> QED
      BY <3>2
  <2>3. 0..n \subseteq G
    <3> HIDE DEF G, n
    <3> QED
      BY <1>0, <2>1, <2>2, UpTo
  <2> QED
    BY <2>3
<1>11. f \in [0..n -> S]
  BY <1>8, <1>10
<1>12. ASSUME NEW j \in 1..n
       PROVE  Added(f[j - 1], ParseEntry(log[j]), f[j])
  <2>1. f[j - 1] \in S
    <3>1. j - 1 \in 0..n
      BY <1>0
    <3> QED
      BY <1>10, <3>1
  <2>2. f[j] = Joined(f[j - 1], log[j])
    BY <1>9
  <2> QED
    BY <1>3, <2>1, <2>2
<1>13. ParsedBy(log, f)
  BY <1>0, <1>8, <1>9, <1>11, <1>12 DEF ParsedBy, T, S
<1> QED
  BY <1>13

-----------------------------------------------------------------------------
\* The events of a recording

\* Both steps by prefix, with what is known of each.
Prepared(r, g, h) == LogBy(r, g) /\ ParsedBy(Structured(r), h)

LEMMA Prepares ==
    ASSUME NEW r \in Recordings
    PROVE  \E g, h : Prepared(r, g, h)
<1>1. r \in Seq(Range(r))
  BY RecordingsAssumption DEF IsSeq
<1>2. PICK g : LogBy(r, g)
  BY <1>1, StructuredLog
<1>3. Structured(r) \in Logs(Texts(r))
  BY <1>2 DEF LogBy
<1>4. PICK h : ParsedBy(Structured(r), h)
  BY <1>3, Parsed
<1> QED
  BY <1>2, <1>4 DEF Prepared

LEMMA LogCounts ==
    ASSUME NEW X, NEW log \in Logs(X), NEW j \in 1..Len(log)
    PROVE  log[j].text \in X /\ log[j].count \in Nat \ {0}
<1>1. log[j] \in [text : X, count : Nat \ {0}]
  <2> DEFINE E == [text : X, count : Nat \ {0}]
  <2>1. log \in Seq(E)
    BY DEF Logs
  <2> HIDE DEF E
  <2>2. log[j] \in E
    BY <2>1
  <2> QED
    BY <2>2 DEF E
<1>2. PICK e : e = log[j]
  OBVIOUS
<1>3. e.text \in X /\ e.count \in Nat \ {0}
  BY <1>1, <1>2
<1> QED
  BY <1>2, <1>3

LEMMA EventCounts ==
    ASSUME NEW r \in Recordings
    PROVE  /\ Len(ParseJsonFile(Structured(r))) \in Nat
           /\ \A i \in 1..Len(ParseJsonFile(Structured(r))) :
                ParseJsonFile(Structured(r))[i].count \in Nat \ {0}
<1>1. PICK g, h : Prepared(r, g, h)
  BY Prepares
<1> DEFINE log == Structured(r)
           ev == ParseJsonFile(log)
           T == EventsOf(log)
<1>2. log \in Logs(Texts(r)) /\ Len(log) \in Nat
  <2>1. Len(r) \in 0..Len(r)
    BY <1>1 DEF Prepared, LogBy
  <2> QED
    BY <1>1, <2>1 DEF Prepared, LogBy, ParsedBy
<1>3. ev \in Seq(T)
  <2>1. Len(log) \in 0..Len(log)
    BY <1>2
  <2> QED
    BY <1>1, <2>1 DEF Prepared, ParsedBy
<1>4. ASSUME NEW e \in T
      PROVE  e.count \in Nat \ {0}
  <2>1. PICK j \in 1..Len(log) : ParseEntry(log[j]) # <<>> /\ e = ParseEntry(log[j])[1]
    BY DEF EventsOf
  <2>2. PICK v : ParseEntry(log[j]) = <<v>> /\ v.count = log[j].count
    BY <2>1, EntryParsed
  <2>3. e = v
    BY <2>1, <2>2
  <2>4. log[j].count \in Nat \ {0}
    <3> HIDE DEF log
    <3> QED
      BY <1>2, LogCounts
  <2> QED
    BY <2>2, <2>3, <2>4
<1> HIDE DEF T, ev
<1>5. Len(ev) \in Nat /\ \A i \in 1..Len(ev) : ev[i] \in T
  BY <1>3
<1> QED
  BY <1>4, <1>5 DEF ev

-----------------------------------------------------------------------------
\* The engine

Times(s, e) == Cardinality({i \in DOMAIN s : s[i] = e})

LEMMA TimesAppended ==
    ASSUME NEW T, NEW s \in Seq(T), NEW e \in T, NEW x
    PROVE  /\ Times(s, x) \in Nat
           /\ Times(Append(s, e), x) = IF x = e THEN Times(s, x) + 1 ELSE Times(s, x)
<1>1. PICK u : u = Append(s, e)
  OBVIOUS
<1>2. /\ Len(s) \in Nat /\ DOMAIN s = 1..Len(s) /\ DOMAIN u = 1..(Len(s) + 1)
      /\ u[Len(s) + 1] = e /\ \A i \in 1..Len(s) : u[i] = s[i]
  BY <1>1
<1> DEFINE A == {i \in DOMAIN s : s[i] = x}
           B == {i \in DOMAIN u : u[i] = x}
<1>3. IsFiniteSet(A) /\ Cardinality(A) \in Nat
  <2>1. A \subseteq 1..Len(s)
    BY <1>2
  <2>2. IsFiniteSet(1..Len(s))
    BY <1>2, FS_Interval
  <2>3. IsFiniteSet(A)
    BY <2>1, <2>2, FS_Subset
  <2> QED
    BY <2>3, FS_CardinalityType
<1>4. B = IF x = e THEN A \cup {Len(s) + 1} ELSE A
  BY <1>2
<1>5. Len(s) + 1 \notin A
  BY <1>2
<1>6. Cardinality(A \cup {Len(s) + 1}) = Cardinality(A) + 1
  <2> HIDE DEF A
  <2> QED
    BY <1>3, <1>5, FS_AddElement
<1> QED
  BY <1>1, <1>3, <1>4, <1>6 DEF Times

(* The inductive invariant of the searches: the cursor is past every event *)
(* that has answered, and a run has left what its event has not given.     *)
EngineOK ==
  /\ Len(events) \in Nat /\ \A e \in 1..Len(events) : events[e].count \in Nat \ {0}
  /\ cursor \in 1..(Len(events) + 1) /\ dedupRemaining \in Nat
  /\ given \in Seq(1..(cursor - 1))
  /\ \A i \in 1..(Len(given) - 1) : given[i] <= given[i + 1]
  /\ \A e \in 1..Len(events) : Times(given, e) <= events[e].count
  /\ dedupRemaining > 0 =>
       /\ dedupIndex \in 1..(cursor - 1)
       /\ \A i \in 1..Len(given) : given[i] <= dedupIndex
       /\ Times(given, dedupIndex) + dedupRemaining <= events[dedupIndex].count

Fits == found # 0 => events[found].type = asked.type /\ events[found].handle = asked.handle

OrderInv == recording \in Recordings /\ EngineOK /\ Fits

\* What every call of the engine that asks for an event does.
Searches(type, handle) ==
  \/ InRun(type, handle) /\ TakeRepeat
  \/ ~InRun(type, handle) /\ \E C : C \subseteq Ahead(type, handle) /\ TakeNext(C)

LEMMA AnswerSearches ==
    ASSUME NEW c, Recorded(c), Answer(c)
    PROVE  Searches(c.name, c.handle) \/ (found' = 0 /\ UNCHANGED engine)
<1>1. \A type, handle : FindNextMatch(type, handle) => Searches(type, handle)
  BY DEF FindNextMatch, Searches
<1>2. \A handle, id : FindIoctl(handle, id) => Searches("Ioctl", handle)
  <2> SUFFICES ASSUME NEW handle, NEW id, FindIoctl(handle, id)
               PROVE  Searches("Ioctl", handle)
    OBVIOUS
  <2> DEFINE C == {i \in Ahead("Ioctl", handle) : events[i].ioctl = id \/ ~events[i].known}
  <2>1. C \subseteq Ahead("Ioctl", handle)
    OBVIOUS
  <2>2. IF InRun("Ioctl", handle) THEN TakeRepeat ELSE TakeNext(C)
    BY DEF FindIoctl
  <2> HIDE DEF C
  <2> QED
    BY <2>1, <2>2 DEF Searches
<1>3. CASE c.name = "Open" /\ OpenDevice
  BY <1>1, <1>3 DEF OpenDevice, Recorded
<1>4. CASE c.name \in {"Close", "Disconnect", "StopMsgFilter"} /\ End(c.name, c.handle)
  BY <1>1, <1>4 DEF End
<1>5. CASE c.name = "Connect" /\ ConnectChannel(c.handle)
  BY <1>1, <1>5 DEF ConnectChannel
<1>6. CASE c.name = "ReadMsgs" /\ ReadMsgs(c.handle)
  BY <1>1, <1>6 DEF ReadMsgs
<1>7. CASE c.name = "WriteMsgs" /\ WriteMsgs(c.handle, c.told.count)
  BY <1>1, <1>7 DEF WriteMsgs
<1>8. CASE c.name = "Ioctl" /\ Ioctl(c.handle, c.what, c.address # 0)
  BY <1>2, <1>8 DEF Ioctl
<1>9. CASE c.name = "StartMsgFilter" /\ StartMsgFilter(c.handle)
  BY <1>1, <1>9 DEF StartMsgFilter
<1>10. CASE c.name = "ReadVersion"
            /\ ReadVersion(c.handle, [i \in 1..3 |-> c.told.versions[i] # ""])
  <2>1. FindNextMatch("ReadVersion", c.handle)
    BY <1>10 DEF ReadVersion
  <2> QED
    BY <1>1, <1>10, <2>1
<1> QED
  BY <1>3, <1>4, <1>5, <1>6, <1>7, <1>8, <1>9, <1>10 DEF Answer

\* A repeat comes from the event that was the last to answer.
LEMMA RepeatInOrder ==
    ASSUME EngineOK, NEW type, NEW handle, InRun(type, handle), TakeRepeat, UNCHANGED events,
           given' = Append(given, found')
    PROVE  /\ EngineOK' /\ found' \in 1..Len(events)
           /\ events[found'].type = type /\ events[found'].handle = handle
<1> DEFINE T == 1..(cursor - 1)
<1>1. /\ dedupRemaining \in Nat /\ dedupRemaining > 0 /\ dedupIndex \in T
      /\ cursor \in 1..(Len(events) + 1) /\ Len(events) \in Nat /\ given \in Seq(T)
  BY DEF EngineOK, InRun
<1>2. /\ found' = dedupIndex /\ dedupRemaining' = dedupRemaining - 1
      /\ cursor' = cursor /\ dedupIndex' = dedupIndex /\ events' = events
  BY DEF TakeRepeat
<1>3. PICK u : u = Append(given, dedupIndex)
  OBVIOUS
<1>4. /\ u \in Seq(T) /\ Len(u) = Len(given) + 1 /\ u[Len(given) + 1] = dedupIndex
      /\ Len(given) \in Nat /\ \A i \in 1..Len(given) : u[i] = given[i] /\ given[i] \in T
  <2> HIDE DEF T
  <2> QED
    BY <1>1, <1>3
<1>5. given' = u
  BY <1>2, <1>3
<1>6. \A i \in 1..Len(given) : given[i] <= dedupIndex
  BY <1>1 DEF EngineOK
<1>7. ASSUME NEW i \in 1..(Len(u) - 1)
      PROVE  u[i] <= u[i + 1]
  <2>1. CASE i = Len(given)
    BY <1>4, <1>6, <2>1
  <2>2. CASE i # Len(given)
    <3>1. i \in 1..(Len(given) - 1) /\ i \in 1..Len(given) /\ i + 1 \in 1..Len(given)
      BY <1>4, <2>2
    <3>2. given[i] <= given[i + 1]
      BY <3>1 DEF EngineOK
    <3> QED
      BY <1>4, <3>1, <3>2
  <2> QED
    BY <2>1, <2>2
<1>8. ASSUME NEW i \in 1..Len(u)
      PROVE  u[i] <= dedupIndex
  <2>1. CASE i = Len(given) + 1
    BY <1>1, <1>4, <2>1
  <2>2. CASE i # Len(given) + 1
    <3>1. i \in 1..Len(given)
      BY <1>4, <2>2
    <3> QED
      BY <1>4, <1>6, <3>1
  <2> QED
    BY <2>1, <2>2
<1>9. \A e : Times(given, e) \in Nat
             /\ Times(u, e) = IF e = dedupIndex THEN Times(given, e) + 1 ELSE Times(given, e)
  <2> HIDE DEF T
  <2> QED
    BY <1>1, <1>3, TimesAppended
<1>10. Times(given, dedupIndex) + dedupRemaining <= events[dedupIndex].count
  BY <1>1 DEF EngineOK
<1>11. events[dedupIndex].count \in Nat /\ dedupIndex \in 1..Len(events)
  BY <1>1 DEF EngineOK
<1>12. Times(u, dedupIndex) + (dedupRemaining - 1) <= events[dedupIndex].count
  BY <1>1, <1>9, <1>10, <1>11
<1>13. ASSUME NEW e \in 1..Len(events)
       PROVE  Times(u, e) <= events[e].count
  <2>1. CASE e = dedupIndex
    BY <1>1, <1>9, <1>10, <1>11, <2>1
  <2>2. CASE e # dedupIndex
    BY <1>9, <2>2 DEF EngineOK
  <2> QED
    BY <2>1, <2>2
<1>14. EngineOK'
  <2>1. /\ Len(events') \in Nat /\ \A e \in 1..Len(events') : events'[e].count \in Nat \ {0}
        /\ cursor' \in 1..(Len(events') + 1) /\ dedupRemaining' \in Nat
    BY <1>1, <1>2 DEF EngineOK
  <2>2. given' \in Seq(1..(cursor' - 1))
    BY <1>2, <1>4, <1>5
  <2>3. \A i \in 1..(Len(given') - 1) : given'[i] <= given'[i + 1]
    BY <1>5, <1>7
  <2>4. \A e \in 1..Len(events') : Times(given', e) <= events'[e].count
    BY <1>2, <1>5, <1>13
  <2>5. /\ dedupIndex' \in 1..(cursor' - 1)
        /\ \A i \in 1..Len(given') : given'[i] <= dedupIndex'
        /\ Times(given', dedupIndex') + dedupRemaining' <= events'[dedupIndex'].count
    BY <1>1, <1>2, <1>5, <1>8, <1>12
  <2> QED
    BY <2>1, <2>2, <2>3, <2>4, <2>5 DEF EngineOK, Times
<1> QED
  BY <1>2, <1>11, <1>14 DEF InRun

\* Before an event is reached it has answered nothing.
LEMMA NotYetGiven ==
    ASSUME EngineOK, NEW e \in cursor..Len(events)
    PROVE  Times(given, e) = 0
<1>1. /\ cursor \in 1..(Len(events) + 1) /\ Len(events) \in Nat /\ given \in Seq(1..(cursor - 1))
  BY DEF EngineOK
<1>2. DOMAIN given = 1..Len(given) /\ \A i \in 1..Len(given) : given[i] \in 1..(cursor - 1)
  BY <1>1
<1>3. {i \in DOMAIN given : given[i] = e} = {}
  BY <1>1, <1>2
<1> QED
  BY <1>3, FS_EmptySet DEF Times

LEMMA SearchInOrder ==
    ASSUME EngineOK, NEW type, NEW handle, NEW C, C \subseteq Ahead(type, handle), TakeNext(C),
           UNCHANGED events, given' = IF found' = 0 THEN given ELSE Append(given, found')
    PROVE  /\ EngineOK'
           /\ found' # 0 => found' \in 1..Len(events) /\ events[found'].type = type
                            /\ events[found'].handle = handle
<1> DEFINE T == 1..(cursor - 1)
<1>1. /\ dedupRemaining \in Nat /\ cursor \in 1..(Len(events) + 1) /\ Len(events) \in Nat
      /\ given \in Seq(T) /\ \A e \in 1..Len(events) : events[e].count \in Nat \ {0}
  BY DEF EngineOK
<1>2. C \subseteq Nat /\ \A e \in C : /\ e \in cursor..Len(events) /\ e \in 1..Len(events)
                                       /\ events[e].type = type /\ events[e].handle = handle
  <2>1. ASSUME NEW e \in C
        PROVE  /\ e \in Nat /\ e \in cursor..Len(events) /\ e \in 1..Len(events)
               /\ events[e].type = type /\ events[e].handle = handle
    <3>1. e \in Ahead(type, handle)
      OBVIOUS
    <3>2. e \in cursor..Len(events) /\ events[e].type = type /\ events[e].handle = handle
      BY <3>1 DEF Ahead
    <3> QED
      BY <1>1, <3>2
  <2> QED
    BY <2>1
<1>3. CASE C = {}
  <2>1. found' = 0 /\ cursor' = cursor /\ dedupRemaining' = 0 /\ given' = given /\ events' = events
    BY <1>3 DEF TakeNext, EndRun
  <2>2. EngineOK'
    BY <1>1, <2>1 DEF EngineOK
  <2> QED
    BY <2>1, <2>2
<1>4. CASE C # {}
  <2>1. PICK n \in C : n = CHOOSE i \in C : \A j \in C : i <= j
    BY <1>2, <1>4, Smallest
  <2>2. /\ found' = n /\ cursor' = n + 1
        /\ IF events[n].count = 1 THEN EndRun
           ELSE dedupIndex' = n /\ dedupRemaining' = events[n].count - 1
    BY <1>4, <2>1 DEF TakeNext
  <2>3. n \in cursor..Len(events) /\ n \in 1..Len(events) /\ n # 0 /\ events[n].type = type
        /\ events[n].handle = handle
    BY <1>1, <1>2
  <2>4. events[n].count \in Nat \ {0}
    BY <1>1, <2>3
  <2>5. \/ dedupRemaining' = 0
        \/ dedupIndex' = n /\ dedupRemaining' = events[n].count - 1 /\ events[n].count > 1
    BY <2>2, <2>4 DEF EndRun
  <2> DEFINE V == 1..n
  <2>6. given \in Seq(V)
    <3>1. T \subseteq V
      BY <1>1, <2>3
    <3> HIDE DEF T, V
    <3> QED
      BY <1>1, <3>1
  <2>7. PICK u : u = Append(given, n)
    OBVIOUS
  <2>8. n \in V
    BY <2>3
  <2>9. /\ u \in Seq(V) /\ Len(u) = Len(given) + 1 /\ u[Len(given) + 1] = n
        /\ Len(given) \in Nat /\ \A i \in 1..Len(given) : u[i] = given[i] /\ given[i] \in V
    <3> HIDE DEF V
    <3> QED
      BY <2>6, <2>7, <2>8
  <2>10. given' = u /\ events' = events
    BY <2>2, <2>3, <2>7
  <2>11. \A i \in 1..Len(u) : u[i] <= n
    <3>1. \A i \in 1..Len(u) : u[i] \in V
      <4> HIDE DEF V
      <4> QED
        BY <2>9
    <3> QED
      BY <2>3, <3>1
  <2>12. ASSUME NEW i \in 1..(Len(u) - 1)
         PROVE  u[i] <= u[i + 1]
    <3>1. CASE i = Len(given)
      <4>1. i \in 1..Len(u) /\ u[i + 1] = n
        BY <2>9, <3>1
      <4> QED
        BY <2>11, <4>1
    <3>2. CASE i # Len(given)
      <4>1. i \in 1..(Len(given) - 1) /\ i \in 1..Len(given) /\ i + 1 \in 1..Len(given)
        BY <2>9, <3>2
      <4>2. given[i] <= given[i + 1]
        BY <4>1 DEF EngineOK
      <4> QED
        BY <2>9, <4>1, <4>2
    <3> QED
      BY <3>1, <3>2
  <2>13. \A e : Times(given, e) \in Nat
                /\ Times(u, e) = IF e = n THEN Times(given, e) + 1 ELSE Times(given, e)
    <3> HIDE DEF V
    <3> QED
      BY <2>6, <2>7, <2>8, TimesAppended
  <2>14. Times(given, n) = 0 /\ Times(u, n) = 1
    BY <2>3, <2>13, NotYetGiven
  <2>15. ASSUME NEW e \in 1..Len(events)
         PROVE  Times(u, e) <= events[e].count
    <3>1. CASE e = n
      BY <2>4, <2>14, <3>1
    <3>2. CASE e # n
      BY <2>13, <3>2 DEF EngineOK
    <3> QED
      BY <3>1, <3>2
  <2>16. cursor' \in 1..(Len(events) + 1) /\ cursor' - 1 = n
    BY <1>1, <2>2, <2>3
  <2>17. dedupRemaining' \in Nat
    BY <2>4, <2>5
  <2>18. dedupRemaining' > 0 =>
           dedupIndex' = n /\ Times(u, n) + dedupRemaining' <= events[n].count
    BY <2>4, <2>5, <2>14
  <2>19. EngineOK'
    <3>1. /\ Len(events') \in Nat /\ \A e \in 1..Len(events') : events'[e].count \in Nat \ {0}
          /\ cursor' \in 1..(Len(events') + 1)
      BY <1>1, <2>10, <2>16
    <3>2. given' \in Seq(1..(cursor' - 1))
      BY <2>9, <2>10, <2>16
    <3>3. \A i \in 1..(Len(given') - 1) : given'[i] <= given'[i + 1]
      BY <2>10, <2>12
    <3>4. \A e \in 1..Len(events') : Times(given', e) <= events'[e].count
      BY <2>10, <2>15
    <3>5. dedupRemaining' > 0 =>
            /\ dedupIndex' \in 1..(cursor' - 1)
            /\ \A i \in 1..Len(given') : given'[i] <= dedupIndex'
            /\ Times(given', dedupIndex') + dedupRemaining' <= events'[dedupIndex'].count
      <4> SUFFICES ASSUME dedupRemaining' > 0
                   PROVE  /\ dedupIndex' \in 1..(cursor' - 1)
                          /\ \A i \in 1..Len(given') : given'[i] <= dedupIndex'
                          /\ Times(given', dedupIndex') + dedupRemaining' <= events'[dedupIndex'].count
        OBVIOUS
      <4>1. dedupIndex' = n /\ n \in 1..(cursor' - 1)
        BY <2>8, <2>16, <2>18
      <4>2. Times(u, n) + dedupRemaining' <= events[n].count
        BY <2>18
      <4> QED
        BY <2>10, <2>11, <4>1, <4>2
    <3> QED
      BY <2>17, <3>1, <3>2, <3>3, <3>4, <3>5 DEF EngineOK, Times
  <2> QED
    BY <2>2, <2>3, <2>19
<1> QED
  BY <1>3, <1>4

LEMMA OrderInit == Init => OrderInv
<1> SUFFICES ASSUME Init PROVE OrderInv
  OBVIOUS
<1>1. Len(events) \in Nat /\ \A e \in 1..Len(events) : events[e].count \in Nat \ {0}
  BY EventCounts DEF Init
<1>2. \A e : Times(given, e) = 0
  <2>1. \A e : {i \in DOMAIN given : given[i] = e} = {}
    BY DEF Init
  <2> QED
    BY <2>1, FS_EmptySet DEF Times
<1>3. EngineOK
  BY <1>1, <1>2 DEF Init, EngineOK
<1> QED
  BY <1>3 DEF Init, OrderInv, Fits

LEMMA OrderStep == OrderInv /\ [Next]_vars => OrderInv'
<1> SUFFICES ASSUME OrderInv, [Next]_vars PROVE OrderInv'
  OBVIOUS
<1>1. CASE UNCHANGED vars
  BY <1>1 DEF vars, engine, OrderInv, EngineOK, Fits
<1>2. ASSUME NEW i \in DOMAIN recording, ClientCalls(i)
      PROVE  OrderInv'
  <2> DEFINE c == recording[i]
  <2>1. Recorded(c)
    BY RecordingsAssumption DEF OrderInv
  <2>2. /\ Answer(c) /\ asked'.type = c.name /\ asked'.handle = c.handle
        /\ given' = IF found' = 0 THEN given ELSE Append(given, found')
        /\ UNCHANGED <<recording, events>>
    BY <1>2 DEF ClientCalls
  <2> HIDE DEF c
  <2>3. Searches(c.name, c.handle) \/ (found' = 0 /\ UNCHANGED engine)
    BY <2>1, <2>2, AnswerSearches
  <2>4. CASE found' = 0 /\ UNCHANGED engine
    BY <2>2, <2>4 DEF engine, OrderInv, EngineOK, Fits
  <2>5. CASE InRun(c.name, c.handle) /\ TakeRepeat
    <3>1. found' # 0
      BY <2>5 DEF OrderInv, EngineOK, InRun, TakeRepeat
    <3>2. EngineOK' /\ events[found'].type = c.name /\ events[found'].handle = c.handle
      BY <2>2, <2>5, <3>1, RepeatInOrder DEF OrderInv
    <3> QED
      BY <2>2, <3>2 DEF OrderInv, Fits
  <2>6. CASE \E C : C \subseteq Ahead(c.name, c.handle) /\ TakeNext(C)
    <3>1. EngineOK' /\ (found' # 0 => events[found'].type = c.name /\ events[found'].handle = c.handle)
      BY <2>2, <2>6, SearchInOrder DEF OrderInv
    <3> QED
      BY <2>2, <3>1 DEF OrderInv, Fits
  <2> QED
    BY <2>3, <2>4, <2>5, <2>6 DEF Searches
<1> QED
  BY <1>1, <1>2 DEF Next

LEMMA OrderImplies == OrderInv => AnswersInOrder
<1> SUFFICES ASSUME OrderInv PROVE AnswersInOrder
  OBVIOUS
<1>1. \A e \in Range(given) : e \in 1..Len(events)
  <2>1. given \in Seq(1..(cursor - 1)) /\ cursor \in 1..(Len(events) + 1) /\ Len(events) \in Nat
    BY DEF OrderInv, EngineOK
  <2>2. \A i \in DOMAIN given : given[i] \in 1..(cursor - 1)
    BY <2>1
  <2> QED
    BY <2>1, <2>2 DEF Range
<1>2. \A e \in Range(given) : Times(given, e) <= events[e].count
  BY <1>1 DEF OrderInv, EngineOK
<1> QED
  BY <1>2 DEF OrderInv, EngineOK, Fits, AnswersInOrder, Times

(* Whatever calls a client makes, in whatever order, the events answer     *)
(* calls of their own kind, in the order of the log, and each no more      *)
(* calls than it was recorded for.                                         *)
THEOREM AnswersOrdered == Spec => []AnswersInOrder
  BY OrderInit, OrderStep, OrderImplies, PTL DEF Spec

-----------------------------------------------------------------------------
\* The text of a call and the event it becomes

\* A call whose text fits in the parser's buffers.
Fit(c) ==
  /\ Recorded(c) /\ c.size <= TextSize
  /\ c.name = "ReadMsgs" => Len(c.told.msgs) <= MaxMsgs

\* The event as parseEntry() gives it to parseCallText().
Raw(c, ev) ==
  /\ ev.type = c.name /\ ev.code = LookupError(c.told.code)
  /\ {"handle", "id", "out", "msgs", "ioctl", "known", "hasOutput", "output", "versions"}
       \subseteq DOMAIN ev

LEMMA EntryText ==
    ASSUME NEW c, Fit(c), NEW entry, entry.text = Text(c)
    PROVE  \E ev : Raw(c, ev) /\ ParseEntry(entry) = ParseCallText(Text(c), ev)
<1>1. ~(c.arrow > TextSize) /\ ~(c.size > TextSize)
  BY ReplayLogAssumption DEF Fit, Recorded
<1>2. Decoded(Text(c)) = Text(c)
  BY <1>1 DEF Decoded, Text
<1>3. Text(c).name = c.name /\ Text(c).code = c.told.code
  BY DEF Text
<1> DEFINE ev == [NoEvent EXCEPT !.type = c.name, !.code = LookupError(c.told.code),
                                 !.count = entry.count]
<1>4. ev.type = c.name /\ ev.code = LookupError(c.told.code)
  BY DEF NoEvent
<1>5. {"handle", "id", "out", "msgs", "ioctl", "known", "hasOutput", "output", "versions"}
        \subseteq DOMAIN ev
  BY DEF NoEvent
<1>6. ParseEntry(entry) = ParseCallText(Text(c), ev)
  BY <1>2, <1>3 DEF ParseEntry
<1> HIDE DEF ev
<1> QED
  BY <1>4, <1>5, <1>6 DEF Raw

\* What is told of a call, field by field.
LEMMA ToldFields ==
    ASSUME NEW c, Recorded(c)
    PROVE  c.told = [code |-> c.told.code,
                     id |-> IF "id" \in Outputs(c.name) THEN c.told.id ELSE 0,
                     count |-> IF "count" \in Outputs(c.name) THEN c.told.count ELSE 0,
                     msgs |-> IF "msgs" \in Outputs(c.name) THEN c.told.msgs ELSE <<>>,
                     value |-> IF "value" \in Outputs(c.name) THEN c.told.value ELSE Unwritten,
                     versions |-> IF "versions" \in Outputs(c.name) THEN c.told.versions ELSE <<>>]
<1> DEFINE t == c.told
           O == Outputs(c.name)
<1>1. t = [f \in DOMAIN Default |-> IF f \in {"code"} \cup O THEN t[f] ELSE Default[f]]
  BY DEF Recorded
<1>2. DOMAIN Default = {"code", "id", "count", "msgs", "value", "versions"}
  BY DEF Default
<1>3. /\ Default.id = 0 /\ Default.count = 0 /\ Default.msgs = <<>>
      /\ Default.value = Unwritten
      /\ Default.versions = <<>>
  BY DEF Default
<1> HIDE DEF t, O
<1>4. t = [code |-> t.code,
           id |-> IF "id" \in O THEN t.id ELSE 0,
           count |-> IF "count" \in O THEN t.count ELSE 0,
           msgs |-> IF "msgs" \in O THEN t.msgs ELSE <<>>,
           value |-> IF "value" \in O THEN t.value ELSE Unwritten,
           versions |-> IF "versions" \in O THEN t.versions ELSE <<>>]
  BY <1>1, <1>2, <1>3
<1> QED
  BY <1>4 DEF t, O

\* The functions that have events.
Evented == {"Open", "Close", "Disconnect", "StopMsgFilter", "Connect", "WriteMsgs", "ReadMsgs",
            "Ioctl", "StartMsgFilter", "ReadVersion"}

\* What the event of a call keeps of it.
Becomes(c, ev) ==
  /\ ev.type = c.name /\ ev.code = LookupError(c.told.code)
  /\ ev.handle = IF c.name = "Open" THEN c.told.id ELSE c.handle
  /\ c.name = "Connect" => ev.id = c.told.id
  /\ c.name \in {"ReadMsgs", "WriteMsgs"} => ev.out = c.told.count
  /\ c.name = "ReadMsgs" =>
       ev.msgs = [i \in 1..Len(c.told.msgs) |-> ParseSingleMessage(MsgText(c.told.msgs[i]))]
  /\ c.name = "Ioctl" => (ev.ioctl = c.what \/ ~ev.known)
  /\ c.name = "Ioctl" /\ c.address # 0 =>
       (IF ev.hasOutput THEN ev.output ELSE Unwritten) = Overwritten(c)
  /\ c.name = "StartMsgFilter" /\ c.what = "FLOW_CONTROL_FILTER" => ev.id = c.told.id
  /\ c.name = "ReadVersion" /\ (\A i \in 1..3 : c.told.versions[i] \notin {"", "NULL"}) =>
       ev.versions = c.told.versions

LEMMA Pieces ==
  /\ \A n : Num(n).value = n /\ Num(n).word = ""
  /\ \A w : Word(w).word = w /\ Word(w).value = 0
  /\ \A ms : List(ms).msgs = ms
  BY DEF Num, Word, List, Piece

LEMMA OpenEvent ==
    ASSUME NEW c, NEW ev, Raw(c, ev), c.name = "Open"
    PROVE  \E e : ParseCallText(Text(c), ev) = <<e>> /\ Becomes(c, e)
<1>1. Text(c).name = "Open" /\ Text(c).args = <<Word("NULL"), Num(c.told.id)>>
  BY DEF Text, Args, OpenArgs
<1>2. Text(c).args[2].value = c.told.id
  <2>1. Text(c).args[2] = Num(c.told.id)
    BY <1>1
  <2> QED
    BY <2>1, Pieces
<1>3. PICK e : e = ParseOpen(ev, Text(c).args)
  OBVIOUS
<1>4. e.type = ev.type /\ e.code = ev.code /\ e.handle = c.told.id
  BY <1>2, <1>3 DEF Raw, ParseOpen
<1>5. ParseCallText(Text(c), ev) = <<e>>
  BY <1>1, <1>3 DEF ParseCallText
<1> QED
  BY <1>4, <1>5 DEF Raw, Becomes

LEMMA EndEvent ==
    ASSUME NEW c, NEW ev, Raw(c, ev), c.name \in {"Close", "Disconnect", "StopMsgFilter"}
    PROVE  \E e : ParseCallText(Text(c), ev) = <<e>> /\ Becomes(c, e)
<1>1. Text(c).name = c.name /\ Text(c).args = Args(c)
  BY DEF Text
<1>2. Args(c)[1].value = c.handle
  <2>1. Args(c) = <<Num(c.handle)>> \/ Args(c) = <<Num(c.handle), Word(c.what)>>
    BY DEF Args
  <2>2. Args(c)[1] = Num(c.handle)
    BY <2>1
  <2> QED
    BY <2>2, Pieces
<1>3. PICK e : e = ParseHandle(ev, Text(c).args)
  OBVIOUS
<1>4. e.type = ev.type /\ e.code = ev.code /\ e.handle = c.handle
  BY <1>1, <1>2, <1>3 DEF Raw, ParseHandle
<1>5. ParseCallText(Text(c), ev) = <<e>>
  BY <1>1, <1>3 DEF ParseCallText
<1> QED
  BY <1>4, <1>5 DEF Raw, Becomes

LEMMA ConnectEvent ==
    ASSUME NEW c, NEW ev, Raw(c, ev), c.name = "Connect"
    PROVE  \E e : ParseCallText(Text(c), ev) = <<e>> /\ Becomes(c, e)
<1>1. Text(c).name = c.name /\ Text(c).args = Args(c)
  BY DEF Text
<1>2. Args(c)[1].value = c.handle /\ Args(c)[5].value = c.told.id
  <2>1. Args(c) = ConnectArgs(c)
    BY DEF Args
  <2> QED
    <3>1. ConnectArgs(c)[1] = Num(c.handle) /\ ConnectArgs(c)[5] = Num(c.told.id)
      BY DEF ConnectArgs
    <3> QED
      BY <2>1, <3>1, Pieces
<1>3. PICK e : e = ParseConnect(ev, Text(c).args)
  OBVIOUS
<1>4. e.type = ev.type /\ e.code = ev.code /\ e.handle = c.handle /\ e.id = c.told.id
  BY <1>1, <1>2, <1>3 DEF Raw, ParseConnect
<1>5. ParseCallText(Text(c), ev) = <<e>>
  BY <1>1, <1>3 DEF ParseCallText
<1> QED
  BY <1>4, <1>5 DEF Raw, Becomes

LEMMA TransferEvent ==
    ASSUME NEW c, Fit(c), NEW ev, Raw(c, ev), c.name \in {"ReadMsgs", "WriteMsgs"}
    PROVE  \E e : ParseCallText(Text(c), ev) = <<e>> /\ Becomes(c, e)
<1>1. Text(c).name = c.name /\ Text(c).args = Args(c)
  BY DEF Text
<1> DEFINE ms == c.told.msgs
<1>2. Args(c)[1].value = c.handle /\ Args(c)[3].value = c.told.count
  <2>1. Args(c) = ReadArgs(c) \/ Args(c) = WriteArgs(c)
    BY DEF Args
  <2>2. ReadArgs(c)[1] = Num(c.handle) /\ ReadArgs(c)[3] = Num(c.told.count)
    BY DEF ReadArgs
  <2>3. WriteArgs(c)[1] = Num(c.handle) /\ WriteArgs(c)[3] = Num(c.told.count)
    BY DEF WriteArgs
  <2>4. Num(c.handle).value = c.handle /\ Num(c.told.count).value = c.told.count
    BY Pieces
  <2> QED
    BY <2>1, <2>2, <2>3, <2>4
<1>3. PICK e : e = ParseTransfer(ev, Text(c).args)
  OBVIOUS
<1>4. /\ e.type = ev.type /\ e.code = ev.code /\ e.handle = c.handle /\ e.out = c.told.count
      /\ e.msgs = ParseMessages(Args(c)[2].msgs)
  BY <1>1, <1>2, <1>3 DEF Raw, ParseTransfer
<1>5. ParseCallText(Text(c), ev) = <<e>>
  BY <1>1, <1>3 DEF ParseCallText
<1>6. ASSUME c.name = "ReadMsgs"
      PROVE  e.msgs = [i \in 1..Len(ms) |-> ParseSingleMessage(MsgText(ms[i]))]
  <2>1. Args(c)[2] = List([i \in DOMAIN ms |-> MsgText(ms[i])])
    <3>1. Args(c) = ReadArgs(c)
      BY <1>6 DEF Args
    <3> QED
      BY <3>1 DEF ReadArgs
  <2>2. Args(c)[2].msgs = [i \in DOMAIN ms |-> MsgText(ms[i])]
    BY <2>1, Pieces
  <2>3. Len(ms) \in Nat /\ DOMAIN ms = 1..Len(ms) /\ Len(ms) <= MaxMsgs
    BY <1>6 DEF Fit, Recorded, IsSeq
  <2> HIDE DEF ms
  <2>4. PICK list : list = [i \in 1..Len(ms) |-> MsgText(ms[i])]
    OBVIOUS
  <2>5. {i \in DOMAIN list : i <= MaxMsgs} = 1..Len(ms)
    BY <2>3, <2>4, ReplayLogAssumption
  <2>6. ParseMessages(list) = [i \in 1..Len(ms) |-> ParseSingleMessage(list[i])]
    BY <2>5 DEF ParseMessages
  <2>7. \A i \in 1..Len(ms) : list[i] = MsgText(ms[i])
    BY <2>4
  <2>8. ParseMessages(list) = [i \in 1..Len(ms) |-> ParseSingleMessage(MsgText(ms[i]))]
    BY <2>6, <2>7
  <2> QED
    BY <1>4, <2>2, <2>3, <2>4, <2>8
<1> QED
  BY <1>4, <1>5, <1>6 DEF Raw, Becomes

\* An ioctl with a list of parameters.
Listed(c) == c.what \in {"GET_CONFIG", "SET_CONFIG"} /\ c.list # <<>>

LEMMA ConfigPieces ==
    ASSUME NEW T, NEW list \in Seq(T), list # <<>>
    PROVE  /\ \E P : ConfigText(list) \in Seq(P)
           /\ Len(ConfigText(list)) >= 2 /\ ConfigText(list)[2] = ValueText(list[1])
<1> DEFINE n == 2 * Len(list)
           P == {ConfigText(list)[i] : i \in 1..n}
<1>1. n \in Nat /\ n >= 2
  <2>1. Len(list) \in Nat /\ Len(list) # 0
    OBVIOUS
  <2> QED
    BY <2>1
<1>2. ConfigText(list) = [i \in 1..n |-> ConfigText(list)[i]]
  BY DEF ConfigText
<1>3. \A i \in 1..n : ConfigText(list)[i] \in P
  OBVIOUS
<1>4. ConfigText(list)[2] = ValueText(list[1])
  <2>1. 2 \in 1..n /\ ~(2 % 2 = 1) /\ 2 \div 2 = 1
    BY <1>1
  <2>2. ConfigText(list)[2] = ValueText(list[2 \div 2])
    BY <2>1 DEF ConfigText
  <2> QED
    BY <2>1, <2>2
<1>5. PICK s : s = ConfigText(list)
  OBVIOUS
<1> HIDE DEF n, P
<1>6. s \in Seq(P) /\ Len(s) = n
  BY <1>1, <1>2, <1>3, <1>5
<1> QED
  BY <1>1, <1>4, <1>5, <1>6

LEMMA IoctlPieces ==
    ASSUME NEW c, IsSeq(c.list)
    PROVE  /\ IoctlArgs(c)[1] = Num(c.handle) /\ IoctlArgs(c)[2] = Word(c.what)
           /\ IoctlArgs(c)[4] = IF Listed(c) THEN ValueText(c.list[1]) ELSE OutputText(c)
<1> DEFINE a == Num(c.handle)
           b == Word(c.what)
           o == OutputText(c)
           v == ValueText(c.list[1])
           m == CASE c.what \in {"GET_CONFIG", "SET_CONFIG"} /\ c.list # <<>> -> ConfigText(c.list)
                  [] c.what \in Passing -> <<[Piece EXCEPT !.msgs = c.list]>>
                  [] OTHER -> <<Word("NULL")>>
<1>1. IoctlArgs(c) = <<a, b>> \o m \o <<o>>
  BY DEF IoctlArgs
<1>2. ASSUME Listed(c)
      PROVE  m = ConfigText(c.list)
  BY <1>2 DEF Listed, Passing
<1>3. ASSUME ~Listed(c)
      PROVE  \E w : m = <<w>>
  <2>1. CASE c.what \in Passing
    <3>1. m = <<[Piece EXCEPT !.msgs = c.list]>>
      BY <1>3, <2>1 DEF Listed
    <3> QED
      BY <3>1
  <2>2. CASE c.what \notin Passing
    <3>1. m = <<Word("NULL")>>
      BY <1>3, <2>2 DEF Listed
    <3> QED
      BY <3>1
  <2> QED
    BY <2>1, <2>2
<1> HIDE DEF a, b, m, o, v
<1>4. ASSUME Listed(c)
      PROVE  (\E P : m \in Seq(P)) /\ Len(m) >= 2 /\ m[2] = v
  <2>1. c.list \in Seq(Range(c.list)) /\ c.list # <<>>
    BY <1>4 DEF IsSeq, Listed
  <2>2. /\ \E P : ConfigText(c.list) \in Seq(P)
        /\ Len(ConfigText(c.list)) >= 2 /\ ConfigText(c.list)[2] = ValueText(c.list[1])
    BY <2>1, ConfigPieces
  <2> QED
    BY <1>2, <1>4, <2>2 DEF v
<1>5. ASSUME ~Listed(c)
      PROVE  (\E P : m \in Seq(P)) /\ Len(m) = 1
  <2>1. PICK w : m = <<w>>
    BY <1>3, <1>5
  <2>2. <<w>> \in Seq({w}) /\ Len(<<w>>) = 1
    OBVIOUS
  <2> QED
    BY <2>1, <2>2
<1>6. PICK P : m \in Seq(P)
  BY <1>4, <1>5
<1> DEFINE Q == P \cup {a, b, o}
<1>7. PICK s : s = <<a, b>> \o m
  OBVIOUS
<1>8. PICK t : t = s \o <<o>>
  OBVIOUS
<1>9. <<a, b>> \in Seq(Q) /\ m \in Seq(Q) /\ <<o>> \in Seq(Q)
  <2>1. P \subseteq Q /\ a \in Q /\ b \in Q /\ o \in Q
    OBVIOUS
  <2> HIDE DEF Q
  <2> QED
    BY <1>6, <2>1
<1> HIDE DEF Q
<1>10. /\ s \in Seq(Q) /\ Len(s) = 2 + Len(m) /\ Len(m) \in Nat /\ s[1] = a /\ s[2] = b
       /\ Len(m) >= 2 => s[4] = m[2]
  BY <1>7, <1>9
<1>11. /\ t[1] = a /\ t[2] = b /\ t[Len(s) + 1] = o
       /\ Len(s) >= 4 => t[4] = s[4]
  BY <1>8, <1>9, <1>10
<1>12. IoctlArgs(c) = t
  BY <1>1, <1>7, <1>8
<1>13. \A x \in Nat : (x = 1 => (2 + x) + 1 = 4) /\ (x >= 2 => 2 + x >= 4)
  OBVIOUS
<1>14. ASSUME Listed(c)
       PROVE  t[4] = v
  <2>1. Len(m) >= 2 /\ m[2] = v
    BY <1>4, <1>14
  <2>2. Len(s) >= 4
    BY <1>10, <1>13, <2>1
  <2> QED
    BY <1>10, <1>11, <2>1, <2>2
<1>15. ASSUME ~Listed(c)
       PROVE  t[4] = o
  <2>1. Len(m) = 1
    BY <1>5, <1>15
  <2>2. Len(s) + 1 = 4
    BY <1>10, <1>13, <2>1
  <2> QED
    BY <1>11, <2>2
<1> QED
  BY <1>11, <1>12, <1>14, <1>15 DEF a, b, o, v

\* What the number at the output of an ioctl is when it is played back.
Shown(word, value) == IF word \notin {"NULL", "blank"} THEN value ELSE Unwritten

LEMMA OutputShown ==
    ASSUME NEW c, c.address # 0, ~Listed(c)
    PROVE  Shown(OutputText(c).word, OutputText(c).value) = Overwritten(c)
<1>1. /\ Num(c.address).value = c.address /\ Num(c.address).word = ""
      /\ Word("{NULL}").value = 0 /\ Word("{NULL}").word = "{NULL}"
      /\ Word("blank").word = "blank" /\ Word("NULL").word = "NULL"
  BY Pieces
<1>2. CASE c.what \in Pointed
  <2>1. OutputText(c) = Num(c.address)
    BY <1>2 DEF OutputText, Pointed
  <2>2. Overwritten(c) = c.address
    BY <1>2 DEF Overwritten, Pointed
  <2> QED
    BY <1>1, <2>1, <2>2 DEF Shown
<1>3. CASE c.what = "FAST_INIT"
  <2>1. PICK o : o = OutputText(c)
    OBVIOUS
  <2>2. o = [Word("{") EXCEPT !.msgs = c.told.msgs]
    BY <1>3, <2>1 DEF OutputText, Pointed
  <2>3. Word("{").word = "{" /\ Word("{").value = 0 /\ DOMAIN Word("{") = {"word", "value", "msgs"}
    BY DEF Word, Piece
  <2>4. o.word = "{" /\ o.value = 0
    BY <2>2, <2>3
  <2>5. Overwritten(c) = 0
    BY <1>3 DEF Overwritten, Pointed
  <2> QED
    BY <2>1, <2>4, <2>5 DEF Shown
<1>4. CASE c.what = "FIVE_BAUD_INIT"
  <2>1. PICK arrays : arrays = c.told.msgs
    OBVIOUS
  <2>2. OutputText(c) = IF arrays = <<>> THEN Word("{NULL}") ELSE BytesText(arrays[1].bytes)
    BY <1>4, <2>1 DEF OutputText, Pointed
  <2>3. Overwritten(c) = IF arrays = <<>> THEN 0
                         ELSE IF arrays[1].bytes = <<>> THEN Unwritten ELSE Digits(arrays[1].bytes[1])
    BY <1>4, <2>1 DEF Overwritten, Pointed
  <2>4. PICK bytes, d : bytes = arrays[1].bytes /\ d = Digits(bytes[1])
    OBVIOUS
  <2>5. CASE arrays = <<>>
    BY <1>1, <2>2, <2>3, <2>5 DEF Shown
  <2>6. CASE arrays # <<>> /\ bytes = <<>>
    <3>1. OutputText(c) = Word("blank")
      BY <2>2, <2>4, <2>6 DEF BytesText
    <3> QED
      BY <1>1, <2>3, <2>4, <2>6, <3>1 DEF Shown
  <2>7. CASE arrays # <<>> /\ bytes # <<>>
    <3>1. OutputText(c) = [word |-> "bytes", value |-> d, msgs |-> <<[bytes |-> bytes]>>]
      BY <2>2, <2>4, <2>7 DEF BytesText
    <3>2. OutputText(c).word = "bytes" /\ OutputText(c).value = d
      BY <3>1
    <3>3. Overwritten(c) = d
      BY <2>3, <2>4, <2>7
    <3> QED
      BY <3>2, <3>3 DEF Shown
  <2> QED
    BY <2>5, <2>6, <2>7
<1>5. CASE c.what \notin Pointed \cup {"FAST_INIT", "FIVE_BAUD_INIT"}
  <2>1. OutputText(c) = Word("NULL")
    BY <1>5 DEF OutputText, Pointed
  <2>2. Overwritten(c) = Unwritten
    BY <1>5 DEF Overwritten, Listed
  <2> QED
    BY <1>1, <2>1, <2>2 DEF Shown
<1> QED
  BY <1>2, <1>3, <1>4, <1>5

LEMMA IoctlEvent ==
    ASSUME NEW c, Fit(c), NEW ev, Raw(c, ev), c.name = "Ioctl"
    PROVE  \E e : ParseCallText(Text(c), ev) = <<e>> /\ Becomes(c, e)
<1>1. Text(c).name = c.name /\ Text(c).args = IoctlArgs(c)
  BY DEF Text, Args
<1>2. /\ IoctlArgs(c)[1] = Num(c.handle) /\ IoctlArgs(c)[2] = Word(c.what)
      /\ IoctlArgs(c)[4] = IF Listed(c) THEN ValueText(c.list[1]) ELSE OutputText(c)
  <2>1. IsSeq(c.list)
    BY DEF Fit, Recorded
  <2> QED
    BY <2>1, IoctlPieces
<1>3. IoctlArgs(c)[1].value = c.handle /\ IoctlArgs(c)[2].word = c.what
  <2>1. Num(c.handle).value = c.handle /\ Word(c.what).word = c.what
    BY Pieces
  <2> QED
    BY <1>2, <2>1
<1>4. PICK e : e = ParseIoctl(ev, Text(c).args)
  OBVIOUS
<1> DEFINE l == LookupIoctl(c.what)
<1>5. /\ e.type = ev.type /\ e.code = ev.code /\ e.handle = c.handle
      /\ e.known = (l # "0")
      /\ e.ioctl = (IF c.what = "UNK" THEN c.what ELSE l)
      /\ e.hasOutput = (IoctlArgs(c)[4].word \notin {"NULL", "blank"})
      /\ e.output = IoctlArgs(c)[4].value
  <2>1. PICK a : a = IoctlArgs(c)
    OBVIOUS
  <2>2. a[1].value = c.handle /\ a[2].word = c.what
    BY <1>3, <2>1
  <2>3. PICK name, out : name = a[2].word /\ out = a[4]
    OBVIOUS
  <2>4. PICK u : u = LookupIoctl(name)
    OBVIOUS
  <2>5. e = [ev EXCEPT !.handle = a[1].value, !.ioctl = IF name = "UNK" THEN name ELSE u,
              !.known = u # "0", !.hasOutput = out.word \notin {"NULL", "blank"},
              !.output = out.value]
    BY <1>1, <1>4, <2>1, <2>3, <2>4 DEF ParseIoctl
  <2>6. e.type = ev.type /\ e.code = ev.code /\ e.handle = a[1].value
    BY <2>5 DEF Raw
  <2>7. e.ioctl = (IF name = "UNK" THEN name ELSE u)
    BY <2>5 DEF Raw
  <2>8. e.known = (u # "0")
    BY <2>5 DEF Raw
  <2>9. e.hasOutput = (out.word \notin {"NULL", "blank"}) /\ e.output = out.value
    BY <2>5 DEF Raw
  <2>10. name = c.what /\ u = l
    BY <2>2, <2>3, <2>4
  <2> QED
    BY <2>1, <2>2, <2>3, <2>6, <2>7, <2>8, <2>9, <2>10
<1>6. e.ioctl = c.what \/ ~e.known
  BY <1>5 DEF LookupIoctl
<1>7. ParseCallText(Text(c), ev) = <<e>>
  BY <1>1, <1>4 DEF ParseCallText
<1>8. (IF e.hasOutput THEN e.output ELSE Unwritten)
        = Shown(IoctlArgs(c)[4].word, IoctlArgs(c)[4].value)
  BY <1>5 DEF Shown
<1>9. ASSUME c.address # 0
      PROVE  Shown(IoctlArgs(c)[4].word, IoctlArgs(c)[4].value) = Overwritten(c)
  <2>1. CASE Listed(c)
    <3>1. PICK v : v = ValueText(c.list[1])
      OBVIOUS
    <3>2. IoctlArgs(c)[4] = v
      BY <1>2, <2>1, <3>1
    <3>3. v.word \notin {"NULL", "blank"}
      BY <3>1, Pieces DEF ValueText
    <3>4. Overwritten(c) = v.value
      BY <1>9, <2>1, <3>1 DEF Overwritten, Listed, Pointed
    <3> QED
      BY <3>2, <3>3, <3>4 DEF Shown
  <2>2. CASE ~Listed(c)
    BY <1>2, <1>9, <2>2, OutputShown
  <2> QED
    BY <2>1, <2>2
<1> QED
  BY <1>5, <1>6, <1>7, <1>8, <1>9 DEF Raw, Becomes

LEMMA FilterEvent ==
    ASSUME NEW c, NEW ev, Raw(c, ev), c.name = "StartMsgFilter"
    PROVE  \E e : ParseCallText(Text(c), ev) = <<e>> /\ Becomes(c, e)
<1>1. Text(c).name = c.name /\ Text(c).args = FilterArgs(c)
  BY DEF Text, Args
<1>2. /\ FilterArgs(c)[1] = Num(c.handle) /\ FilterArgs(c)[6] = Num(c.told.id)
      /\ c.what = "FLOW_CONTROL_FILTER" => FilterArgs(c)[5] = Braced(c)
  BY DEF FilterArgs
<1>3. /\ FilterArgs(c)[1].value = c.handle /\ FilterArgs(c)[6].value = c.told.id
      /\ c.what = "FLOW_CONTROL_FILTER" => FilterArgs(c)[5].word = "{"
  <2>1. Braced(c).word = "{"
    BY DEF Braced, Word, Piece
  <2> QED
    BY <1>2, <2>1, Pieces
<1>4. PICK e : e = ParseFilterStart(ev, Text(c).args)
  OBVIOUS
<1>5. /\ e.type = ev.type /\ e.code = ev.code /\ e.handle = c.handle
      /\ e.id = IF FilterArgs(c)[5].word = "{" THEN FilterArgs(c)[6].value
                ELSE FilterArgs(c)[5].value
  <2>1. PICK a : a = FilterArgs(c)
    OBVIOUS
  <2>2. e = [ev EXCEPT !.handle = a[1].value,
                       !.id = IF a[5].word = "{" THEN a[6].value ELSE a[5].value]
    BY <1>1, <1>4, <2>1 DEF ParseFilterStart
  <2>3. e.type = ev.type /\ e.code = ev.code /\ e.handle = a[1].value
    BY <2>2 DEF Raw
  <2>4. e.id = IF a[5].word = "{" THEN a[6].value ELSE a[5].value
    BY <2>2 DEF Raw
  <2> QED
    BY <1>3, <2>1, <2>3, <2>4
<1>6. ParseCallText(Text(c), ev) = <<e>>
  BY <1>1, <1>4 DEF ParseCallText
<1> QED
  BY <1>3, <1>5, <1>6 DEF Raw, Becomes

LEMMA VersionEvent ==
    ASSUME NEW c, Fit(c), NEW ev, Raw(c, ev), c.name = "ReadVersion"
    PROVE  \E e : ParseCallText(Text(c), ev) = <<e>> /\ Becomes(c, e)
<1>1. Text(c).name = c.name /\ Text(c).args = VersionArgs(c)
  BY DEF Text, Args
<1> DEFINE v == c.told.versions
<1>2. PICK w : w = VersionArgs(c)
  OBVIOUS
<1>3. w[1] = Num(c.handle) /\ \A i \in 1..3 : w[i + 1] = Quoted(v[i])
  <2>1. PICK q : q = [i \in 1..3 |-> Quoted(v[i])]
    OBVIOUS
  <2>2. w = <<Num(c.handle)>> \o q
    BY <1>2, <2>1 DEF VersionArgs
  <2> DEFINE Q == {Num(c.handle)} \cup {q[i] : i \in 1..3}
  <2>3. q \in Seq(Q) /\ Len(q) = 3 /\ <<Num(c.handle)>> \in Seq(Q)
    <3>1. Num(c.handle) \in Q /\ \A i \in 1..3 : q[i] \in Q
      OBVIOUS
    <3> HIDE DEF Q
    <3> QED
      BY <2>1, <3>1
  <2>4. \A i \in 1..3 : q[i] = Quoted(v[i])
    BY <2>1
  <2> HIDE DEF Q
  <2>5. w[1] = Num(c.handle) /\ \A i \in 1..3 : w[i + 1] = q[i]
    BY <2>2, <2>3
  <2> QED
    BY <2>4, <2>5
<1>4. PICK e : e = ParseVersion(ev, w)
  OBVIOUS
<1>5. w[1].value = c.handle
  BY <1>3, Pieces
<1>6. /\ e.type = ev.type /\ e.code = ev.code /\ e.handle = c.handle
      /\ e.versions = [i \in 1..3 |-> IF \A j \in 1..i : w[j + 1].word # "NULL"
                                      THEN w[i + 1].word ELSE ""]
  BY <1>4, <1>5 DEF Raw, ParseVersion
<1>7. ParseCallText(Text(c), ev) = <<e>>
  BY <1>1, <1>2, <1>4 DEF ParseCallText
<1>8. ASSUME \A i \in 1..3 : v[i] \notin {"", "NULL"}
      PROVE  e.versions = v
  <2>1. ASSUME NEW i \in 1..3
        PROVE  w[i + 1].word = v[i] /\ w[i + 1].word # "NULL"
    <3>1. Quoted(v[i]) = Word(v[i]) /\ v[i] # "NULL"
      BY <1>8 DEF Quoted
    <3>2. w[i + 1] = Word(v[i])
      BY <1>3, <3>1
    <3> QED
      BY <3>1, <3>2, Pieces
  <2>2. \A i \in 1..3 : \A j \in 1..i : w[j + 1].word # "NULL"
    <3>1. \A i \in 1..3 : \A j \in 1..i : j \in 1..3
      OBVIOUS
    <3> QED
      BY <2>1, <3>1
  <2>3. e.versions = [i \in 1..3 |-> v[i]]
    BY <1>6, <2>1, <2>2
  <2>4. v = [i \in 1..3 |-> v[i]]
    BY DEF Fit, Recorded
  <2> QED
    BY <2>3, <2>4
<1> QED
  BY <1>6, <1>7, <1>8 DEF Raw, Becomes

\* The text of a call becomes the event of that call, or none.
LEMMA CallEvent ==
    ASSUME NEW c, Fit(c), NEW entry, entry.text = Text(c)
    PROVE  /\ c.name \in Evented => \E e : ParseEntry(entry) = <<e>> /\ Becomes(c, e)
           /\ c.name \notin Evented => ParseEntry(entry) = <<>>
<1>1. PICK ev : Raw(c, ev) /\ ParseEntry(entry) = ParseCallText(Text(c), ev)
  BY EntryText
<1>2. ASSUME c.name \in Evented
      PROVE  \E e : ParseEntry(entry) = <<e>> /\ Becomes(c, e)
  BY <1>1, <1>2, OpenEvent, EndEvent, ConnectEvent, TransferEvent, IoctlEvent, FilterEvent,
     VersionEvent DEF Evented
<1>3. ASSUME c.name \notin Evented
      PROVE  ParseEntry(entry) = <<>>
  <2>1. Text(c).name = c.name
    BY DEF Text
  <2> QED
    BY <1>1, <1>3, <2>1 DEF Evented, ParseCallText
<1> QED
  BY <1>2, <1>3

-----------------------------------------------------------------------------
\* The entry of each call and its event

\* A later log goes on from an earlier one; its last entry may have counted more.
Extends(a, b) ==
  /\ Len(a) \in Nat /\ Len(b) \in Nat /\ Len(a) <= Len(b)
  /\ \A j \in 1..(Len(a) - 1) : b[j] = a[j]
  /\ Len(a) > 0 => /\ b[Len(a)].text = a[Len(a)].text
                   /\ a[Len(a)].count \in Nat \ {0} /\ b[Len(a)].count \in Nat \ {0}
                   /\ a[Len(a)].count <= b[Len(a)].count

LEMMA LastEntry ==
    ASSUME NEW X, NEW log \in Logs(X)
    PROVE  Len(log) \in Nat /\ (Len(log) > 0 => log[Len(log)].count \in Nat \ {0})
<1>1. Len(log) \in Nat
  BY DEF Logs
<1> QED
  BY <1>1, LogCounts

LEMMA ExtendsBack ==
    ASSUME NEW X, NEW a \in Logs(X), NEW m \in Logs(X), NEW b, NEW text, Grown(a, text, m), Extends(m, b)
    PROVE  Extends(a, b)
<1>1. /\ Len(a) \in Nat /\ (Len(a) > 0 => a[Len(a)].count \in Nat \ {0})
      /\ \A j \in 1..(Len(a) - 1) : m[j] = a[j]
  BY LastEntry DEF Grown
<1>2. /\ Len(m) \in Nat /\ Len(b) \in Nat /\ Len(m) <= Len(b) /\ \A j \in 1..(Len(m) - 1) : b[j] = m[j]
      /\ Len(m) > 0 => /\ b[Len(m)].text = m[Len(m)].text /\ b[Len(m)].count \in Nat \ {0}
                       /\ m[Len(m)].count <= b[Len(m)].count
  BY DEF Extends
<1>3. CASE /\ Len(a) > 0 /\ a[Len(a)].text = text /\ Len(m) = Len(a)
           /\ m[Len(a)] = [text |-> text, count |-> a[Len(a)].count + 1]
  <2>1. m[Len(a)].text = text /\ m[Len(a)].count = a[Len(a)].count + 1
    BY <1>3
  <2>2. PICK x, y : x = a[Len(a)].count /\ y = b[Len(a)].count
    OBVIOUS
  <2>3. x \in Nat \ {0} /\ y \in Nat \ {0} /\ x + 1 <= y
    BY <1>1, <1>2, <1>3, <2>1, <2>2
  <2>4. x <= y
    BY <2>3
  <2> QED
    BY <1>1, <1>2, <1>3, <2>1, <2>2, <2>3, <2>4 DEF Extends
<1>4. CASE /\ Len(a) > 0 => a[Len(a)].text # text /\ m[Len(a)] = a[Len(a)]
           /\ Len(m) = Len(a) + 1
  <2>1. Len(a) <= Len(b) /\ \A j \in 1..(Len(a) - 1) : b[j] = a[j]
    <3>1. \A j \in 1..(Len(a) - 1) : j \in 1..(Len(m) - 1)
      BY <1>1, <1>4
    <3> QED
      BY <1>1, <1>2, <1>4, <3>1
  <2>2. ASSUME Len(a) > 0
        PROVE  b[Len(a)] = a[Len(a)] /\ a[Len(a)].count \in Nat \ {0}
    <3>1. Len(a) \in 1..(Len(m) - 1)
      BY <1>1, <1>4, <2>2
    <3> QED
      BY <1>1, <1>2, <1>4, <2>2, <3>1
  <2>3. Len(a) > 0 => a[Len(a)].count <= a[Len(a)].count
    BY <2>2
  <2> QED
    BY <1>1, <1>2, <2>1, <2>2, <2>3 DEF Extends
<1> QED
  BY <1>3, <1>4 DEF Grown

LEMMA LogExtends ==
    ASSUME NEW r, NEW g, LogBy(r, g)
    PROVE  \A i \in 0..Len(r) : g[i] \in Logs(Texts(r)) /\ Extends(g[i], Structured(r))
<1> DEFINE n == Len(r)
           log == Structured(r)
           S == {d \in 0..n : Extends(g[n - d], log)}
<1>1. n \in Nat /\ (\A i \in 0..n : g[i] \in Logs(Texts(r))) /\ log = g[n]
  BY DEF LogBy
<1>2. 0 \in S
  <2>1. Len(log) \in Nat /\ (Len(log) > 0 => log[Len(log)].count \in Nat \ {0})
    <3>1. log \in Logs(Texts(r))
      BY <1>1
    <3> HIDE DEF log
    <3> QED
      BY <3>1, LastEntry
  <2>2. Extends(log, log)
    BY <2>1 DEF Extends
  <2> QED
    BY <1>1, <2>2
<1>3. ASSUME NEW d \in 1..n, d - 1 \in S
      PROVE  d \in S
  <2>1. PICK i : i = n - d
    OBVIOUS
  <2>2. i \in 0..n /\ i + 1 \in 1..n /\ i + 1 \in 0..n /\ (i + 1) - 1 = i /\ n - (d - 1) = i + 1 /\ d \in 0..n
    BY <1>1, <2>1
  <2>3. Extends(g[i + 1], log)
    BY <1>3, <2>2
  <2>4. Grown(g[i], Text(r[i + 1]), g[i + 1])
    BY <2>2 DEF LogBy
  <2>5. Extends(g[i], log)
    BY <1>1, <2>2, <2>3, <2>4, ExtendsBack
  <2> QED
    BY <2>1, <2>2, <2>5
<1>4. 0..n \subseteq S
  <2> HIDE DEF S, n
  <2> QED
    BY <1>1, <1>2, <1>3, UpTo
<1>5. ASSUME NEW i \in 0..n
      PROVE  Extends(g[i], log)
  <2>1. n - i \in 0..n /\ n - (n - i) = i
    BY <1>1
  <2>2. n - i \in S
    BY <1>4, <2>1
  <2> QED
    BY <2>1, <2>2
<1> QED
  BY <1>1, <1>5

\* The call after the first k has the entry of the call before it, which has
\* counted once more, or the next one.
Placed(log, text, before, after) ==
  LET j == Len(before)
      i == Len(after)
  IN /\ j \in Nat /\ i \in 1..Len(log) /\ log[i].text = text
     /\ after[i].count \in Nat \ {0} /\ log[i].count \in Nat \ {0}
     /\ after[i].count <= log[i].count
     /\ \/ i = j /\ before[j].count \in Nat /\ after[i].count = before[j].count + 1
        \/ i = j + 1 /\ after[i].count = 1 /\ (j > 0 => log[j].count = before[j].count)

LEMMA CallPlaced ==
    ASSUME NEW r, NEW g, LogBy(r, g), NEW k \in 1..Len(r)
    PROVE  Placed(Structured(r), Text(r[k]), g[k - 1], g[k])
<1>0. PICK log, a, b, text : log = Structured(r) /\ a = g[k - 1] /\ b = g[k] /\ text = Text(r[k])
  OBVIOUS
<1>1. Len(r) \in Nat /\ k \in 0..Len(r) /\ k - 1 \in 0..Len(r)
  BY DEF LogBy
<1>2. Extends(b, log) /\ a \in Logs(Texts(r))
  BY <1>0, <1>1, LogExtends
<1>3. Grown(a, text, b)
  BY <1>0 DEF LogBy
<1>4. Len(a) \in Nat /\ (Len(a) > 0 => a[Len(a)].count \in Nat \ {0})
  BY <1>2, LastEntry
<1>5. CASE /\ Len(a) > 0 /\ a[Len(a)].text = text /\ Len(b) = Len(a)
           /\ b[Len(a)] = [text |-> text, count |-> a[Len(a)].count + 1]
  <2>1. b[Len(b)].text = text /\ b[Len(b)].count = a[Len(a)].count + 1
    BY <1>5
  <2>2. Len(b) \in 1..Len(log) /\ log[Len(b)].text = text
    BY <1>2, <1>4, <1>5, <2>1 DEF Extends
  <2>3. /\ b[Len(b)].count \in Nat \ {0} /\ log[Len(b)].count \in Nat \ {0}
        /\ b[Len(b)].count <= log[Len(b)].count
    BY <1>2, <1>4, <1>5 DEF Extends
  <2>4. Placed(log, text, a, b)
    BY <1>4, <1>5, <2>1, <2>2, <2>3 DEF Placed
  <2> QED
    BY <1>0, <2>4
<1>6. CASE /\ Len(a) > 0 => a[Len(a)].text # text /\ b[Len(a)] = a[Len(a)]
           /\ Len(b) = Len(a) + 1
           /\ b[Len(a) + 1] = [text |-> text, count |-> 1]
  <2>1. b[Len(b)].text = text /\ b[Len(b)].count = 1 /\ Len(b) > 0
    BY <1>4, <1>6
  <2>2. Len(b) \in 1..Len(log) /\ log[Len(b)].text = text
    BY <1>2, <1>4, <1>6, <2>1 DEF Extends
  <2>3. /\ b[Len(b)].count \in Nat \ {0} /\ log[Len(b)].count \in Nat \ {0}
        /\ b[Len(b)].count <= log[Len(b)].count
    BY <1>2, <2>1 DEF Extends
  <2>4. ASSUME Len(a) > 0
        PROVE  log[Len(a)].count = a[Len(a)].count
    <3>1. Len(a) \in 1..(Len(b) - 1)
      BY <1>4, <1>6, <2>4
    <3>2. log[Len(a)] = b[Len(a)]
      BY <1>2, <3>1 DEF Extends
    <3> QED
      BY <1>6, <2>4, <3>2
  <2>5. Placed(log, text, a, b)
    BY <1>4, <1>6, <2>1, <2>2, <2>3, <2>4 DEF Placed
  <2> QED
    BY <1>0, <2>5
<1> QED
  BY <1>3, <1>5, <1>6 DEF Grown

\* The events of the first entries are the first events.
LEMMA EventPlaced ==
    ASSUME NEW log, NEW h, ParsedBy(log, h)
    PROVE  /\ Len(h[0]) = 0
           /\ \A j \in 0..Len(log) : Len(h[j]) \in Nat /\ Len(h[j]) <= Len(ParseJsonFile(log))
           /\ \A j \in 1..Len(log) : ParseEntry(log[j]) = <<>> => Len(h[j]) = Len(h[j - 1])
           /\ \A j \in 1..Len(log) : ParseEntry(log[j]) # <<>> =>
                /\ Len(h[j]) = Len(h[j - 1]) + 1
                /\ ParseJsonFile(log)[Len(h[j])] = ParseEntry(log[j])[1]
<1> DEFINE n == Len(log)
           all == ParseJsonFile(log)
           Prefix(p) == Len(p) \in Nat /\ Len(p) <= Len(all) /\ \A i \in 1..Len(p) : all[i] = p[i]
           S == {d \in 0..n : Prefix(h[n - d])}
<1>1. n \in Nat /\ all = h[n] /\ h[0] = <<>>
  BY DEF ParsedBy
<1>2. \A j \in 0..n : Len(h[j]) \in Nat
  <2>1. PICK T : h \in [0..n -> Seq(T)]
    BY DEF ParsedBy
  <2> QED
    BY <2>1
<1>3. \A j \in 1..n : Added(h[j - 1], ParseEntry(log[j]), h[j])
  BY DEF ParsedBy
<1> HIDE DEF all
<1>4. 0 \in S
  BY <1>1, <1>2
<1>5. ASSUME NEW d \in 1..n, d - 1 \in S
      PROVE  d \in S
  <2>1. PICK i : i = n - d
    OBVIOUS
  <2>2. i \in 0..n /\ i + 1 \in 1..n /\ i + 1 \in 0..n /\ (i + 1) - 1 = i /\ n - (d - 1) = i + 1 /\ d \in 0..n
    BY <1>1, <2>1
  <2>3. Prefix(h[i + 1])
    BY <1>5, <2>2
  <2>4. Added(h[i], ParseEntry(log[i + 1]), h[i + 1])
    BY <1>3, <2>2
  <2>5. Len(h[i]) \in Nat /\ (Len(h[i + 1]) = Len(h[i]) \/ Len(h[i + 1]) = Len(h[i]) + 1)
    BY <2>4 DEF Added
  <2>6. \A x \in 1..Len(h[i]) : h[i + 1][x] = h[i][x] /\ x \in 1..Len(h[i + 1])
    BY <2>4, <2>5 DEF Added
  <2>7. Len(all) \in Nat
    BY <1>1, <1>2
  <2>8. Prefix(h[i])
    BY <2>3, <2>5, <2>6, <2>7
  <2> QED
    BY <2>1, <2>2, <2>8
<1>6. 0..n \subseteq S
  <2> HIDE DEF S, n
  <2> QED
    BY <1>1, <1>4, <1>5, UpTo
<1>7. ASSUME NEW j \in 0..n
      PROVE  Prefix(h[j])
  <2>1. n - j \in 0..n /\ n - (n - j) = j
    BY <1>1
  <2>2. n - j \in S
    BY <1>6, <2>1
  <2> QED
    BY <2>1, <2>2
<1>8. ASSUME NEW j \in 1..n, ParseEntry(log[j]) # <<>>
      PROVE  Len(h[j]) = Len(h[j - 1]) + 1 /\ all[Len(h[j])] = ParseEntry(log[j])[1]
  <2>1. Len(h[j]) = Len(h[j - 1]) + 1 /\ h[j][Len(h[j])] = ParseEntry(log[j])[1]
    BY <1>3, <1>8 DEF Added
  <2>2. j \in 0..n /\ j - 1 \in 0..n
    BY <1>1
  <2>3. Len(h[j]) \in 1..Len(h[j])
    BY <1>2, <2>1, <2>2
  <2>4. all[Len(h[j])] = h[j][Len(h[j])]
    BY <1>7, <2>2, <2>3
  <2> QED
    BY <2>1, <2>4
<1>9. \A j \in 1..n : ParseEntry(log[j]) = <<>> => Len(h[j]) = Len(h[j - 1])
  BY <1>3 DEF Added
<1> QED
  BY <1>1, <1>7, <1>8, <1>9 DEF all

-----------------------------------------------------------------------------
\* The walk of the cursor with the recorded session

LEMMA Asks ==
    ASSUME NEW c, Recorded(c), Answer(c)
    PROVE  /\ c.name \in Evented /\ c.name # "Ioctl" => FindNextMatch(c.name, c.handle)
           /\ c.name = "Ioctl" => FindIoctl(c.handle, c.what)
           /\ c.name \notin Evented => /\ found' = 0 /\ UNCHANGED engine /\ answer' = Default
                                       /\ c.name = "StopPeriodicMsg"
<1>1. c.name = "Open" => c.handle = 0
  BY DEF Recorded
<1>2. CASE c.name = "Open" /\ OpenDevice
  BY <1>1, <1>2 DEF OpenDevice, Evented
<1>3. CASE c.name \in {"Close", "Disconnect", "StopMsgFilter"} /\ End(c.name, c.handle)
  BY <1>3 DEF End, Evented
<1>4. CASE c.name = "Connect" /\ ConnectChannel(c.handle)
  BY <1>4 DEF ConnectChannel, Evented
<1>5. CASE c.name = "ReadMsgs" /\ ReadMsgs(c.handle)
  BY <1>5 DEF ReadMsgs, Evented
<1>6. CASE c.name = "WriteMsgs" /\ WriteMsgs(c.handle, c.told.count)
  BY <1>6 DEF WriteMsgs, Evented
<1>7. CASE c.name = "Ioctl" /\ Ioctl(c.handle, c.what, c.address # 0)
  BY <1>7 DEF Ioctl, Evented
<1>8. CASE c.name = "StartMsgFilter" /\ StartMsgFilter(c.handle)
  BY <1>8 DEF StartMsgFilter, Evented
<1>9. CASE c.name = "ReadVersion"
            /\ ReadVersion(c.handle, [i \in 1..3 |-> c.told.versions[i] # ""])
  <2>1. FindNextMatch("ReadVersion", c.handle)
    BY <1>9 DEF ReadVersion
  <2> QED
    BY <1>9, <2>1 DEF Evented
<1>10. CASE c.name = "StopPeriodicMsg" /\ answer' = Default /\ found' = 0 /\ UNCHANGED engine
  BY <1>10 DEF Evented
<1> QED
  BY <1>2, <1>3, <1>4, <1>5, <1>6, <1>7, <1>8, <1>9, <1>10 DEF Answer

LEMMA FirstTaken ==
    ASSUME EngineOK, NEW C, C \subseteq cursor..Len(events), NEW q \in C, \A i \in C : q <= i, TakeNext(C)
    PROVE  /\ found' = q /\ cursor' = q + 1 /\ dedupRemaining' = events[q].count - 1
           /\ dedupRemaining' > 0 => dedupIndex' = q
<1>1. cursor \in 1..(Len(events) + 1) /\ Len(events) \in Nat
  BY DEF EngineOK
<1>2. \A i \in C : i \in Nat /\ i \in 1..Len(events)
  BY <1>1
<1>3. PICK n \in C : n = CHOOSE i \in C : \A j \in C : i <= j
  BY <1>2, Smallest
<1>4. \A j \in C : n <= j
  BY <1>3
<1>5. n = q
  BY <1>2, <1>4
<1>6. /\ found' = q /\ cursor' = q + 1
      /\ IF events[q].count = 1 THEN EndRun
         ELSE dedupIndex' = q /\ dedupRemaining' = events[q].count - 1
  BY <1>3, <1>5 DEF TakeNext
<1>7. events[q].count \in Nat \ {0}
  BY <1>2 DEF EngineOK
<1> QED
  BY <1>6, <1>7 DEF EndRun

\* The engine has come to the event q, which can answer so many calls more;
\* the events that it has left before q are of Open.
Stands(q, left) ==
  /\ q \in Nat /\ cursor <= q + 1 /\ \A e \in cursor..q : events[e].type = "Open"
  /\ dedupRemaining = left
  /\ left > 0 => dedupIndex = q /\ cursor = q + 1

LEMMA AnsweredCall ==
    ASSUME EngineOK, NEW c, Recorded(c), Answer(c), c.name \in Evented, c.name # "Open", UNCHANGED events,
           NEW q, NEW left, Stands(q, left), NEW q1 \in 1..Len(events), NEW left1,
           events[q1].type = c.name, events[q1].handle = c.handle,
           c.name = "Ioctl" => events[q1].ioctl = c.what \/ ~events[q1].known,
           \/ q1 = q /\ left > 0 /\ left1 = left - 1
           \/ q1 = q + 1 /\ left = 0 /\ left1 = events[q1].count - 1
    PROVE  found' = q1 /\ Stands(q1, left1)'
<1>1. /\ dedupRemaining \in Nat /\ cursor \in 1..(Len(events) + 1) /\ Len(events) \in Nat
      /\ q \in Nat /\ q1 \in Nat /\ cursor <= q + 1 /\ dedupRemaining = left
  BY DEF EngineOK, Stands
<1>2. CASE q1 = q /\ left > 0 /\ left1 = left - 1
  <2>1. dedupIndex = q /\ cursor = q + 1
    BY <1>2 DEF Stands
  <2>2. InRun(c.name, c.handle)
    BY <1>1, <1>2, <2>1 DEF InRun
  <2>3. TakeRepeat
    <3>1. CASE c.name = "Ioctl"
      BY <2>2, <3>1, Asks DEF FindIoctl
    <3>2. CASE c.name # "Ioctl"
      BY <2>2, <3>2, Asks DEF FindNextMatch
    <3> QED
      BY <3>1, <3>2
  <2> QED
    BY <1>1, <1>2, <2>1, <2>3 DEF TakeRepeat, Stands
<1>3. CASE q1 = q + 1 /\ left = 0 /\ left1 = events[q1].count - 1
  <2>1. ~InRun(c.name, c.handle)
    BY <1>1, <1>3 DEF InRun
  <2>2. PICK C : /\ TakeNext(C) /\ C \subseteq Ahead(c.name, c.handle) /\ q1 \in C
    <3>1. q1 \in Ahead(c.name, c.handle)
      BY <1>1, <1>3 DEF Ahead
    <3>2. CASE c.name = "Ioctl"
      <4> DEFINE C == {i \in Ahead("Ioctl", c.handle) : events[i].ioctl = c.what \/ ~events[i].known}
      <4>1. TakeNext(C)
        BY <2>1, <3>2, Asks DEF FindIoctl
      <4>2. C \subseteq Ahead(c.name, c.handle) /\ q1 \in C
        BY <3>1, <3>2
      <4> HIDE DEF C
      <4> QED
        BY <4>1, <4>2
    <3>3. CASE c.name # "Ioctl"
      <4>1. TakeNext(Ahead(c.name, c.handle))
        BY <2>1, <3>3, Asks DEF FindNextMatch
      <4> QED
        BY <3>1, <4>1
    <3> QED
      BY <3>2, <3>3
  <2>3. ASSUME NEW i \in C
        PROVE  i \in cursor..Len(events) /\ q1 <= i
    <3>1. i \in cursor..Len(events) /\ events[i].type = c.name
      BY <2>2 DEF Ahead
    <3>2. i \notin cursor..q
      BY <3>1 DEF Stands
    <3> QED
      BY <1>1, <1>3, <3>1, <3>2
  <2>4. /\ found' = q1 /\ cursor' = q1 + 1 /\ dedupRemaining' = events[q1].count - 1
        /\ dedupRemaining' > 0 => dedupIndex' = q1
    BY <2>2, <2>3, FirstTaken
  <2>5. \A e \in cursor'..q1 : FALSE
    BY <1>1, <2>4
  <2> QED
    BY <1>1, <1>3, <2>4, <2>5 DEF Stands
<1> QED
  BY <1>2, <1>3

LEMMA MissedCall ==
    ASSUME EngineOK, NEW c, Recorded(c), Answer(c), c.name = "Open" \/ c.name \notin Evented,
           UNCHANGED events, \A e \in 1..Len(events) : events[e].type = "Open" => events[e].handle # 0,
           NEW q, Stands(q, 0), NEW q1, q1 = q \/ (q1 = q + 1 /\ events[q1].type = "Open")
    PROVE  found' = 0 /\ Stands(q1, 0)'
<1>1. /\ cursor \in 1..(Len(events) + 1) /\ Len(events) \in Nat
      /\ q \in Nat /\ q1 \in Nat /\ cursor <= q + 1 /\ dedupRemaining = 0
  BY DEF EngineOK, Stands
<1>2. found' = 0 /\ cursor' = cursor /\ dedupRemaining' = 0
  <2>1. CASE c.name = "Open"
    <3>1. FindNextMatch("Open", 0)
      BY <2>1, Asks DEF Evented, Recorded
    <3>2. ~InRun("Open", 0)
      BY <1>1 DEF InRun
    <3>3. Ahead("Open", 0) = {}
      BY <1>1 DEF Ahead
    <3> QED
      BY <3>1, <3>2, <3>3 DEF FindNextMatch, TakeNext, EndRun
  <2>2. CASE c.name \notin Evented
    BY <1>1, <2>2, Asks DEF engine
  <2> QED
    BY <2>1, <2>2
<1>3. \A e \in cursor..q1 : events[e].type = "Open"
  BY <1>1 DEF Stands
<1> QED
  BY <1>1, <1>2, <1>3 DEF Stands

\* The entry answers the calls of its text: it has an event, and not of Open.
Answers(entry) == ParseEntry(entry) # <<>> /\ ParseEntry(entry)[1].type # "Open"

\* The engine after the first k calls of the session.
Walk(g, h, k) ==
  LET log == Structured(recording)
      j == Len(g[k])
  IN Stands(Len(h[j]), IF j > 0 /\ Answers(log[j]) THEN log[j].count - g[k][j].count ELSE 0)

\* The event that answers the call, 0 for none.
Expected(h, j, c) == IF c.name \in Evented /\ c.name # "Open" THEN Len(h[j]) ELSE 0

LEMMA CallsFit ==
    ASSUME recording \in Recordings, Replayable
    PROVE  /\ Len(recording) \in Nat /\ DOMAIN recording = 1..Len(recording)
           /\ \A i \in 1..Len(recording) : Fit(recording[i])
<1>1. Len(recording) \in Nat /\ DOMAIN recording = 1..Len(recording)
  BY RecordingsAssumption DEF IsSeq
<1>2. ASSUME NEW i \in 1..Len(recording)
      PROVE  Fit(recording[i])
  BY <1>1, RecordingsAssumption DEF Replayable, Fit
<1> QED
  BY <1>1, <1>2

\* The events of a session whose Open gave the id that the engine assumes.
LEMMA OpensMissed ==
    ASSUME recording \in Recordings, Replayable, events = ParseJsonFile(Structured(recording))
    PROVE  \A e \in 1..Len(events) : events[e].type = "Open" => events[e].handle # 0
<1>1. PICK g, h : Prepared(recording, g, h)
  BY Prepares
<1>2. PICK log : log = Structured(recording)
  OBVIOUS
<1>3. /\ log \in Logs(Texts(recording)) /\ Len(log) \in Nat /\ events \in Seq(EventsOf(log))
  <2>1. Len(recording) \in 0..Len(recording) /\ Len(log) \in 0..Len(log)
    BY <1>1, <1>2 DEF Prepared, LogBy, ParsedBy
  <2> QED
    BY <1>1, <1>2, <2>1 DEF Prepared, LogBy, ParsedBy
<1>4. ASSUME NEW e \in 1..Len(events), events[e].type = "Open"
      PROVE  events[e].handle # 0
  <2>1. events[e] \in EventsOf(log)
    <3> DEFINE T == EventsOf(log)
    <3> HIDE DEF T
    <3>1. events \in Seq(T)
      BY <1>3 DEF T
    <3>2. events[e] \in T
      BY <3>1, <1>4
    <3> QED
      BY <3>2 DEF T
  <2>2. PICK j \in 1..Len(log) : ParseEntry(log[j]) # <<>> /\ events[e] = ParseEntry(log[j])[1]
    BY <2>1 DEF EventsOf
  <2>3. log[j].text \in Texts(recording)
    BY <1>3, LogCounts
  <2>4. PICK i \in 1..Len(recording) : log[j].text = Text(recording[i])
    BY <2>3 DEF Texts
  <2>5. PICK c : c = recording[i]
    OBVIOUS
  <2>6. Fit(c)
    BY <2>5, CallsFit
  <2>7. PICK v : ParseEntry(log[j]) = <<v>> /\ Becomes(c, v)
    BY <2>2, <2>4, <2>5, <2>6, CallEvent
  <2>8. events[e] = v
    BY <2>2, <2>7
  <2>9. c.name = "Open" /\ events[e].handle = c.told.id
    BY <1>4, <2>7, <2>8 DEF Becomes
  <2>10. c.told.id = 1
    BY <2>5, <2>9, CallsFit DEF Replayable
  <2> QED
    BY <2>9, <2>10
<1> QED
  BY <1>4

LEMMA WalkStep ==
    ASSUME EngineOK, recording \in Recordings, Replayable,
           events = ParseJsonFile(Structured(recording)), NEW g, NEW h, Prepared(recording, g, h),
           NEW k \in 1..Len(recording), Walk(g, h, k - 1), Answer(recording[k]), UNCHANGED <<recording, events>>
    PROVE  /\ Walk(g, h, k)'
           /\ found' = Expected(h, Len(g[k]), recording[k])
           /\ found' # 0 => Becomes(recording[k], events[found'])
           /\ recording[k].name \in Evented /\ recording[k].name # "Open" => found' # 0
<1>1. PICK c, log, a, b : c = recording[k] /\ log = Structured(recording) /\ a = g[k - 1] /\ b = g[k]
  OBVIOUS
<1>2. PICK i, j : i = Len(b) /\ j = Len(a)
  OBVIOUS
<1>3. Fit(c) /\ Recorded(c) /\ Answer(c)
  BY <1>1, CallsFit DEF Fit
<1>4. /\ j \in Nat /\ i \in 1..Len(log) /\ log[i].text = Text(c)
      /\ b[i].count \in Nat \ {0} /\ log[i].count \in Nat \ {0} /\ b[i].count <= log[i].count
      /\ \/ i = j /\ a[j].count \in Nat /\ b[i].count = a[j].count + 1
         \/ i = j + 1 /\ b[i].count = 1 /\ (j > 0 => log[j].count = a[j].count)
  <2>1. Placed(log, Text(c), a, b)
    BY <1>1, CallPlaced DEF Prepared
  <2> QED
    BY <1>2, <2>1 DEF Placed
<1>5. ParsedBy(log, h) /\ Len(log) \in Nat /\ i \in 0..Len(log) /\ j \in 0..Len(log)
  <2>1. ParsedBy(log, h) /\ Len(log) \in Nat
    BY <1>1 DEF Prepared, ParsedBy
  <2> QED
    BY <1>4, <2>1
<1>6. PICK q, q1 : q = Len(h[j]) /\ q1 = Len(h[i])
  OBVIOUS
<1>7. /\ q \in Nat /\ q1 \in Nat /\ q1 <= Len(events)
      /\ ParseEntry(log[i]) = <<>> => q1 = Len(h[i - 1])
      /\ ParseEntry(log[i]) # <<>> => q1 = Len(h[i - 1]) + 1 /\ events[q1] = ParseEntry(log[i])[1]
      /\ Len(h[i - 1]) \in Nat
  <2>1. i - 1 \in 0..Len(log)
    BY <1>4, <1>5
  <2>2. Len(h[i]) \in Nat /\ Len(h[j]) \in Nat /\ Len(h[i - 1]) \in Nat /\ Len(h[i]) <= Len(ParseJsonFile(log))
    BY <1>5, <2>1, EventPlaced
  <2>3. ParseEntry(log[i]) = <<>> => Len(h[i]) = Len(h[i - 1])
    BY <1>4, <1>5, EventPlaced
  <2>4. ParseEntry(log[i]) # <<>> => /\ Len(h[i]) = Len(h[i - 1]) + 1
                                      /\ ParseJsonFile(log)[Len(h[i])] = ParseEntry(log[i])[1]
    BY <1>4, <1>5, EventPlaced
  <2>5. events = ParseJsonFile(log)
    BY <1>1
  <2> QED
    BY <1>6, <2>2, <2>3, <2>4, <2>5
<1>8. i = j => q1 = q
  BY <1>6
<1>9. i = j + 1 => q = Len(h[i - 1])
  BY <1>4, <1>6
<1>10. /\ c.name \in Evented => /\ ParseEntry(log[i]) = <<events[q1]>>
                                 /\ Becomes(c, events[q1]) /\ events[q1].count = log[i].count
                                 /\ q1 \in 1..Len(events)
       /\ c.name \notin Evented => ParseEntry(log[i]) = <<>>
  <2>1. ASSUME c.name \in Evented
        PROVE  /\ ParseEntry(log[i]) = <<events[q1]>> /\ Becomes(c, events[q1])
               /\ events[q1].count = log[i].count /\ q1 \in 1..Len(events)
    <3>1. PICK e : ParseEntry(log[i]) = <<e>> /\ Becomes(c, e)
      BY <1>3, <1>4, <2>1, CallEvent
    <3>2. e.count = log[i].count
      BY <3>1, EventCounted
    <3>3. events[q1] = e
      <4>1. ParseEntry(log[i]) # <<>> /\ ParseEntry(log[i])[1] = e
        BY <3>1
      <4> QED
        BY <1>7, <4>1
    <3>4. Len(events) \in Nat
      BY DEF EngineOK
    <3> QED
      BY <1>7, <3>1, <3>2, <3>3, <3>4
  <2> QED
    BY <1>3, <1>4, <2>1, CallEvent
<1>11. c.name \in Evented => events[q1].type = c.name
  BY <1>10 DEF Becomes
<1>12. Answers(log[i]) <=> c.name \in Evented /\ c.name # "Open"
  BY <1>10, <1>11 DEF Answers
<1>13. PICK left, left1 :
         /\ left = IF j > 0 /\ Answers(log[j]) THEN log[j].count - a[j].count ELSE 0
         /\ left1 = IF i > 0 /\ Answers(log[i]) THEN log[i].count - b[i].count ELSE 0
  OBVIOUS
<1>14. Stands(q, left)
  BY <1>1, <1>2, <1>6, <1>13 DEF Walk
<1>15. i = j + 1 => left = 0
  <2>1. dedupRemaining = left /\ dedupRemaining \in Nat
    BY <1>14 DEF Stands, EngineOK
  <2>2. ASSUME i = j + 1, j > 0, Answers(log[j])
        PROVE  left = 0
    <3>1. left = log[j].count - a[j].count /\ log[j].count = a[j].count
      BY <1>4, <1>13, <2>2
    <3>2. log[j].count \in Nat
      <4>1. Extends(a, log) /\ Len(a) = j
        <5>1. k - 1 \in 0..Len(recording)
          BY DEF Prepared, LogBy
        <5> QED
          BY <1>1, <1>2, <5>1, LogExtends DEF Prepared
      <4> QED
        BY <2>2, <4>1 DEF Extends
    <3> QED
      BY <3>1, <3>2
  <2> QED
    BY <1>13, <2>2
<1>16. UNCHANGED events
  OBVIOUS
<1>17. CASE c.name \in Evented /\ c.name # "Open"
  <2>1. Answers(log[i]) /\ i > 0
    BY <1>4, <1>12, <1>17
  <2>2. left1 = log[i].count - b[i].count
    BY <1>13, <2>1
  <2>3. \/ q1 = q /\ left > 0 /\ left1 = left - 1
        \/ q1 = q + 1 /\ left = 0 /\ left1 = events[q1].count - 1
    <3>1. CASE i = j /\ a[j].count \in Nat /\ b[i].count = a[j].count + 1
      <4>1. left = log[i].count - a[j].count
        BY <1>13, <2>1, <3>1
      <4> QED
        BY <1>4, <1>8, <2>2, <3>1, <4>1
    <3>2. CASE i = j + 1 /\ b[i].count = 1
      <4>1. q1 = q + 1
        BY <1>7, <1>9, <2>1, <3>2 DEF Answers
      <4>2. left1 = events[q1].count - 1
        BY <1>10, <1>17, <2>2, <3>2
      <4> QED
        BY <1>15, <3>2, <4>1, <4>2
    <3> QED
      BY <1>4, <3>1, <3>2
  <2>4. /\ events[q1].type = c.name /\ events[q1].handle = c.handle
        /\ c.name = "Ioctl" => events[q1].ioctl = c.what \/ ~events[q1].known
        /\ q1 \in 1..Len(events)
    BY <1>10, <1>17 DEF Becomes
  <2>5. found' = q1 /\ Stands(q1, left1)'
    BY <1>3, <1>14, <1>16, <1>17, <2>3, <2>4, AnsweredCall
  <2>6. Walk(g, h, k)'
    BY <1>1, <1>2, <1>6, <1>13, <2>5 DEF Walk
  <2>7. Expected(h, Len(g[k]), recording[k]) = q1
    BY <1>1, <1>2, <1>6, <1>17 DEF Expected
  <2> QED
    BY <1>1, <1>10, <1>17, <2>4, <2>5, <2>6, <2>7
<1>18. CASE c.name = "Open" \/ c.name \notin Evented
  <2>1. ~Answers(log[i])
    BY <1>12, <1>18
  <2>2. left1 = 0
    BY <1>13, <2>1
  <2>3. left = 0
    <3>1. CASE i = j
      BY <1>13, <2>1, <3>1
    <3> QED
      BY <1>4, <1>15, <3>1
  <2>4. q1 = q \/ (q1 = q + 1 /\ events[q1].type = "Open")
    <3>1. CASE c.name = "Open"
      <4>1. c.name \in Evented
        BY <3>1 DEF Evented
      <4>2. events[q1].type = "Open"
        BY <1>11, <3>1, <4>1
      <4>3. PICK e : ParseEntry(log[i]) = <<e>>
        BY <1>10, <4>1
      <4>4. ParseEntry(log[i]) # <<>>
        BY <4>3
      <4> QED
        BY <1>4, <1>7, <1>8, <1>9, <4>2, <4>4
    <3>2. CASE c.name \notin Evented
      BY <1>4, <1>7, <1>8, <1>9, <1>10, <3>2
    <3> QED
      BY <1>18, <3>1, <3>2
  <2>5. found' = 0 /\ Stands(q1, 0)'
    BY <1>3, <1>14, <1>16, <1>18, <2>3, <2>4, MissedCall, OpensMissed
  <2>6. Walk(g, h, k)'
    BY <1>1, <1>2, <1>6, <1>13, <2>2, <2>5 DEF Walk
  <2>7. Expected(h, Len(g[k]), recording[k]) = 0
    BY <1>1, <1>18 DEF Expected
  <2> QED
    BY <1>1, <1>18, <2>5, <2>6, <2>7
<1> QED
  BY <1>17, <1>18

-----------------------------------------------------------------------------
\* The answers

Reply(code, id, count, msgs, value, versions) ==
  [code |-> code, id |-> id, count |-> count, msgs |-> msgs, value |-> value, versions |-> versions]

LEMMA Replies ==
    ASSUME NEW x, NEW n
    PROVE  /\ Default = Reply("STATUS_NOERROR", 0, 0, <<>>, Unwritten, <<>>)
           /\ [Default EXCEPT !.id = n] = Reply("STATUS_NOERROR", n, 0, <<>>, Unwritten, <<>>)
           /\ [Default EXCEPT !.code = x] = Reply(x, 0, 0, <<>>, Unwritten, <<>>)
           /\ [Default EXCEPT !.code = x, !.id = n] = Reply(x, n, 0, <<>>, Unwritten, <<>>)
           /\ [Default EXCEPT !.code = x, !.count = n] = Reply(x, 0, n, <<>>, Unwritten, <<>>)
           /\ [Default EXCEPT !.code = x, !.value = n] = Reply(x, 0, 0, <<>>, n, <<>>)
           /\ [Default EXCEPT !.code = x, !.versions = n] = Reply(x, 0, 0, <<>>, Unwritten, n)
<1>1. Default = Reply("STATUS_NOERROR", 0, 0, <<>>, Unwritten, <<>>)
  BY DEF Default, Reply
<1>2. PICK r, u : r = Default /\ u = [r EXCEPT !.code = x]
  OBVIOUS
<1>3. u = Reply(x, 0, 0, <<>>, Unwritten, <<>>)
  BY <1>1, <1>2 DEF Reply
<1>4. [r EXCEPT !.code = x, !.id = n] = [u EXCEPT !.id = n]
  BY <1>2
<1>5. [r EXCEPT !.code = x, !.count = n] = [u EXCEPT !.count = n]
  BY <1>2
<1>6. [r EXCEPT !.code = x, !.value = n] = [u EXCEPT !.value = n]
  BY <1>2
<1>7. [r EXCEPT !.code = x, !.versions = n] = [u EXCEPT !.versions = n]
  BY <1>2
<1>8. [u EXCEPT !.id = n] = Reply(x, n, 0, <<>>, Unwritten, <<>>)
  BY <1>3 DEF Reply
<1>9. [u EXCEPT !.count = n] = Reply(x, 0, n, <<>>, Unwritten, <<>>)
  BY <1>3 DEF Reply
<1>10. [u EXCEPT !.value = n] = Reply(x, 0, 0, <<>>, n, <<>>)
  BY <1>3 DEF Reply
<1>11. [u EXCEPT !.versions = n] = Reply(x, 0, 0, <<>>, Unwritten, n)
  BY <1>3 DEF Reply
<1>12. [r EXCEPT !.id = n] = Reply("STATUS_NOERROR", n, 0, <<>>, Unwritten, <<>>)
  BY <1>1, <1>2 DEF Reply
<1> QED
  BY <1>1, <1>2, <1>3, <1>4, <1>5, <1>6, <1>7, <1>8, <1>9, <1>10, <1>11, <1>12

LEMMA ReplyOfMsgs ==
    ASSUME NEW x, NEW n, NEW m
    PROVE  [Default EXCEPT !.code = x, !.count = n, !.msgs = m] = Reply(x, 0, n, m, Unwritten, <<>>)
<1>1. PICK r, v : r = Default /\ v = [r EXCEPT !.code = x, !.count = n]
  OBVIOUS
<1>2. [r EXCEPT !.code = x, !.count = n, !.msgs = m] = [v EXCEPT !.msgs = m]
  BY <1>1
<1>3. v = Reply(x, 0, n, <<>>, Unwritten, <<>>)
  BY <1>1, Replies
<1>4. [v EXCEPT !.msgs = m] = Reply(x, 0, n, m, Unwritten, <<>>)
  BY <1>3 DEF Reply
<1> QED
  BY <1>1, <1>2, <1>4

Parsing(msgs) == [i \in DOMAIN msgs |-> ParseSingleMessage(MsgText(msgs[i]))]

LEMMA NothingToParse == Parsing(<<>>) = <<>>
<1>1. DOMAIN <<>> = {} /\ DOMAIN Parsing(<<>>) = {}
  BY DEF Parsing
<1>2. Parsing(<<>>) \in Seq({})
  BY <1>1 DEF Parsing
<1> QED
  BY <1>1, <1>2

LEMMA RoundedReply ==
    ASSUME NEW c, Recorded(c)
    PROVE  LET O == Outputs(c.name)
           IN Rounded(c) =
                Reply(c.told.code,
                      IF "id" \in O THEN c.told.id ELSE 0,
                      IF "count" \in O THEN c.told.count ELSE 0,
                      IF c.name = "ReadMsgs" THEN Parsing(c.told.msgs) ELSE <<>>,
                      Overwritten(c),
                      IF "versions" \in O THEN c.told.versions ELSE <<>>)
<1> DEFINE O == Outputs(c.name)
<1>1. PICK t, id, count, msgs, value, versions :
        /\ t = c.told
        /\ id = IF "id" \in O THEN t.id ELSE 0
        /\ count = IF "count" \in O THEN t.count ELSE 0
        /\ msgs = IF "msgs" \in O THEN t.msgs ELSE <<>>
        /\ value = IF "value" \in O THEN t.value ELSE Unwritten
        /\ versions = IF "versions" \in O THEN t.versions ELSE <<>>
  OBVIOUS
<1>2. t = Reply(t.code, id, count, msgs, value, versions)
  BY <1>1, ToldFields DEF Reply
<1>3. PICK m, w : m = (IF c.name = "Ioctl" THEN <<>> ELSE Parsing(t.msgs)) /\ w = Overwritten(c)
  OBVIOUS
<1>4. Rounded(c) = [t EXCEPT !.msgs = m, !.value = w]
  BY <1>1, <1>3 DEF Rounded, Parsing
<1>5. \A x, v : [Reply(x, id, count, msgs, value, versions) EXCEPT !.msgs = m, !.value = v]
                  = Reply(x, id, count, m, v, versions)
  <2> TAKE x, v
  <2>1. PICK u : u = [Reply(x, id, count, msgs, value, versions) EXCEPT !.msgs = m]
    OBVIOUS
  <2>2. u = Reply(x, id, count, m, value, versions)
    BY <2>1 DEF Reply
  <2>3. [u EXCEPT !.value = v] = Reply(x, id, count, m, v, versions)
    BY <2>2 DEF Reply
  <2> QED
    BY <2>1, <2>3
<1>6. Rounded(c) = Reply(t.code, id, count, m, w, versions)
  BY <1>2, <1>4, <1>5
<1>7. t.msgs = msgs
  BY <1>2 DEF Reply
<1>8. m = IF c.name = "ReadMsgs" THEN Parsing(t.msgs) ELSE <<>>
  <2>1. "msgs" \in O => c.name \in {"ReadMsgs", "Ioctl"}
    BY DEF Outputs
  <2>2. CASE c.name \in {"ReadMsgs", "Ioctl"}
    BY <1>3, <2>2
  <2>3. CASE c.name \notin {"ReadMsgs", "Ioctl"}
    <3>1. t.msgs = <<>>
      BY <1>1, <1>7, <2>1, <2>3
    <3> QED
      BY <1>3, <2>3, <3>1, NothingToParse
  <2> QED
    BY <2>2, <2>3
<1> HIDE DEF O
<1>9. Rounded(c) = Reply(c.told.code,
                      IF "id" \in O THEN c.told.id ELSE 0,
                      IF "count" \in O THEN c.told.count ELSE 0,
                      IF c.name = "ReadMsgs" THEN Parsing(c.told.msgs) ELSE <<>>,
                      Overwritten(c),
                      IF "versions" \in O THEN c.told.versions ELSE <<>>)
  BY <1>1, <1>3, <1>6, <1>8
<1> QED
  BY <1>9 DEF O

\* What is asked of a call is answered as it was recorded.
LEMMA FaithfulAnswer ==
    ASSUME EngineOK, NEW c, Fit(c), Recorded(c), Keeps(c), Answer(c),
           c.name = "Open" => c.told.id = 1 /\ c.told.code = "STATUS_NOERROR",
           c.name = "Open" \/ c.name \notin Evented => found' = 0,
           c.name \in Evented /\ c.name # "Open" => found' # 0 /\ Becomes(c, events[found'])
    PROVE  answer' = Rounded(c)
<1>1. PICK e, t : e = events[found'] /\ t = c.told
  OBVIOUS
<1>2. LookupError(t.code) = t.code
  BY <1>1 DEF Keeps, LookupError
<1>3. c.name \in Evented /\ c.name # "Open" => Becomes(c, e) /\ e.code = t.code /\ ~(found' = 0)
  BY <1>1, <1>2 DEF Becomes
<1>4. Rounded(c) = Reply(t.code,
                      IF "id" \in Outputs(c.name) THEN t.id ELSE 0,
                      IF "count" \in Outputs(c.name) THEN t.count ELSE 0,
                      IF c.name = "ReadMsgs" THEN Parsing(t.msgs) ELSE <<>>,
                      IF c.name = "Ioctl" THEN Overwritten(c) ELSE Unwritten,
                      IF "versions" \in Outputs(c.name) THEN t.versions ELSE <<>>)
  <2>1. c.name # "Ioctl" => Overwritten(c) = Unwritten
    BY DEF Recorded, Overwritten
  <2> QED
    BY <1>1, <2>1, RoundedReply
<1>5. CASE c.name = "Open" /\ OpenDevice
  <2>1. answer' = [Default EXCEPT !.id = 1]
    BY <1>5 DEF OpenDevice, Missed
  <2>2. answer' = Reply("STATUS_NOERROR", 1, 0, <<>>, Unwritten, <<>>)
    BY <2>1, Replies
  <2>3. Rounded(c) = Reply(t.code, t.id, 0, <<>>, Unwritten, <<>>)
    BY <1>4, <1>5 DEF Outputs
  <2> QED
    BY <1>1, <1>5, <2>2, <2>3
<1>6. CASE c.name \in {"Close", "Disconnect", "StopMsgFilter"} /\ End(c.name, c.handle)
  <2>1. c.name \in Evented /\ c.name # "Open"
    BY <1>6 DEF Evented
  <2>2. answer' = [Default EXCEPT !.code = e.code]
    BY <1>1, <1>3, <1>6, <2>1 DEF End, Missed, Event
  <2>3. answer' = Reply(t.code, 0, 0, <<>>, Unwritten, <<>>)
    BY <1>3, <2>1, <2>2, Replies
  <2>4. Rounded(c) = Reply(t.code, 0, 0, <<>>, Unwritten, <<>>)
    BY <1>4, <1>6 DEF Outputs
  <2> QED
    BY <1>1, <2>3, <2>4
<1>7. CASE c.name = "Connect" /\ ConnectChannel(c.handle)
  <2>1. c.name \in Evented /\ c.name # "Open"
    BY <1>7 DEF Evented
  <2>2. answer' = [Default EXCEPT !.code = e.code, !.id = e.id]
    BY <1>1, <1>3, <1>7, <2>1 DEF ConnectChannel, Missed, Event
  <2>3. e.id = t.id
    BY <1>1, <1>3, <1>7, <2>1 DEF Becomes
  <2>4. answer' = Reply(t.code, t.id, 0, <<>>, Unwritten, <<>>)
    <3>1. answer' = [Default EXCEPT !.code = t.code, !.id = t.id]
      BY <1>3, <2>1, <2>2, <2>3
    <3> QED
      BY <3>1, Replies
  <2>5. Rounded(c) = Reply(t.code, t.id, 0, <<>>, Unwritten, <<>>)
    BY <1>4, <1>7 DEF Outputs
  <2> QED
    BY <1>1, <2>4, <2>5
<1>8. CASE c.name = "ReadMsgs" /\ ReadMsgs(c.handle)
  <2>1. c.name \in Evented /\ c.name # "Open"
    BY <1>8 DEF Evented
  <2>2. answer' = [Default EXCEPT !.code = e.code, !.count = e.out,
                     !.msgs = SubSeq(e.msgs, 1, IF e.out < Len(e.msgs) THEN e.out ELSE Len(e.msgs))]
    BY <1>1, <1>3, <1>8, <2>1 DEF ReadMsgs, Missed, Event
  <2>3. e.out = t.count /\ e.msgs = [i \in 1..Len(t.msgs) |-> ParseSingleMessage(MsgText(t.msgs[i]))]
    BY <1>1, <1>3, <1>8, <2>1 DEF Becomes
  <2>4. t.count = Len(t.msgs) /\ Len(t.msgs) \in Nat /\ DOMAIN t.msgs = 1..Len(t.msgs)
    BY <1>1, <1>8 DEF Recorded, IsSeq
  <2>5. PICK m, n : m = e.msgs /\ n = Len(t.msgs)
    OBVIOUS
  <2>6. m = Parsing(t.msgs)
    BY <2>3, <2>4, <2>5 DEF Parsing
  <2>7. m \in Seq({m[i] : i \in 1..n}) /\ Len(m) = n /\ n \in Nat
    <3> DEFINE M == {m[i] : i \in 1..n}
    <3>1. n \in Nat /\ DOMAIN m = 1..n /\ m = [i \in 1..n |-> m[i]] /\ \A i \in 1..n : m[i] \in M
      BY <2>3, <2>4, <2>5
    <3> HIDE DEF M
    <3>2. m \in Seq(M) /\ Len(m) = n
      BY <3>1
    <3> QED
      BY <3>1, <3>2 DEF M
  <2>8. SubSeq(m, 1, n) = m
    <3> DEFINE M == {m[i] : i \in 1..n}
    <3> HIDE DEF M
    <3>1. m \in Seq(M) /\ Len(m) = n /\ n \in Nat
      BY <2>7 DEF M
    <3> QED
      BY <3>1
  <2>9. answer' = [Default EXCEPT !.code = e.code, !.count = n, !.msgs = m]
    BY <2>2, <2>3, <2>4, <2>5, <2>7, <2>8
  <2>10. answer' = Reply(t.code, 0, n, m, Unwritten, <<>>)
    <3>1. PICK x : x = t.code
      OBVIOUS
    <3>2. answer' = [Default EXCEPT !.code = x, !.count = n, !.msgs = m]
      BY <1>3, <2>1, <2>9, <3>1
    <3>3. [Default EXCEPT !.code = x, !.count = n, !.msgs = m] = Reply(x, 0, n, m, Unwritten, <<>>)
      BY ReplyOfMsgs
    <3> QED
      BY <3>1, <3>2, <3>3
  <2>11. Rounded(c) = Reply(t.code, 0, t.count, Parsing(t.msgs), Unwritten, <<>>)
    BY <1>4, <1>8 DEF Outputs
  <2> QED
    BY <1>1, <2>4, <2>5, <2>6, <2>10, <2>11
<1>9. CASE c.name = "WriteMsgs" /\ WriteMsgs(c.handle, c.told.count)
  <2>1. c.name \in Evented /\ c.name # "Open"
    BY <1>9 DEF Evented
  <2>2. answer' = [Default EXCEPT !.code = e.code, !.count = e.out]
    BY <1>1, <1>3, <1>9, <2>1 DEF WriteMsgs, Missed, Event
  <2>3. e.out = t.count
    BY <1>1, <1>3, <1>9, <2>1 DEF Becomes
  <2>4. answer' = Reply(t.code, 0, t.count, <<>>, Unwritten, <<>>)
    <3>1. answer' = [Default EXCEPT !.code = t.code, !.count = t.count]
      BY <1>3, <2>1, <2>2, <2>3
    <3> QED
      BY <3>1, Replies
  <2>5. Rounded(c) = Reply(t.code, 0, t.count, <<>>, Unwritten, <<>>)
    BY <1>4, <1>9 DEF Outputs
  <2> QED
    BY <1>1, <2>4, <2>5
<1>10. CASE c.name = "Ioctl" /\ Ioctl(c.handle, c.what, c.address # 0)
  <2>1. c.name \in Evented /\ c.name # "Open"
    BY <1>10 DEF Evented
  <2>2. answer' = [Default EXCEPT !.code = e.code,
                     !.value = IF c.address # 0 /\ e.hasOutput THEN e.output ELSE Unwritten]
    BY <1>1, <1>3, <1>10, <2>1 DEF Ioctl, Missed, Event
  <2>3. (IF c.address # 0 /\ e.hasOutput THEN e.output ELSE Unwritten) = Overwritten(c)
    <3>1. c.address # 0 => (IF e.hasOutput THEN e.output ELSE Unwritten) = Overwritten(c)
      BY <1>1, <1>3, <1>10, <2>1 DEF Becomes
    <3>2. c.address = 0 => Overwritten(c) = Unwritten
      BY DEF Overwritten
    <3> QED
      BY <3>1, <3>2
  <2>4. answer' = Reply(t.code, 0, 0, <<>>, Overwritten(c), <<>>)
    <3>1. PICK w : w = Overwritten(c)
      OBVIOUS
    <3>2. answer' = [Default EXCEPT !.code = t.code, !.value = w]
      BY <1>3, <2>1, <2>2, <2>3, <3>1
    <3> QED
      BY <3>1, <3>2, Replies
  <2>5. Rounded(c) = Reply(t.code, 0, 0, <<>>, Overwritten(c), <<>>)
    BY <1>4, <1>10 DEF Outputs
  <2> QED
    BY <1>1, <2>4, <2>5
<1>11. CASE c.name = "StartMsgFilter" /\ StartMsgFilter(c.handle)
  <2>1. c.name \in Evented /\ c.name # "Open"
    BY <1>11 DEF Evented
  <2>2. answer' = [Default EXCEPT !.code = e.code, !.id = e.id]
    BY <1>1, <1>3, <1>11, <2>1 DEF StartMsgFilter, Missed, Event
  <2>3. e.id = t.id
    BY <1>1, <1>3, <1>11, <2>1 DEF Becomes, Keeps
  <2>4. answer' = Reply(t.code, t.id, 0, <<>>, Unwritten, <<>>)
    <3>1. answer' = [Default EXCEPT !.code = t.code, !.id = t.id]
      BY <1>3, <2>1, <2>2, <2>3
    <3> QED
      BY <3>1, Replies
  <2>5. Rounded(c) = Reply(t.code, t.id, 0, <<>>, Unwritten, <<>>)
    BY <1>4, <1>11 DEF Outputs
  <2> QED
    BY <1>1, <2>4, <2>5
<1>12. CASE c.name = "ReadVersion"
             /\ ReadVersion(c.handle, [i \in 1..3 |-> c.told.versions[i] # ""])
  <2>1. c.name \in Evented /\ c.name # "Open"
    BY <1>12 DEF Evented
  <2>2. \A i \in 1..3 : t.versions[i] \notin {"", "NULL"}
    BY <1>1, <1>12 DEF Keeps
  <2>3. e.versions = t.versions /\ t.versions = [i \in 1..3 |-> t.versions[i]]
    BY <1>1, <1>3, <1>12, <2>1, <2>2 DEF Becomes, Recorded
  <2>4. PICK wanted : wanted = [i \in 1..3 |-> t.versions[i] # ""]
    OBVIOUS
  <2>5. \A i \in 1..3 : wanted[i]
    BY <2>2, <2>4
  <2>6. ReadVersion(c.handle, wanted)
    BY <1>1, <1>12, <2>4
  <2> DEFINE defaults == <<"0.0.0", "1.0.0", "04.04">>
             version(i) == CASE ~wanted[i] -> ""
                             [] wanted[i] /\ ~Missed /\ Event.versions[i] # "" -> Event.versions[i]
                             [] wanted[i] /\ ~Missed /\ Event.versions[i] = ""
                                  /\ InRun("ReadVersion", c.handle) -> ""
                             [] OTHER -> defaults[i]
  <2>7. ASSUME NEW i \in 1..3
        PROVE  version(i) = t.versions[i]
    BY <1>1, <1>3, <2>1, <2>2, <2>3, <2>5 DEF Missed, Event
  <2>8. answer' = [Default EXCEPT !.code = IF Missed THEN @ ELSE Event.code,
                     !.versions = [i \in 1..3 |-> version(i)]]
    BY <2>6 DEF ReadVersion
  <2> HIDE DEF version
  <2>9. [i \in 1..3 |-> version(i)] = t.versions
    BY <2>3, <2>7
  <2>10. answer' = [Default EXCEPT !.code = e.code, !.versions = t.versions]
    BY <1>1, <1>3, <2>1, <2>8, <2>9 DEF Missed, Event
  <2>11. answer' = Reply(t.code, 0, 0, <<>>, Unwritten, t.versions)
    <3>1. answer' = [Default EXCEPT !.code = t.code, !.versions = t.versions]
      BY <1>3, <2>1, <2>10
    <3> QED
      BY <3>1, Replies
  <2>12. Rounded(c) = Reply(t.code, 0, 0, <<>>, Unwritten, t.versions)
    BY <1>4, <1>12 DEF Outputs
  <2> QED
    BY <1>1, <2>11, <2>12
<1>13. CASE c.name = "StopPeriodicMsg" /\ answer' = Default
  <2>1. t.code = "STATUS_NOERROR"
    BY <1>1, <1>13 DEF Keeps
  <2>2. Rounded(c) = Reply(t.code, 0, 0, <<>>, Unwritten, <<>>)
    BY <1>4, <1>13 DEF Outputs
  <2> QED
    BY <1>1, <1>13, <2>1, <2>2, Replies
<1> QED
  BY <1>5, <1>6, <1>7, <1>8, <1>9, <1>10, <1>11, <1>12, <1>13 DEF Answer

-----------------------------------------------------------------------------
\* The session repeated as it was recorded

Walked == \E g, h : Prepared(recording, g, h) /\ Walk(g, h, repeated)

(* The inductive invariant of the repetition: the engine stands where the  *)
(* calls made so far have brought it, and its last answer was the recorded *)
(* one.                                                                    *)
FaithInv ==
  /\ OrderInv /\ events = ParseJsonFile(Structured(recording))
  /\ repeated \in -1..Len(recording)
  /\ repeated >= 0 /\ Replayable => Walked
  /\ ReplayFaithful

LEMMA FaithInit == Init => FaithInv
<1> SUFFICES ASSUME Init PROVE FaithInv
  OBVIOUS
<1>1. OrderInv
  BY OrderInit
<1>2. recording \in Recordings /\ repeated = 0 /\ events = ParseJsonFile(Structured(recording))
  BY DEF Init
<1>3. Len(recording) \in Nat
  BY <1>2, RecordingsAssumption DEF IsSeq
<1>4. Walked
  <2>1. PICK g, h : Prepared(recording, g, h)
    BY <1>2, Prepares
  <2>2. PICK g0, h0 : g0 = g[0] /\ h0 = h[0]
    OBVIOUS
  <2>3. g0 = <<>> /\ h0 = <<>>
    BY <2>1, <2>2 DEF Prepared, LogBy, ParsedBy
  <2>4. Len(g[0]) = 0 /\ Len(h[0]) = 0
    BY <2>2, <2>3
  <2>5. Stands(0, 0)
    BY DEF Init, Stands
  <2>6. Walk(g, h, 0)
    BY <2>4, <2>5 DEF Walk
  <2> QED
    BY <1>2, <2>1, <2>6 DEF Walked
<1>5. ReplayFaithful
  BY <1>2 DEF ReplayFaithful
<1> QED
  BY <1>1, <1>2, <1>3, <1>4, <1>5 DEF FaithInv

LEMMA FaithStep == FaithInv /\ [Next]_vars => FaithInv'
<1> SUFFICES ASSUME FaithInv, [Next]_vars PROVE FaithInv'
  OBVIOUS
<1>1. OrderInv'
  BY OrderStep DEF FaithInv
<1>2. CASE UNCHANGED vars
  <2>1. /\ UNCHANGED <<recording, events, repeated, answer>>
        /\ UNCHANGED <<cursor, dedupIndex, dedupRemaining>>
    BY <1>2 DEF vars, engine
  <2>2. ASSUME (repeated >= 0 /\ Replayable)'
        PROVE  Walked'
    <3>1. PICK g, h : Prepared(recording, g, h) /\ Walk(g, h, repeated)
      BY <2>1, <2>2 DEF FaithInv, Replayable, Walked
    <3>2. Walk(g, h, repeated)'
      BY <2>1, <3>1 DEF Walk, Stands
    <3> QED
      BY <2>1, <3>1, <3>2 DEF Walked
  <2>3. ReplayFaithful'
    BY <2>1 DEF FaithInv, ReplayFaithful, Replayable
  <2> QED
    BY <1>1, <2>1, <2>2, <2>3 DEF FaithInv
<1>3. ASSUME NEW i \in DOMAIN recording, ClientCalls(i)
      PROVE  FaithInv'
  <2>1. /\ Answer(recording[i]) /\ repeated' = IF i = repeated + 1 THEN i ELSE -1
        /\ UNCHANGED <<recording, events>>
    BY <1>3 DEF ClientCalls
  <2>2. recording \in Recordings /\ Len(recording) \in Nat /\ i \in 1..Len(recording)
    BY RecordingsAssumption DEF FaithInv, OrderInv, IsSeq
  <2>3. (events = ParseJsonFile(Structured(recording)))' /\ (repeated \in -1..Len(recording))'
    BY <2>1, <2>2 DEF FaithInv
  <2>4. CASE i # repeated + 1
    BY <1>1, <2>1, <2>3, <2>4 DEF FaithInv, ReplayFaithful
  <2>5. CASE i = repeated + 1
    <3>1. repeated >= 0 /\ repeated' = i /\ repeated = i - 1 /\ repeated \in Int
      BY <2>1, <2>2, <2>5 DEF FaithInv
    <3>2. ASSUME Replayable
          PROVE  /\ Walked'
                 /\ Keeps(recording[i]) => answer' = Rounded(recording[i])
      <4>1. PICK g, h : Prepared(recording, g, h) /\ Walk(g, h, i - 1)
        BY <3>1, <3>2 DEF FaithInv, Walked
      <4>2. EngineOK /\ events = ParseJsonFile(Structured(recording))
        BY DEF FaithInv, OrderInv
      <4>3. /\ Walk(g, h, i)' /\ found' = Expected(h, Len(g[i]), recording[i])
            /\ found' # 0 => Becomes(recording[i], events[found'])
            /\ recording[i].name \in Evented /\ recording[i].name # "Open" => found' # 0
        BY <2>1, <2>2, <3>2, <4>1, <4>2, WalkStep
      <4>4. Walked'
        BY <2>1, <3>1, <4>1, <4>3 DEF Walked
      <4>5. PICK c : c = recording[i]
        OBVIOUS
      <4>6. Fit(c) /\ Recorded(c) /\ Answer(c)
        BY <2>1, <2>2, <3>2, <4>5, CallsFit DEF Fit
      <4>7. c.name = "Open" => c.told.id = 1 /\ c.told.code = "STATUS_NOERROR"
        BY <3>2, <4>5 DEF Replayable
      <4>8. c.name = "Open" \/ c.name \notin Evented => found' = 0
        BY <4>3, <4>5 DEF Expected
      <4>9. c.name \in Evented /\ c.name # "Open" => found' # 0 /\ Becomes(c, events[found'])
        BY <4>3, <4>5
      <4> QED
        BY <4>2, <4>4, <4>5, <4>6, <4>7, <4>8, <4>9, FaithfulAnswer
    <3>3. ReplayFaithful'
      BY <2>1, <3>1, <3>2 DEF ReplayFaithful, Replayable
    <3>4. (repeated >= 0 /\ Replayable => Walked)'
      BY <2>1, <3>1, <3>2 DEF Replayable
    <3> QED
      BY <1>1, <2>3, <3>3, <3>4 DEF FaithInv
  <2> QED
    BY <2>4, <2>5
<1> QED
  BY <1>2, <1>3 DEF Next

(* A client that repeats the recorded session is answered as the recorded  *)
(* client was, whatever was recorded and however long: the log, the parser *)
(* and the engine together lose nothing but what Keeps and Rounded name.   *)
THEOREM RepliesFaithful == Spec => []ReplayFaithful
<1>1. FaithInv => ReplayFaithful
  BY DEF FaithInv
<1> QED
  BY <1>1, FaithInit, FaithStep, PTL DEF Spec
=============================================================================
