-------------------------- MODULE ElmSessionProofs --------------------------
(***************************************************************************)
(* What the session remembers of the adapter, proved for any addresses,    *)
(* faults and number of writes.                                            *)
(*                                                                         *)
(* Types: TypeOK, with the types of all the fields.                        *)
(* NoStaleFilter (of an obedient adapter): commands are obeyed in order,   *)
(* so what counts is the filter in force at each place of the pipe.  While *)
(* the link is up, the one at its end is the one the session believes in,  *)
(* or "accept all", and if it is another than that, craSet says so.        *)
(* AddressedUntilLost (of a mannered adapter): until a call gives up, at   *)
(* most one command is out, the current one; so the adapter's headers are  *)
(* those of the commands that were passed, unless it was reset since, and  *)
(* then the exchange of that command fails.                                *)
(***************************************************************************)
EXTENDS ElmSession, SequenceTheorems, TLAPS

----------------------------------------------------------------------------
\* Types

Outcome == Kinds \cup {"silence"}
StepSet == [op : Commands, id : Nat, required : BOOLEAN]
CommandSet == [op : Commands, id : Nat, req : Nat, resp : Nat]
AnswerSet == [kind : Kinds, n : Nat]
Memory == [addressed : BOOLEAN, req : Nat, resp : Nat, craSet : BOOLEAN]
Chips == [hdr : Nat, fch : Nat, cra : Nat]
Calls == [phase : Phases, why : Reasons, todo : Seq(StepSet),
          ex : {"ready", "waiting"} \cup Outcome, attempt : 0..Retries,
          n : Nat, req : Nat, resp : Nat, open : BOOLEAN, lost : BOOLEAN]

\* What the list of a phase may hold.
AddressingOps == {"ATSH", "ATCRA", "ATFCSH", "ATFCSD", "ATFCSM1"}
Suits(e, c) ==
    /\ c.op \in AddressingOps <=> e.phase = "address"
    /\ c.op = "REQ" <=> e.phase = "request"
    /\ c.op = "ATWS" <=> e.phase = "warm"
    /\ e.phase = "protocol" => c.op = "ATSP6"
    /\ c.op = "ATRV" <=> e.phase = "volt"
    /\ c.op = "ATCRA" => c.id = Target(e)[2]
    /\ c.op \in {"ATSH", "ATFCSH"} => c.id = Target(e)[1]
    /\ c.op \in {"ATFCSH", "ATFCSD", "ATRV"} => c.required
Fits(e) == \A k \in 1..Len(e.todo) : Suits(e, e.todo[k])

Typed ==
    /\ s \in Memory /\ d \in Calls /\ chip \in Chips
    /\ link \in {"closed", "up", "down"}
    /\ pipe \in Seq(CommandSet) /\ air \in Seq(AnswerSet)
    /\ d.phase = "idle" <=> d.todo = <<>>
    /\ d.phase = "idle" => d.ex = "ready"
    /\ link # "up" => pipe = <<>> /\ air = <<>>
    /\ Fits(d)

\* What the session remembers is right about the call in progress.
Remembers ==
    /\ d.phase = "request" => s.addressed /\ s.req = d.req /\ s.resp = d.resp
    /\ d.phase \in {"reset", "setup", "protocol", "address"} => ~s.addressed

\* The steps of the list that are not yet sent.
Unsent == (IF d.ex = "ready" THEN 1 ELSE 2)..Len(d.todo)

----------------------------------------------------------------------------
\* The filter

Setters == {"ATZ", "ATWS", "ATCRA"}
Sets(c) == IF c.op = "ATCRA" THEN c.id ELSE 0

\* The filter is r; after the first i of the commands p it is one of V.
Within(p, r, i, V) ==
    /\ \A j \in 1..i : (p[j].op \in Setters /\ \A k \in (j + 1)..i : p[k].op \notin Setters)
                          => Sets(p[j]) \in V
    /\ (\A k \in 1..i : p[k].op \notin Setters) => r \in V
EndsIn(p, r, l, V) == l = "up" => Within(p, r, Len(p), V)
Ends(V) == EndsIn(pipe, chip.cra, link, V)

Resetting == d.phase = "reset" /\ d.ex = "ready" /\ Head(d.todo).op = "ATZ"

FilterKnown ==
    /\ s.addressed => Ends({0, s.resp})
    /\ s.craSet \/ Resetting \/ Ends({0})
    /\ d.phase = "address" =>
         /\ Target(d)[2] # 0 => s.craSet
         /\ Ends({0, Target(d)[2]}) \/ \E k \in Unsent : d.todo[k].op = "ATCRA"
    /\ d.phase = "warm" /\ d.ex # "ready" => Ends({0})
    /\ d.phase \in {"close", "protocol"} => Ends({0, d.resp})
RequestsFiltered ==
    \A i \in 1..Len(pipe) : pipe[i].op = "REQ" => Within(pipe, chip.cra, i - 1, {0, pipe[i].resp})

FilterInv == Typed /\ Remembers /\ FilterKnown /\ RequestsFiltered /\ NoStaleFilter

----------------------------------------------------------------------------
\* The headers

\* The adapter's answer to a command.
MayAnswer(op, kind) ==
    op # "REQ" => \/ kind = "ok"
                  \/ kind = "?" /\ op \in Rejects
                  \/ kind = "lv" /\ <<"lvreset", op>> \in Faults

\* One command is out at most, the current one; only the last exchange before
\* the port closes may find older ones.
Current == [op |-> Head(d.todo).op, id |-> Head(d.todo).id, req |-> d.req, resp |-> d.resp]
InStep ==
    /\ d.phase # "sleep" =>
         /\ d.ex \notin {"waiting", "silence"} => pipe = <<>> /\ air = <<>>
         /\ d.ex \in {"waiting", "silence"} =>
              \/ air = <<>> /\ (pipe = <<>> \/ pipe = <<Current>>)
              \/ pipe = <<>> /\ Len(air) = 1 /\ MayAnswer(Head(d.todo).op, air[1].kind)
         /\ d.ex \in Kinds => MayAnswer(Head(d.todo).op, d.ex)
    /\ d.phase = "sleep" => \A i \in 1..Len(pipe) : pipe[i].op # "REQ"
    /\ d.phase = "request" /\ d.ex = "silence" => pipe = <<>> /\ air = <<>>

\* The adapter has not been reset since the exchange began.
Alive ==
    \/ d.ex \notin {"waiting", "silence", "lv"}
    \/ d.ex = "waiting" /\ pipe # <<>>
    \/ d.ex = "waiting" /\ air # <<>> /\ air[1].kind # "lv"
Executed(op) ==
    \A k \in 1..Len(d.todo) : d.todo[k].op = op =>
        k = 1 /\ (d.ex = "ok" \/ (d.ex = "waiting" /\ air # <<>> /\ air[1].kind = "ok"))

HeadersKnown ==
    Alive /\ link = "up" =>
        /\ d.phase \in {"idle", "request", "volt"} /\ s.addressed
             => chip.hdr = s.req /\ chip.fch = s.req
        /\ d.phase = "address" =>
             /\ Executed("ATSH") => chip.hdr = Target(d)[1]
             /\ Executed("ATFCSH") => chip.fch = Target(d)[1]

HeaderInv ==
    /\ Typed /\ Remembers
    /\ ~d.lost => InStep /\ HeadersKnown
    /\ AddressedUntilLost

----------------------------------------------------------------------------
\* The plans

LEMMA StepType ==
  ASSUME NEW op \in Commands, NEW id \in Nat, NEW required \in BOOLEAN
  PROVE  /\ Step(op, id, required) \in StepSet
         /\ Step(op, id, required).op = op /\ Step(op, id, required).id = id
         /\ Step(op, id, required).required = required
BY DEF Step, StepSet

\* The addressing block, with the receive filter in its middle or without it.
IsBlock(plan, a, filter, b, c, e, f) ==
    plan = <<a>> \o filter \o <<c, e, f>> /\ (filter = <<b>> \/ filter = <<>>)

LEMMA AddressingPlan ==
  ASSUME NEW a \in StepSet, NEW b \in StepSet, NEW c \in StepSet, NEW e \in StepSet,
         NEW f \in StepSet, NEW filter, NEW plan, IsBlock(plan, a, filter, b, c, e, f)
  PROVE  /\ plan \in Seq(StepSet) /\ Len(plan) >= 4
         /\ plan[1] = a
         /\ \E i \in 1..Len(plan) : plan[i] = c
         /\ filter = <<b>> => plan[2] = b
         /\ \A i \in 1..Len(plan) : plan[i] \in {a, b, c, e, f}
<1>4. plan = <<a>> \o filter \o <<c, e, f>>
  BY DEF IsBlock
<1>5. <<a>> \in Seq(StepSet) /\ filter \in Seq(StepSet) /\ <<c, e, f>> \in Seq(StepSet)
  <2>1. CASE filter = <<b>>
    BY <2>1
  <2>2. CASE filter = <<>>
    BY <2>2
  <2> QED
    BY <2>1, <2>2 DEF IsBlock
<1>6. PICK front : front = <<a>> \o filter
  OBVIOUS
<1>7. /\ front \in Seq(StepSet) /\ Len(front) = 1 + Len(filter)
      /\ \A i \in 1..Len(front) : front[i] = IF i = 1 THEN a ELSE filter[i - 1]
  <2>1. Len(<<a>>) = 1 /\ <<a>>[1] = a /\ Len(filter) \in Nat
    BY <1>5
  <2>2. front \in Seq(StepSet) /\ Len(front) = 1 + Len(filter)
    BY <1>5, <1>6, <2>1
  <2>3. \A i \in 1..Len(front) : front[i] = IF i <= Len(<<a>>) THEN <<a>>[i]
                                            ELSE filter[i - Len(<<a>>)]
    BY <1>5, <1>6, <2>2, ConcatProperties
  <2> QED
    BY <2>1, <2>2, <2>3
<1>8. /\ plan \in Seq(StepSet) /\ Len(plan) = Len(front) + 3
      /\ \A i \in 1..Len(plan) : plan[i] = IF i <= Len(front) THEN front[i]
                                           ELSE <<c, e, f>>[i - Len(front)]
  BY <1>4, <1>5, <1>6, <1>7
<1>9. CASE filter = <<b>>
  <2>1. Len(filter) = 1 /\ filter[1] = b
    BY <1>9
  <2>2. Len(front) = 2 /\ Len(plan) = 5 /\ front[1] = a /\ front[2] = b
    BY <1>7, <1>8, <2>1
  <2>3. plan[1] = a /\ plan[2] = b /\ plan[3] = c /\ plan[4] = e /\ plan[5] = f
    BY <1>8, <2>2
  <2>4. \A i \in 1..Len(plan) : plan[i] \in {a, b, c, e, f}
    BY <2>2, <2>3
  <2>5. 3 \in 1..Len(plan)
    BY <2>2
  <2> QED
    BY <1>8, <2>2, <2>3, <2>4, <2>5
<1>10. CASE filter = <<>>
  <2>1. Len(filter) = 0
    BY <1>10
  <2>2. Len(front) = 1 /\ Len(plan) = 4 /\ front[1] = a
    BY <1>7, <1>8, <2>1
  <2>3. plan[1] = a /\ plan[2] = c /\ plan[3] = e /\ plan[4] = f
    BY <1>8, <2>2
  <2>4. \A i \in 1..Len(plan) : plan[i] \in {a, b, c, e, f}
    BY <2>2, <2>3
  <2>5. 2 \in 1..Len(plan)
    BY <2>2
  <2> QED
    BY <1>8, <1>10, <2>2, <2>3, <2>4, <2>5
<1> QED
  BY <1>9, <1>10 DEF IsBlock

LEMMA TargetType ==
  ASSUME NEW e \in Calls PROVE Target(e)[1] \in Nat /\ Target(e)[2] \in Nat
BY SessionAssumption DEF Target, Calls

\* What a plan holds, for a call f whose phase it is.
LEMMA PlanFacts ==
  ASSUME NEW phase \in Phases \ {"idle"}, NEW e \in Calls, NEW m \in Memory,
         NEW plan \in Plans(phase, e, m),
         NEW f, f.phase = phase, Target(f) = Target(e)
  PROVE  /\ plan \in Seq(StepSet) /\ Len(plan) > 0
         /\ \A k \in 1..Len(plan) : Suits(f, plan[k])
         /\ phase = "reset" => Head(plan).op = "ATZ"
         /\ phase = "address" =>
              /\ \E k \in 1..Len(plan) : plan[k].op = "ATSH"
              /\ \E k \in 1..Len(plan) : plan[k].op = "ATFCSH"
              /\ (Target(e)[2] = 0 /\ ~m.craSet) \/ \E k \in 1..Len(plan) : plan[k].op = "ATCRA"
<1>1. CASE phase = "reset"
  <2>1. PICK a, b : a = Step("ATZ", 0, FALSE) /\ b = Step("ATI", 0, FALSE)
    OBVIOUS
  <2>2. a \in StepSet /\ b \in StepSet /\ a.op = "ATZ" /\ b.op = "ATI"
    BY <2>1 DEF Step, StepSet, Commands
  <2>3. PICK p : p \in {<<>>, <<b>>, <<b, b>>} /\ plan = <<a>> \o p
    BY <1>1, <2>1 DEF Plans, Probes
  <2>4. p \in Seq(StepSet) /\ <<a>> \in Seq(StepSet) /\ \A i \in 1..Len(p) : p[i] = b
    <3>1. CASE p = <<>>
      BY <2>2, <3>1
    <3>2. CASE p = <<b>>
      BY <2>2, <3>2
    <3>3. CASE p = <<b, b>>
      BY <2>2, <3>3
    <3> QED
      BY <2>3, <3>1, <3>2, <3>3
  <2>5. /\ plan \in Seq(StepSet) /\ Len(plan) > 0 /\ plan[1] = a
        /\ \A i \in 1..Len(plan) : plan[i] \in {a, b}
    BY <2>3, <2>4
  <2> QED
    BY <1>1, <2>2, <2>5 DEF Suits, AddressingOps
<1>2. CASE phase = "setup"
  <2>0. PICK a, b, c, e1, f1, g, h, j :
          /\ a = Step("ATE0", 0, TRUE) /\ b = Step("ATL0", 0, FALSE) /\ c = Step("ATS0", 0, FALSE)
          /\ e1 = Step("ATH1", 0, TRUE) /\ f1 = Step("ATCAF1", 0, TRUE)
          /\ g = Step("ATSP6", 0, TRUE) /\ h = Step("ATAT1", 0, FALSE) /\ j = Step("ATST32", 0, FALSE)
    OBVIOUS
  <2>1. /\ plan = <<a, b, c, e1, f1, g, h, j>>
        /\ a \in StepSet /\ b \in StepSet /\ c \in StepSet /\ e1 \in StepSet
        /\ f1 \in StepSet /\ g \in StepSet /\ h \in StepSet /\ j \in StepSet
        /\ \A x \in {a, b, c, e1, f1, g, h, j} :
             x.op \in {"ATE0", "ATL0", "ATS0", "ATH1", "ATCAF1", "ATSP6", "ATAT1", "ATST32"}
    <3>1. plan = <<a, b, c, e1, f1, g, h, j>>
      BY <1>2, <2>0 DEF Plans, InitSequence
    <3>2. /\ a \in StepSet /\ b \in StepSet /\ c \in StepSet /\ e1 \in StepSet
          /\ f1 \in StepSet /\ g \in StepSet /\ h \in StepSet /\ j \in StepSet
      BY <2>0 DEF Step, StepSet, Commands
    <3>3. \A x \in {a, b, c, e1, f1, g, h, j} :
             x.op \in {"ATE0", "ATL0", "ATS0", "ATH1", "ATCAF1", "ATSP6", "ATAT1", "ATST32"}
      BY <2>0 DEF Step
    <3> QED
      BY <3>1, <3>2, <3>3
  <2>2. plan \in Seq(StepSet) /\ Len(plan) = 8
    BY <2>1
  <2>3. \A k \in 1..Len(plan) : plan[k] \in {a, b, c, e1, f1, g, h, j}
    BY <2>1
  <2> QED
    BY <1>2, <2>1, <2>2, <2>3 DEF Suits, AddressingOps
<1>3. CASE phase = "address"
  <2>1. PICK req, resp : req = Target(e)[1] /\ resp = Target(e)[2]
    OBVIOUS
  <2>2. plan = AddressingSequence(req, resp, m.craSet) /\ m.craSet \in BOOLEAN
        /\ req \in Nat /\ resp \in Nat
    BY <1>3, <2>1, TargetType DEF Plans, Memory
  <2>3. PICK a, b, c, e1, g : /\ a = Step("ATSH", req, FALSE) /\ b = Step("ATCRA", resp, FALSE)
                              /\ c = Step("ATFCSH", req, TRUE) /\ e1 = Step("ATFCSD", 0, TRUE)
                              /\ g = Step("ATFCSM1", 0, FALSE)
    OBVIOUS
  <2>4. a \in StepSet /\ b \in StepSet /\ c \in StepSet /\ e1 \in StepSet /\ g \in StepSet
    BY <2>2, <2>3 DEF Step, StepSet, Commands
  <2>10. /\ plan \in Seq(StepSet) /\ Len(plan) >= 4
         /\ plan[1] = a
         /\ \E i \in 1..Len(plan) : plan[i] = c
         /\ resp # 0 \/ m.craSet => plan[2] = b
         /\ \A i \in 1..Len(plan) : plan[i] \in {a, b, c, e1, g}
    <3>1. PICK filter : filter = IF resp # 0 \/ m.craSet THEN <<b>> ELSE <<>>
      OBVIOUS
    <3>2. IsBlock(plan, a, filter, b, c, e1, g)
      BY <2>2, <2>3, <3>1 DEF AddressingSequence, FilterSteps, IsBlock
    <3>3. /\ plan \in Seq(StepSet) /\ Len(plan) >= 4
          /\ plan[1] = a
          /\ \E i \in 1..Len(plan) : plan[i] = c
          /\ filter = <<b>> => plan[2] = b
          /\ \A i \in 1..Len(plan) : plan[i] \in {a, b, c, e1, g}
      BY <2>4, <3>2, AddressingPlan
    <3> QED
      BY <3>1, <3>3
  <2>5. /\ a.op = "ATSH" /\ a.id = req /\ b.op = "ATCRA" /\ b.id = resp
        /\ c.op = "ATFCSH" /\ c.id = req /\ c.required
        /\ e1.op = "ATFCSD" /\ e1.required /\ g.op = "ATFCSM1"
    BY <2>3 DEF Step
  <2>6. \A x \in {a, b, c, e1, g} : Suits(f, x)
    BY <1>3, <2>1, <2>5 DEF Suits, AddressingOps
  <2>7. \A i \in 1..Len(plan) : Suits(f, plan[i])
    BY <2>6, <2>10
  <2>8. 1 \in 1..Len(plan) /\ 2 \in 1..Len(plan) /\ Len(plan) > 0
    BY <2>10
  <2>9. /\ \E k \in 1..Len(plan) : plan[k].op = "ATSH"
        /\ \E k \in 1..Len(plan) : plan[k].op = "ATFCSH"
        /\ (resp = 0 /\ ~m.craSet) \/ \E k \in 1..Len(plan) : plan[k].op = "ATCRA"
    BY <2>5, <2>8, <2>10
  <2> QED
    BY <1>3, <2>1, <2>7, <2>8, <2>9, <2>10
<1>4. CASE phase \in {"close", "protocol", "warm", "request", "volt", "sleep"}
  <2>1. PICK c : /\ plan = <<c>> /\ c \in StepSet
                 /\ phase = "close" => c.op = "ATPC"
                 /\ phase = "protocol" => c.op = "ATSP6"
                 /\ phase = "warm" => c.op = "ATWS"
                 /\ phase = "request" => c.op = "REQ"
                 /\ phase = "volt" => c.op = "ATRV" /\ c.required
                 /\ phase = "sleep" => c.op = "ATLP"
    <3>0. e.n \in Nat
      BY DEF Calls
    <3>1. CASE phase = "close"
      BY <3>1 DEF Plans, Step, StepSet, Commands
    <3>2. CASE phase = "protocol"
      BY <3>2 DEF Plans, Step, StepSet, Commands
    <3>3. CASE phase = "warm"
      BY <3>3 DEF Plans, Step, StepSet, Commands
    <3>4. CASE phase = "request"
      <4>1. PICK c : c = Step("REQ", e.n, FALSE)
        OBVIOUS
      <4>2. c \in StepSet /\ c.op = "REQ"
        BY <3>0, <4>1 DEF Step, StepSet, Commands
      <4>3. plan = <<c>>
        BY <3>4, <4>1 DEF Plans
      <4> QED
        BY <3>4, <4>2, <4>3
    <3>5. CASE phase = "volt"
      BY <3>5 DEF Plans, Step, StepSet, Commands
    <3>6. CASE phase = "sleep"
      <4>1. PICK c : c = Step("ATLP", 0, FALSE)
        OBVIOUS
      <4>2. c \in StepSet /\ c.op = "ATLP"
        BY <4>1 DEF Step, StepSet, Commands
      <4>3. plan = <<c>>
        BY <3>6, <4>1 DEF Plans
      <4> QED
        BY <3>6, <4>2, <4>3
    <3> QED
      BY <1>4, <3>1, <3>2, <3>3, <3>4, <3>5, <3>6, Zenon
  <2>2. plan \in Seq(StepSet) /\ Len(plan) = 1 /\ plan[1] = c
    BY <2>1
  <2> QED
    BY <1>4, <2>1, <2>2 DEF Suits, AddressingOps
<1> QED
  BY <1>1, <1>2, <1>3, <1>4 DEF Phases

----------------------------------------------------------------------------
\* Calls

LEMMA NotedFacts ==
  ASSUME NEW phase \in Phases, NEW e \in Calls, NEW m \in Memory
  PROVE  /\ Noted(phase, e, m) \in Memory
         /\ phase = "reset" => Noted(phase, e, m) = Forgot
         /\ phase = "address" =>
              /\ ~Noted(phase, e, m).addressed
              /\ Noted(phase, e, m).craSet = (m.craSet \/ Target(e)[2] # 0)
         /\ phase \notin {"reset", "address"} => Noted(phase, e, m) = m
<1>1. Forgot \in Memory
  BY DEF Forgot, Memory
<1>2. \A b \in BOOLEAN : LET q == [m EXCEPT !.addressed = FALSE, !.craSet = b]
                         IN q \in Memory /\ ~q.addressed /\ q.craSet = b
  BY DEF Memory
<1>3. m.craSet \in BOOLEAN
  BY DEF Memory
<1> QED
  BY <1>1, <1>2, <1>3 DEF Noted

\* A phase begins: the call is where it was, at the head of the phase's plan.
SameCall(e) ==
    /\ d'.why = e.why /\ d'.attempt = e.attempt /\ d'.n = e.n /\ d'.req = e.req
    /\ d'.resp = e.resp /\ d'.open = e.open /\ d'.lost = e.lost
Planned(phase, e, m) ==
    /\ phase = "reset" => Head(d'.todo).op = "ATZ"
    /\ phase = "address" =>
         /\ \E k \in 1..Len(d'.todo) : d'.todo[k].op = "ATSH"
         /\ \E k \in 1..Len(d'.todo) : d'.todo[k].op = "ATFCSH"
         /\ (Target(e)[2] = 0 /\ ~m.craSet) \/ \E k \in 1..Len(d'.todo) : d'.todo[k].op = "ATCRA"
Began(phase, e, m) ==
    /\ d' \in Calls /\ d'.phase = phase /\ d'.ex = "ready" /\ d'.todo # <<>>
    /\ SameCall(e) /\ Target(d') = Target(e) /\ Fits(d') /\ Planned(phase, e, m)
    /\ s' = Noted(phase, e, m) /\ s' \in Memory

LEMMA BeginFacts ==
  ASSUME NEW phase \in Phases \ {"idle"}, NEW e \in Calls, NEW m \in Memory, Begin(phase, e, m)
  PROVE  Began(phase, e, m)
<1>1. PICK plan \in Plans(phase, e, m) :
        d' = [e EXCEPT !.phase = phase, !.todo = plan, !.ex = "ready"] /\ s' = Noted(phase, e, m)
  BY DEF Begin
<1>2. /\ d' = [phase |-> phase, why |-> e.why, todo |-> plan, ex |-> "ready", attempt |-> e.attempt,
               n |-> e.n, req |-> e.req, resp |-> e.resp, open |-> e.open, lost |-> e.lost]
  BY <1>1 DEF Calls
<1>3. Target(d') = Target(e)
  BY <1>2 DEF Target
<1>4. d'.phase = phase
  BY <1>2
<1>5. /\ plan \in Seq(StepSet) /\ Len(plan) > 0
      /\ \A k \in 1..Len(plan) : Suits(d', plan[k])
      /\ phase = "reset" => Head(plan).op = "ATZ"
      /\ phase = "address" =>
           /\ \E k \in 1..Len(plan) : plan[k].op = "ATSH"
           /\ \E k \in 1..Len(plan) : plan[k].op = "ATFCSH"
           /\ (Target(e)[2] = 0 /\ ~m.craSet) \/ \E k \in 1..Len(plan) : plan[k].op = "ATCRA"
  BY <1>3, <1>4, PlanFacts
<1>6. d'.todo = plan /\ d'.ex = "ready" /\ d'.todo # <<>>
  BY <1>2, <1>5
<1>7. d' \in Calls
  BY <1>2, <1>5 DEF Calls
<1>8. SameCall(e)
  BY <1>2 DEF SameCall
<1>9. Fits(d') /\ Planned(phase, e, m)
  BY <1>5, <1>6 DEF Fits, Planned
<1>10. s' \in Memory
  BY <1>1, NotedFacts
<1> QED
  BY <1>1, <1>3, <1>4, <1>6, <1>7, <1>8, <1>9, <1>10 DEF Began

\* A call ends.
Ended(e, m, ok) ==
    /\ d' \in Calls /\ d'.phase = "idle" /\ d'.ex = "ready" /\ d'.todo = <<>>
    /\ d'.open = e.open /\ d'.n = e.n /\ d'.lost = (e.lost \/ ~ok) /\ Fits(d')
    /\ s' = m

LEMMA EndFacts ==
  ASSUME NEW e \in Calls, NEW m \in Memory, NEW ok \in BOOLEAN, End(e, m, ok)
  PROVE  Ended(e, m, ok)
<1>1. d' = [phase |-> "idle", why |-> "none", todo |-> <<>>, ex |-> "ready", attempt |-> 0,
            n |-> e.n, req |-> 0, resp |-> 0, open |-> e.open, lost |-> (e.lost \/ ~ok)]
  BY DEF End, Idle
<1>2. e.n \in Nat /\ e.open \in BOOLEAN /\ (e.lost \/ ~ok) \in BOOLEAN
  BY DEF Calls
<1>3. <<>> \in Seq(StepSet) /\ Len(<<>>) = 0
  OBVIOUS
<1>4. d' \in Calls
  BY <1>1, <1>2, <1>3 DEF Calls, Phases, Reasons, Retries
<1>5. Fits(d')
  BY <1>1, <1>3 DEF Fits
<1>6. s' = m
  BY DEF End
<1> QED
  BY <1>1, <1>4, <1>5, <1>6 DEF Ended

\* A write asks the adapter, or addresses it first.
LEMMA SetTargetFacts ==
  ASSUME NEW e \in Calls, NEW m \in Memory, SetTarget(e, m)
  PROVE  \E f \in Calls :
           /\ f.why = "write" /\ f.attempt = e.attempt /\ f.n = e.n /\ f.req = e.req
           /\ f.resp = e.resp /\ f.open = e.open /\ f.lost = e.lost
           /\ \/ Began("request", f, m) /\ m.addressed /\ m.req = f.req /\ m.resp = f.resp
              \/ Began("address", f, m)
<1>1. PICK f : f = [e EXCEPT !.why = "write"]
  OBVIOUS
<1>2. f = [phase |-> e.phase, why |-> "write", todo |-> e.todo, ex |-> e.ex, attempt |-> e.attempt,
           n |-> e.n, req |-> e.req, resp |-> e.resp, open |-> e.open, lost |-> e.lost]
  BY <1>1 DEF Calls
<1>3. f \in Calls
  BY <1>2 DEF Calls, Reasons
<1>4. \/ m.addressed /\ m.req = f.req /\ m.resp = f.resp /\ Begin("request", f, m)
      \/ Begin("address", f, m)
  BY <1>1 DEF SetTarget
<1>5. "request" \in Phases \ {"idle"} /\ "address" \in Phases \ {"idle"}
  BY DEF Phases
<1>6. \/ Began("request", f, m) /\ m.addressed /\ m.req = f.req /\ m.resp = f.resp
      \/ Began("address", f, m)
  BY <1>3, <1>4, <1>5, BeginFacts
<1> QED
  BY <1>2, <1>3, <1>6

LEMMA MemoryFacts ==
  ASSUME NEW phase \in Phases, NEW e \in Calls, NEW m \in Memory
  PROVE  /\ Forgot \in Memory /\ Doubted(phase, m) \in Memory /\ Learnt(phase, e, m) \in Memory
         /\ Doubted(phase, m).craSet = m.craSet /\ Doubted(phase, m).resp = m.resp
         /\ Doubted(phase, m).req = m.req
         /\ Doubted(phase, m).addressed = (m.addressed /\ phase \notin {"setup", "address"})
         /\ phase = "address" =>
              /\ Learnt(phase, e, m).addressed
              /\ Learnt(phase, e, m).req = Target(e)[1] /\ Learnt(phase, e, m).resp = Target(e)[2]
              /\ Learnt(phase, e, m).craSet = (m.craSet /\ Target(e)[2] # 0)
         /\ phase \in {"close", "warm"} => ~Learnt(phase, e, m).addressed
         /\ phase = "close" => Learnt(phase, e, m).craSet = m.craSet
         /\ phase \in {"protocol", "warm"} => ~Learnt(phase, e, m).craSet
         /\ phase = "protocol" =>
              /\ Learnt(phase, e, m).addressed = m.addressed /\ Learnt(phase, e, m).resp = m.resp
         /\ phase \notin {"address", "close", "protocol", "warm"} => Learnt(phase, e, m) = m
<1>1. Forgot \in Memory
  BY DEF Forgot, Memory
<1>2. m = [addressed |-> m.addressed, req |-> m.req, resp |-> m.resp, craSet |-> m.craSet]
      /\ m.addressed \in BOOLEAN /\ m.req \in Nat /\ m.resp \in Nat /\ m.craSet \in BOOLEAN
  BY DEF Memory
<1>3. LET q == [m EXCEPT !.addressed = FALSE]
      IN q \in Memory /\ ~q.addressed /\ q.req = m.req /\ q.resp = m.resp /\ q.craSet = m.craSet
  BY DEF Memory
<1>4. LET q == [m EXCEPT !.craSet = FALSE]
      IN q \in Memory /\ ~q.craSet /\ q.addressed = m.addressed /\ q.resp = m.resp
  BY DEF Memory
<1>5. LET q == [m EXCEPT !.addressed = FALSE, !.craSet = FALSE]
      IN q \in Memory /\ ~q.craSet /\ ~q.addressed
  BY DEF Memory
<1>6. LET q == [addressed |-> TRUE, req |-> Target(e)[1], resp |-> Target(e)[2],
                craSet |-> m.craSet /\ Target(e)[2] # 0]
      IN q \in Memory /\ q.addressed /\ q.req = Target(e)[1] /\ q.resp = Target(e)[2]
         /\ q.craSet = (m.craSet /\ Target(e)[2] # 0)
  <2>1. (m.craSet /\ Target(e)[2] # 0) \in BOOLEAN
    OBVIOUS
  <2> QED
    BY <2>1, TargetType DEF Memory
<1>7. /\ Doubted(phase, m) \in Memory
      /\ Doubted(phase, m).craSet = m.craSet /\ Doubted(phase, m).resp = m.resp
      /\ Doubted(phase, m).req = m.req
      /\ Doubted(phase, m).addressed = (m.addressed /\ phase \notin {"setup", "address"})
  BY <1>2, <1>3 DEF Doubted
<1>8. CASE phase = "address"
  BY <1>1, <1>6, <1>7, <1>8 DEF Learnt
<1>9. CASE phase = "close"
  BY <1>1, <1>3, <1>7, <1>9 DEF Learnt
<1>10. CASE phase = "protocol"
  BY <1>1, <1>4, <1>7, <1>10 DEF Learnt
<1>11. CASE phase = "warm"
  BY <1>1, <1>5, <1>7, <1>11 DEF Learnt
<1>12. CASE phase \notin {"address", "close", "protocol", "warm"}
  BY <1>1, <1>7, <1>12 DEF Learnt
<1> QED
  BY <1>8, <1>9, <1>10, <1>11, <1>12

----------------------------------------------------------------------------
\* What the actions make of the call and of the session's memory

LEMMA CallFields ==
  ASSUME NEW e \in Calls
  PROVE  /\ e = [phase |-> e.phase, why |-> e.why, todo |-> e.todo, ex |-> e.ex,
                 attempt |-> e.attempt, n |-> e.n, req |-> e.req, resp |-> e.resp,
                 open |-> e.open, lost |-> e.lost]
         /\ e.phase \in Phases /\ e.why \in Reasons /\ e.todo \in Seq(StepSet)
         /\ e.ex \in {"ready", "waiting"} \cup Outcome /\ e.attempt \in 0..Retries
         /\ e.n \in Nat /\ e.req \in Nat /\ e.resp \in Nat /\ e.open \in BOOLEAN
         /\ e.lost \in BOOLEAN
BY DEF Calls

LEMMA WhyChanged ==
  ASSUME NEW e \in Calls, NEW why \in Reasons
  PROVE  LET f == [e EXCEPT !.why = why]
         IN f \in Calls /\ f.why = why /\ f.lost = e.lost /\ f.open = e.open
            /\ f.req = e.req /\ f.resp = e.resp /\ f.attempt = e.attempt
BY CallFields DEF Calls

\* A call begins to address its target or finds it addressed.
Targets(m) ==
    \E f \in Calls :
       /\ f.why = "write" /\ f.lost = d.lost
       /\ \/ Began("request", f, m) /\ m.addressed /\ m.req = f.req /\ m.resp = f.resp
          \/ Began("address", f, m)

LEMMA OpenMoves ==
  ASSUME d \in Calls, OpenDevice
  PROVE  \/ LinkUp /\ \E e \in Calls : ~e.lost /\ Began("reset", e, Forgot)
         \/ LinkClosed /\ UNCHANGED <<s, d>>
<1>1. CASE LinkUp /\ Begin("reset", [d EXCEPT !.why = "open", !.lost = FALSE], Forgot)
  <2>1. PICK e : e = [d EXCEPT !.why = "open", !.lost = FALSE]
    OBVIOUS
  <2>2. e \in Calls /\ ~e.lost
    BY <2>1, CallFields DEF Calls, Reasons
  <2>3. Forgot \in Memory /\ "reset" \in Phases \ {"idle"}
    BY DEF Forgot, Memory, Phases
  <2>4. Began("reset", e, Forgot)
    BY <1>1, <2>1, <2>2, <2>3, BeginFacts
  <2> QED
    BY <1>1, <2>2, <2>4
<1> QED
  BY <1>1 DEF OpenDevice

LEMMA IdleMoves ==
  ASSUME d \in Calls, s \in Memory, CloseDevice \/ ReadVoltage \/ \E req, resp \in Nat : Write(req, resp)
  PROVE  /\ d.phase = "idle" /\ LinkKept
         /\ \/ \E e \in Calls : e.lost = d.lost /\ (Began("sleep", e, s) \/ Began("volt", e, s))
            \/ Targets(s)
<1>0. "sleep" \in Phases \ {"idle"} /\ "volt" \in Phases \ {"idle"}
      /\ "close" \in Reasons /\ "volt" \in Reasons
  BY DEF Phases, Reasons
<1>1. CASE CloseDevice
  <2>1. PICK e : e = [d EXCEPT !.why = "close"]
    OBVIOUS
  <2>2. e \in Calls /\ e.lost = d.lost
    BY <1>0, <2>1, WhyChanged
  <2>3. Began("sleep", e, s)
    BY <1>0, <1>1, <2>1, <2>2, BeginFacts DEF CloseDevice
  <2> QED
    BY <1>1, <2>2, <2>3 DEF CloseDevice
<1>2. CASE ReadVoltage
  <2>1. PICK e : e = [d EXCEPT !.why = "volt"]
    OBVIOUS
  <2>2. e \in Calls /\ e.lost = d.lost
    BY <1>0, <2>1, WhyChanged
  <2>3. Began("volt", e, s)
    BY <1>0, <1>2, <2>1, <2>2, BeginFacts DEF ReadVoltage
  <2> QED
    BY <1>2, <2>2, <2>3 DEF ReadVoltage
<1>3. ASSUME NEW req \in Nat, NEW resp \in Nat, Write(req, resp)
      PROVE  d.phase = "idle" /\ LinkKept /\ Targets(s)
  <2>1. PICK e : e = [d EXCEPT !.n = @ + 1, !.req = req, !.resp = resp, !.attempt = 0]
    OBVIOUS
  <2>2. e \in Calls /\ e.lost = d.lost
    <3>1. PICK e1 : e1 = [d EXCEPT !.n = @ + 1]
      OBVIOUS
    <3>2. e1 \in Calls /\ e1.lost = d.lost
      BY <3>1, CallFields DEF Calls
    <3>3. PICK e2 : e2 = [e1 EXCEPT !.req = req]
      OBVIOUS
    <3>4. e2 \in Calls /\ e2.lost = d.lost
      BY <3>2, <3>3 DEF Calls
    <3>5. PICK e3 : e3 = [e2 EXCEPT !.resp = resp]
      OBVIOUS
    <3>6. e3 \in Calls /\ e3.lost = d.lost
      BY <3>4, <3>5 DEF Calls
    <3>7. e = [e3 EXCEPT !.attempt = 0]
      BY <2>1, <3>1, <3>3, <3>5
    <3>8. 0 \in 0..Retries
      BY DEF Retries
    <3> QED
      BY <3>6, <3>7, <3>8 DEF Calls
  <2>3. SetTarget(e, s)
    BY <1>3, <2>1 DEF Write
  <2>4. Targets(s)
    BY <2>2, <2>3, SetTargetFacts DEF Targets
  <2> QED
    BY <1>3, <2>4 DEF Write
<1> QED
  BY <1>1, <1>2, <1>3

LEMMA DoneMoves ==
  ASSUME d \in Calls, s \in Memory, PhaseDone
  PROVE  /\ Steps /\ StepPasses /\ Len(d.todo) = 1 /\ LinkKept
         /\ d'.phase = "idle" \/ d'.resp = d.resp
         /\ LET m == Learnt(d.phase, d, s)
            IN \/ d.phase \in {"reset", "warm"} /\ Began("setup", d, m)
               \/ d.phase = "setup" /\ Began("address", d, m)
               \/ d.phase = "close" /\ Began("protocol", d, m)
               \/ d.phase = "address" /\ d.why = "write" /\ Began("request", d, m)
               \/ d.phase \in {"address", "volt"}
                    /\ \E e \in Calls : e.lost = d.lost /\ Ended(e, m, TRUE)
               \/ d.phase \in {"setup", "protocol", "address"} /\ Targets(m)
<1>0. Steps /\ StepPasses /\ Len(d.todo) = 1 /\ LinkKept
  BY DEF PhaseDone
<1>1. PICK m \in Memory : m = Learnt(d.phase, d, s)
  BY MemoryFacts, CallFields
<1>2. {"setup", "address", "protocol", "request"} \subseteq Phases \ {"idle"}
  BY DEF Phases
<1>3. CASE d.phase \in {"reset", "warm"}
  <2>1. Begin("setup", d, m)
    BY <1>1, <1>3 DEF PhaseDone
  <2>2. Began("setup", d, m)
    BY <1>2, <2>1, BeginFacts
  <2> QED
    BY <1>0, <1>1, <1>3, <2>2 DEF Began, SameCall
<1>4. CASE d.phase = "setup" /\ d.why # "warm"
  <2>1. Begin("address", d, m)
    BY <1>1, <1>4 DEF PhaseDone
  <2>2. Began("address", d, m)
    BY <1>2, <2>1, BeginFacts
  <2> QED
    BY <1>0, <1>1, <1>4, <2>2 DEF Began, SameCall
<1>5. CASE d.phase = "close"
  <2>1. Begin("protocol", d, m)
    BY <1>1, <1>5 DEF PhaseDone
  <2>2. Began("protocol", d, m)
    BY <1>2, <2>1, BeginFacts
  <2> QED
    BY <1>0, <1>1, <1>5, <2>2 DEF Began, SameCall
<1>6. CASE d.phase = "address" /\ d.why = "write"
  <2>1. Begin("request", d, m)
    BY <1>1, <1>6 DEF PhaseDone
  <2>2. Began("request", d, m)
    BY <1>2, <2>1, BeginFacts
  <2> QED
    BY <1>0, <1>1, <1>6, <2>2 DEF Began, SameCall
<1>7. CASE d.phase = "address" /\ d.why = "open"
  <2>1. PICK e : e = [d EXCEPT !.open = TRUE]
    OBVIOUS
  <2>2. e \in Calls /\ e.lost = d.lost
    BY <2>1, CallFields DEF Calls
  <2>3. End(e, m, TRUE)
    BY <1>1, <1>7, <2>1 DEF PhaseDone
  <2>4. Ended(e, m, TRUE)
    BY <2>2, <2>3, EndFacts
  <2> QED
    BY <1>0, <1>1, <1>7, <2>2, <2>4 DEF Ended
<1>8. CASE d.phase = "volt"
  <2>1. End(d, m, TRUE)
    BY <1>1, <1>8 DEF PhaseDone
  <2>2. Ended(d, m, TRUE)
    BY <2>1, EndFacts
  <2> QED
    BY <1>0, <1>1, <1>8, <2>2 DEF Ended
<1>9. CASE \/ d.phase = "setup" /\ d.why = "warm"
           \/ d.phase = "address" /\ d.why \notin {"write", "open"}
           \/ d.phase = "protocol"
  <2>1. PICK e : e = [d EXCEPT !.attempt = 1]
    OBVIOUS
  <2>2. e \in Calls /\ e.lost = d.lost /\ e.resp = d.resp
    BY <2>1, CallFields DEF Calls, Retries
  <2>3. SetTarget(e, m)
    BY <1>1, <1>9, <2>1 DEF PhaseDone
  <2>4. Targets(m)
    BY <2>2, <2>3, SetTargetFacts DEF Targets
  <2>5. d'.resp = d.resp
    BY <2>2, <2>3, SetTargetFacts DEF Began, SameCall
  <2> QED
    BY <1>0, <1>1, <1>9, <2>4, <2>5
<1> QED
  BY <1>0, <1>3, <1>4, <1>5, <1>6, <1>7, <1>8, <1>9, CallFields DEF Steps, Phases

LEMMA FailMoves ==
  ASSUME d \in Calls, s \in Memory, PhaseFails
  PROVE  /\ Steps /\ StepFails
         /\ LET m == Doubted(d.phase, s)
            IN \/ d.why = "open" /\ Began("sleep", d, m) /\ LinkKept
               \/ \E e \in Calls : e.lost = d.lost /\ Began("reset", e, Forgot) /\ LinkUp
               \/ Ended(d, m, FALSE) /\ (LinkKept \/ LinkClosed)
<1>0. Steps /\ StepFails
  BY DEF PhaseFails
<1>1. PICK m \in Memory : m = Doubted(d.phase, s)
  BY MemoryFacts, CallFields
<1>2. "sleep" \in Phases \ {"idle"} /\ "reset" \in Phases \ {"idle"} /\ Forgot \in Memory
      /\ "reopen" \in Reasons
  BY DEF Phases, Forgot, Memory, Reasons
<1>3. CASE d.why = "open" /\ Begin("sleep", d, m) /\ LinkKept
  <2>1. Began("sleep", d, m)
    BY <1>2, <1>3, BeginFacts
  <2> QED
    BY <1>0, <1>1, <1>3, <2>1
<1>4. CASE LinkUp /\ Begin("reset", [d EXCEPT !.why = "reopen"], Forgot)
  <2>1. PICK e : e = [d EXCEPT !.why = "reopen"]
    OBVIOUS
  <2>2. e \in Calls /\ e.lost = d.lost
    BY <1>2, <2>1, WhyChanged
  <2>3. Began("reset", e, Forgot)
    BY <1>2, <1>4, <2>1, <2>2, BeginFacts
  <2> QED
    BY <1>0, <1>4, <2>2, <2>3
<1>5. CASE End(d, m, FALSE) /\ (LinkKept \/ LinkClosed)
  <2>1. Ended(d, m, FALSE)
    BY <1>5, EndFacts
  <2> QED
    BY <1>0, <1>1, <1>5, <2>1
<1> QED
  BY <1>0, <1>1, <1>3, <1>4, <1>5 DEF PhaseFails

LEMMA AsleepMoves ==
  ASSUME d \in Calls, s \in Memory, Asleep
  PROVE  LinkClosed /\ \E e \in Calls : e.lost = d.lost /\ Ended(e, s, TRUE)
<1>1. PICK e : e = [d EXCEPT !.open = FALSE]
  OBVIOUS
<1>2. e \in Calls /\ e.lost = d.lost
  BY <1>1, CallFields DEF Calls
<1>3. End(e, s, TRUE) /\ LinkClosed
  BY <1>1 DEF Asleep
<1>4. Ended(e, s, TRUE)
  BY <1>2, <1>3, EndFacts
<1> QED
  BY <1>2, <1>3, <1>4

LEMMA AnsweredMoves ==
  ASSUME d \in Calls, s \in Memory, Answered
  PROVE  /\ d.phase = "request" /\ LinkKept
         /\ d'.phase = "idle" \/ d'.resp = d.resp
         /\ \/ d.ex \in {"data", "ok", "nodata", "?"} /\ Ended(d, s, TRUE)
            \/ d.ex \in {"bus", "warm", "lv", "silence"} /\ Ended(d, s, FALSE)
            \/ \E e \in Calls : e.lost = d.lost /\
                 \/ d.ex = "bus" /\ Began("close", e, s)
                 \/ d.ex = "warm" /\ Began("warm", e, s)
                 \/ d.ex \in {"lv", "silence"} /\ Began("reset", e, s)
<1>0. d.phase = "request" /\ LinkKept
  BY DEF Answered
<1>1. ASSUME NEW phase \in {"close", "warm", "reset"}, NEW why \in {"bus", "warm", "reinit"},
             Recover(phase, why)
      PROVE  Ended(d, s, FALSE) \/ \E e \in Calls : e.lost = d.lost /\ e.resp = d.resp /\ Began(phase, e, s)
  <2>1. CASE End(d, s, FALSE)
    BY <2>1, EndFacts
  <2>2. CASE Begin(phase, [d EXCEPT !.why = why], s)
    <3>1. PICK e : e = [d EXCEPT !.why = why]
      OBVIOUS
    <3>2. why \in Reasons /\ phase \in Phases \ {"idle"}
      BY DEF Reasons, Phases
    <3>3. e \in Calls /\ e.lost = d.lost /\ e.resp = d.resp
      BY <3>1, <3>2, WhyChanged
    <3>4. Began(phase, e, s)
      BY <2>2, <3>1, <3>2, <3>3, BeginFacts
    <3> QED
      BY <3>3, <3>4
  <2> QED
    BY <1>1, <2>1, <2>2 DEF Recover
<1>2. CASE d.ex \in {"data", "ok", "nodata", "?"} /\ End(d, s, TRUE)
  <2>1. Ended(d, s, TRUE)
    BY <1>2, EndFacts
  <2> QED
    BY <1>0, <1>2, <2>1 DEF Ended
<1>3. CASE d.ex = "bus" /\ Recover("close", "bus")
  BY <1>0, <1>1, <1>3 DEF Began, SameCall, Ended
<1>4. CASE d.ex = "warm" /\ Recover("warm", "warm")
  BY <1>0, <1>1, <1>4 DEF Began, SameCall, Ended
<1>5. CASE d.ex \in {"lv", "silence"} /\ Recover("reset", "reinit")
  BY <1>0, <1>1, <1>5 DEF Began, SameCall, Ended
<1> QED
  BY <1>2, <1>3, <1>4, <1>5 DEF Answered

----------------------------------------------------------------------------
\* Types and Remembers are inductive

LEMMA InitTyped == Init => Typed /\ Remembers
<1> SUFFICES ASSUME Init PROVE Typed /\ Remembers
  OBVIOUS
<1>1. s \in Memory /\ chip \in Chips
  BY DEF Init, Forgot, Memory, PowerOn, Chips
<1>2. <<>> \in Seq(StepSet) /\ <<>> \in Seq(CommandSet) /\ <<>> \in Seq(AnswerSet) /\ Len(<<>>) = 0
  OBVIOUS
<1>3. d \in Calls /\ d.todo = <<>> /\ d.phase = "idle" /\ d.ex = "ready"
  BY <1>2 DEF Init, Idle, Calls, Phases, Reasons, Retries
<1>4. Fits(d)
  BY <1>2, <1>3 DEF Fits
<1> QED
  BY <1>1, <1>2, <1>3, <1>4 DEF Init, Typed, Remembers

LEMMA LinkTyped ==
  ASSUME Typed, LinkKept \/ LinkUp \/ LinkClosed
  PROVE  /\ chip' \in Chips /\ link' \in {"closed", "up", "down"}
         /\ pipe' \in Seq(CommandSet) /\ air' \in Seq(AnswerSet)
         /\ link' # "up" => pipe' = <<>> /\ air' = <<>>
<1>1. PowerOn \in Chips
  BY DEF PowerOn, Chips
<1>2. <<>> \in Seq(CommandSet) /\ <<>> \in Seq(AnswerSet)
  OBVIOUS
<1> QED
  BY <1>1, <1>2 DEF Typed, LinkKept, LinkUp, LinkClosed

\* A phase begins that the session's memory is right about.
Ready(phase, e, m) ==
    /\ phase = "request" => m.addressed /\ m.req = e.req /\ m.resp = e.resp
    /\ phase \in {"setup", "protocol"} => ~m.addressed

LEMMA BeganTyped ==
  ASSUME Typed, LinkKept \/ LinkUp \/ LinkClosed, NEW phase \in Phases \ {"idle"},
         NEW e \in Calls, NEW m \in Memory, Began(phase, e, m), Ready(phase, e, m)
  PROVE  Typed' /\ Remembers'
<1>1. Typed'
  BY LinkTyped DEF Typed, Began
<1>2. /\ phase = "reset" => ~s'.addressed
      /\ phase = "address" => ~s'.addressed
      /\ phase \notin {"reset", "address"} => s' = m
  <2>1. s' = Noted(phase, e, m)
    BY DEF Began
  <2>2. ~Forgot.addressed
    BY DEF Forgot
  <2> QED
    BY <2>1, <2>2, NotedFacts
<1>3. d'.phase = phase /\ d'.req = e.req /\ d'.resp = e.resp
  BY DEF Began, SameCall
<1>4. Remembers'
  BY <1>2, <1>3 DEF Ready, Remembers
<1> QED
  BY <1>1, <1>4

LEMMA EndedTyped ==
  ASSUME Typed, LinkKept \/ LinkUp \/ LinkClosed, NEW e \in Calls, NEW m \in Memory, NEW ok \in BOOLEAN,
         Ended(e, m, ok)
  PROVE  Typed' /\ Remembers'
<1>1. Typed'
  BY LinkTyped DEF Typed, Ended
<1>2. Remembers'
  BY DEF Ended, Remembers
<1> QED
  BY <1>1, <1>2

LEMMA TargetsTyped ==
  ASSUME Typed, LinkKept, NEW m \in Memory, Targets(m)
  PROVE  Typed' /\ Remembers'
<1>1. "request" \in Phases \ {"idle"} /\ "address" \in Phases \ {"idle"}
  BY DEF Phases
<1>2. PICK f \in Calls : \/ Began("request", f, m) /\ m.addressed /\ m.req = f.req /\ m.resp = f.resp
                         \/ Began("address", f, m)
  BY DEF Targets
<1>3. CASE Began("request", f, m) /\ m.addressed /\ m.req = f.req /\ m.resp = f.resp
  BY <1>1, <1>3, BeganTyped DEF Ready
<1>4. CASE Began("address", f, m)
  BY <1>1, <1>4, BeganTyped DEF Ready
<1> QED
  BY <1>2, <1>3, <1>4

\* What the steps of an exchange make of the call.
LEMMA SameTarget ==
  ASSUME NEW e, NEW f, f.why = e.why, f.req = e.req, f.resp = e.resp
  PROVE  Target(f) = Target(e)
BY DEF Target

LEMMA NextStepFacts ==
  ASSUME Typed, NextStep
  PROVE  /\ Steps /\ StepPasses /\ Len(d.todo) > 1
         /\ d' \in Calls /\ d'.phase = d.phase /\ d'.ex = "ready" /\ SameCall(d)
         /\ d'.todo = Tail(d.todo) /\ d'.todo \in Seq(StepSet) /\ Len(d'.todo) = Len(d.todo) - 1
         /\ \A k \in 1..Len(d'.todo) : k + 1 \in 1..Len(d.todo) /\ d'.todo[k] = d.todo[k + 1]
         /\ d'.todo # <<>> /\ Target(d') = Target(d) /\ Fits(d')
         /\ s' = s /\ LinkKept
<1>1. d' = [d EXCEPT !.todo = Tail(d.todo), !.ex = "ready"] /\ d \in Calls /\ Len(d.todo) > 1
  BY DEF NextStep, Typed
<1>2. d' = [phase |-> d.phase, why |-> d.why, todo |-> Tail(d.todo), ex |-> "ready",
            attempt |-> d.attempt, n |-> d.n, req |-> d.req, resp |-> d.resp, open |-> d.open,
            lost |-> d.lost]
  <2>1. PICK rest : rest = Tail(d.todo)
    OBVIOUS
  <2>2. PICK e : e = [d EXCEPT !.todo = rest]
    OBVIOUS
  <2>3. e = [phase |-> d.phase, why |-> d.why, todo |-> rest, ex |-> d.ex, attempt |-> d.attempt,
             n |-> d.n, req |-> d.req, resp |-> d.resp, open |-> d.open, lost |-> d.lost]
    BY <1>1, <2>2, CallFields
  <2>4. d' = [e EXCEPT !.ex = "ready"]
    BY <1>1, <2>1, <2>2
  <2> QED
    BY <2>1, <2>3, <2>4
<1>3. d.todo \in Seq(StepSet)
  BY <1>1, CallFields
<1>4. /\ d'.todo = Tail(d.todo) /\ Tail(d.todo) \in Seq(StepSet)
      /\ Len(d'.todo) = Len(d.todo) - 1 /\ d'.todo # <<>>
      /\ \A k \in 1..Len(d'.todo) : k + 1 \in 1..Len(d.todo) /\ d'.todo[k] = d.todo[k + 1]
  <2>1. PICK todo, rest : todo = d.todo /\ rest = d'.todo
    OBVIOUS
  <2>2. todo \in Seq(StepSet) /\ Len(todo) > 1 /\ rest = Tail(todo)
    BY <1>1, <1>2, <1>3, <2>1
  <2>3. rest \in Seq(StepSet) /\ Len(rest) = Len(todo) - 1 /\ rest # <<>>
    BY <2>2
  <2>4. \A k \in 1..Len(rest) : k + 1 \in 1..Len(todo) /\ rest[k] = todo[k + 1]
    BY <2>2, <2>3
  <2> QED
    BY <2>1, <2>2, <2>3, <2>4
<1>5. SameCall(d) /\ d'.phase = d.phase /\ d'.ex = "ready" /\ Target(d') = Target(d)
  BY <1>2 DEF SameCall, Target
<1>6. d' \in Calls
  BY <1>1, <1>2, <1>4, CallFields DEF Calls
<1>7. \A c : Suits(d, c) => Suits(d', c)
  BY <1>5 DEF Suits
<1>8. Fits(d')
  BY <1>4, <1>7 DEF Fits, Typed
<1> QED
  BY <1>1, <1>4, <1>5, <1>6, <1>8 DEF NextStep

LEMMA ExchangeFacts ==
  ASSUME Typed, NEW ex \in {"waiting"} \cup Outcome, d' = [d EXCEPT !.ex = ex]
  PROVE  /\ d' \in Calls /\ d'.phase = d.phase /\ d'.ex = ex /\ SameCall(d)
         /\ d'.todo = d.todo /\ Target(d') = Target(d) /\ Fits(d')
<1>1. d \in Calls
  BY DEF Typed
<1>2. d' = [phase |-> d.phase, why |-> d.why, todo |-> d.todo, ex |-> ex, attempt |-> d.attempt,
            n |-> d.n, req |-> d.req, resp |-> d.resp, open |-> d.open, lost |-> d.lost]
  BY <1>1, CallFields
<1>3. SameCall(d) /\ d'.phase = d.phase /\ d'.ex = ex /\ d'.todo = d.todo /\ Target(d') = Target(d)
  BY <1>2 DEF SameCall, Target
<1>4. d' \in Calls
  BY <1>1, <1>2, CallFields DEF Calls
<1>5. \A c : Suits(d, c) => Suits(d', c)
  BY <1>3 DEF Suits
<1>6. Fits(d')
  BY <1>3, <1>5 DEF Fits, Typed
<1> QED
  BY <1>3, <1>4, <1>6

LEMMA SendFacts ==
  ASSUME Typed, Send
  PROVE  /\ d.phase # "idle" /\ d.ex = "ready" /\ link = "up" /\ UNCHANGED <<s, link, chip, frame>>
         /\ d' = [d EXCEPT !.ex = "waiting"]
         /\ Len(d.todo) \in Nat \ {0} /\ Head(d.todo) = d.todo[1] /\ Head(d.todo) \in StepSet
         /\ Suits(d, Head(d.todo))
         /\ Current \in CommandSet /\ pipe' = Append(pipe, Current)
         /\ \E k \in 0..Len(air) : air' = SubSeq(air, k + 1, Len(air))
<1>1. PICK todo : todo = d.todo
  OBVIOUS
<1>2. todo \in Seq(StepSet) /\ todo # <<>> /\ d.req \in Nat /\ d.resp \in Nat
  BY <1>1, CallFields DEF Send, Typed
<1>3. Len(todo) \in Nat \ {0} /\ Head(todo) = todo[1] /\ Head(todo) \in StepSet /\ 1 \in 1..Len(todo)
  BY <1>2
<1>4. Suits(d, Head(d.todo))
  BY <1>1, <1>3 DEF Typed, Fits
<1>5. Current \in CommandSet /\ pipe' = Append(pipe, Current)
  BY <1>1, <1>2, <1>3 DEF Current, CommandSet, StepSet, Send
<1> QED
  BY <1>1, <1>3, <1>4, <1>5 DEF Send

\* What the adapter makes of the command at the head of its pipe.
LEMMA ChipFacts ==
  ASSUME Typed, ChipObeys
  PROVE  LET c == Head(pipe)
         IN /\ pipe # <<>> /\ pipe' = Tail(pipe) /\ c \in CommandSet /\ chip' \in Chips
            /\ UNCHANGED <<s, d, link>>
            /\ c.op \in Setters /\ c.op \notin Rejects => chip'.cra = Sets(c)
            /\ c.op \notin Setters => chip'.cra \in {chip.cra, 0}
            /\ c.op \notin {"ATZ", "ATWS", "ATSP6", "ATPC", "ATSH"} => chip'.hdr = chip.hdr
            /\ c.op \notin {"ATZ", "ATWS", "ATSP6", "ATPC", "ATFCSH"} => chip'.fch = chip.fch
            /\ \E a \in AnswerSet :
                 /\ air' = Append(air, a) /\ a.kind # "lv"
                 /\ c.op # "REQ" => a.kind = "ok" \/ (a.kind = "?" /\ c.op \in Rejects)
                 /\ a.kind = "ok" /\ c.op = "ATSH" => chip'.hdr = c.id
                 /\ a.kind = "ok" /\ c.op = "ATFCSH" => chip'.fch = c.id
            /\ \/ frame' = frame
               \/ /\ c.op = "REQ"
                  /\ frame' = [hdr |-> chip.hdr, fch |-> chip.fch, cra |-> chip.cra,
                               req |-> c.req, resp |-> c.resp, lost |-> d.lost]
<1>1. PICK c : c = Head(pipe)
  OBVIOUS
<1>2. pipe # <<>> /\ pipe' = Tail(pipe) /\ pipe \in Seq(CommandSet) /\ UNCHANGED <<s, d, link>>
  BY DEF ChipObeys, Typed
<1>3. c \in CommandSet
  BY <1>1, <1>2
<1>4. c.op \in Commands /\ c.id \in Nat
  BY <1>3 DEF CommandSet
<1>5. chip = [hdr |-> chip.hdr, fch |-> chip.fch, cra |-> chip.cra]
      /\ chip.hdr \in Nat /\ chip.fch \in Nat /\ chip.cra \in Nat
  BY DEF Typed, Chips
<1>6. PowerOn \in Chips /\ PowerOn.cra = 0
  BY DEF PowerOn, Chips
<1>7. ASSUME NEW id \in Nat
      PROVE  /\ LET q == [chip EXCEPT !.hdr = id]
                IN q \in Chips /\ q.hdr = id /\ q.fch = chip.fch /\ q.cra = chip.cra
             /\ LET q == [chip EXCEPT !.fch = id]
                IN q \in Chips /\ q.fch = id /\ q.hdr = chip.hdr /\ q.cra = chip.cra
             /\ LET q == [chip EXCEPT !.cra = id]
                IN q \in Chips /\ q.cra = id /\ q.hdr = chip.hdr /\ q.fch = chip.fch
  BY <1>5 DEF Chips
<1>8. CASE c.op # "REQ" /\ chip' \in Obeyed(c) /\ Answer("ok", 0) /\ UNCHANGED frame
  <2>1. PICK a : a = [kind |-> "ok", n |-> 0] /\ air' = Append(air, a)
    BY <1>8 DEF Answer
  <2>2. a \in AnswerSet /\ a.kind = "ok"
    BY <2>1 DEF AnswerSet, Kinds
  <2>3. /\ chip' \in Chips
        /\ c.op \in Setters => chip'.cra = Sets(c)
        /\ c.op \notin Setters => chip'.cra \in {chip.cra, 0}
        /\ c.op \notin {"ATZ", "ATWS", "ATSP6", "ATPC", "ATSH"} => chip'.hdr = chip.hdr
        /\ c.op \notin {"ATZ", "ATWS", "ATSP6", "ATPC", "ATFCSH"} => chip'.fch = chip.fch
        /\ c.op = "ATSH" => chip'.hdr = c.id
        /\ c.op = "ATFCSH" => chip'.fch = c.id
    <3>1. CASE c.op \in {"ATZ", "ATWS", "ATSP6"}
      BY <1>6, <1>8, <3>1 DEF Obeyed, Setters, Sets
    <3>2. CASE c.op = "ATPC"
      BY <1>6, <1>8, <3>2 DEF Obeyed, Setters, Typed
    <3>3. CASE c.op = "ATSH"
      BY <1>4, <1>7, <1>8, <3>3 DEF Obeyed, Setters
    <3>4. CASE c.op = "ATFCSH"
      BY <1>4, <1>7, <1>8, <3>4 DEF Obeyed, Setters
    <3>5. CASE c.op = "ATCRA"
      BY <1>4, <1>7, <1>8, <3>5 DEF Obeyed, Setters, Sets
    <3>6. CASE c.op \notin {"ATZ", "ATWS", "ATSP6", "ATPC", "ATSH", "ATFCSH", "ATCRA"}
      BY <1>8, <3>6 DEF Obeyed, Setters, Typed
    <3> QED
      BY <3>1, <3>2, <3>3, <3>4, <3>5, <3>6
  <2> QED
    BY <1>1, <1>2, <1>3, <1>8, <2>1, <2>2, <2>3
<1>9. CASE c.op \in Rejects /\ Answer("?", 0) /\ UNCHANGED <<chip, frame>>
  <2>1. PICK a : a = [kind |-> "?", n |-> 0] /\ air' = Append(air, a)
    BY <1>9 DEF Answer
  <2>2. a \in AnswerSet /\ a.kind = "?"
    BY <2>1 DEF AnswerSet, Kinds, Failures
  <2> QED
    BY <1>1, <1>2, <1>3, <1>9, <2>1, <2>2 DEF Typed
<1>10. CASE /\ c.op = "REQ" /\ chip' = chip
            /\ frame' = [hdr |-> chip.hdr, fch |-> chip.fch, cra |-> chip.cra,
                         req |-> c.req, resp |-> c.resp, lost |-> d.lost]
            /\ \E kind \in {"data", "nodata", "bus", "warm"} : Answer(kind, c.id)
  <2>1. PICK a, kind : /\ kind \in {"data", "nodata", "bus", "warm"}
                       /\ a = [kind |-> kind, n |-> c.id] /\ air' = Append(air, a)
    BY <1>10 DEF Answer
  <2>2. a \in AnswerSet /\ a.kind # "lv" /\ a.kind # "ok"
    BY <1>4, <2>1 DEF AnswerSet, Kinds, Failures
  <2>3. c.op \notin Setters
    BY <1>10 DEF Setters
  <2> QED
    BY <1>1, <1>2, <1>3, <1>10, <2>1, <2>2, <2>3 DEF Typed
<1> QED
  BY <1>1, <1>8, <1>9, <1>10 DEF ChipObeys

LEMMA AdapterTyped ==
  ASSUME Typed, Remembers, ChipObeys \/ ChipResets \/ LinkDrops
  PROVE  Typed' /\ Remembers'
<1>1. CASE ChipObeys
  <2>1. /\ pipe # <<>> /\ pipe' = Tail(pipe) /\ chip' \in Chips /\ UNCHANGED <<s, d, link>>
        /\ \E a \in AnswerSet : air' = Append(air, a)
    BY <1>1, ChipFacts
  <2>2. pipe' \in Seq(CommandSet) /\ air' \in Seq(AnswerSet)
    BY <2>1 DEF Typed
  <2>3. link = "up"
    BY <2>1 DEF Typed
  <2> QED
    BY <2>1, <2>2, <2>3 DEF Typed, Remembers, Fits, Suits, Target
<1>2. CASE ChipResets
  <2>1. PICK a : a = [kind |-> "lv", n |-> 0]
    OBVIOUS
  <2>2. a \in AnswerSet
    BY <2>1 DEF AnswerSet, Kinds, Failures
  <2>3. /\ pipe # <<>> /\ chip' = PowerOn /\ UNCHANGED <<s, d, link>>
        /\ \/ pipe' = <<>> /\ air' = air
           \/ pipe' = Tail(pipe) /\ air' = Append(air, a)
    BY <1>2, <2>1 DEF ChipResets, Answer
  <2>4. pipe' \in Seq(CommandSet) /\ air' \in Seq(AnswerSet)
    <3>1. pipe \in Seq(CommandSet) /\ air \in Seq(AnswerSet)
      BY DEF Typed
    <3>2. CASE pipe' = <<>> /\ air' = air
      BY <3>1, <3>2
    <3>3. CASE pipe' = Tail(pipe) /\ air' = Append(air, a)
      BY <2>2, <2>3, <3>1, <3>3
    <3> QED
      BY <2>3, <3>2, <3>3
  <2>5. link = "up" /\ PowerOn \in Chips
    BY <2>3 DEF Typed, PowerOn, Chips
  <2> QED
    BY <2>3, <2>4, <2>5 DEF Typed, Remembers, Fits, Suits, Target
<1>3. CASE LinkDrops
  <2>1. pipe' = <<>> /\ air' = <<>> /\ link' = "down" /\ UNCHANGED <<s, d, chip>>
    BY <1>3 DEF LinkDrops
  <2>2. pipe' \in Seq(CommandSet) /\ air' \in Seq(AnswerSet)
    BY <2>1
  <2> QED
    BY <2>1, <2>2 DEF Typed, Remembers, Fits, Suits, Target
<1> QED
  BY <1>1, <1>2, <1>3

\* The actions that begin a phase or end a call.
CallMoves ==
    \/ OpenDevice \/ CloseDevice \/ ReadVoltage \/ \E req, resp \in Nat : Write(req, resp)
    \/ PhaseDone \/ PhaseFails \/ Asleep \/ Answered

LEMMA CallsTyped ==
  ASSUME Typed, Remembers, CallMoves
  PROVE  Typed' /\ Remembers'
<1>0. d \in Calls /\ s \in Memory /\ d.phase \in Phases
  BY CallFields DEF Typed
<1>1. {"reset", "setup", "address", "close", "protocol", "warm", "request", "volt", "sleep"}
        = Phases \ {"idle"} /\ Forgot \in Memory
  BY DEF Phases, Forgot, Memory
<1>2. CASE OpenDevice
  <2>1. CASE LinkUp /\ \E e \in Calls : ~e.lost /\ Began("reset", e, Forgot)
    <3>1. PICK e \in Calls : Began("reset", e, Forgot)
      BY <2>1
    <3>2. Ready("reset", e, Forgot)
      BY DEF Ready
    <3> QED
      BY <1>1, <2>1, <3>1, <3>2, BeganTyped
  <2>2. CASE LinkClosed /\ UNCHANGED <<s, d>>
    <3>1. d.phase = "idle"
      BY <1>2 DEF OpenDevice
    <3>2. Fits(d')
      BY <2>2 DEF Typed
    <3> QED
      BY <2>2, <3>1, <3>2, LinkTyped DEF Typed, Remembers
  <2> QED
    BY <1>0, <1>2, <2>1, <2>2, OpenMoves
<1>3. CASE CloseDevice \/ ReadVoltage \/ \E req, resp \in Nat : Write(req, resp)
  <2>0. LinkKept
    BY <1>0, <1>3, IdleMoves
  <2>1. CASE \E e \in Calls : Began("sleep", e, s) \/ Began("volt", e, s)
    <3>1. PICK e \in Calls : Began("sleep", e, s) \/ Began("volt", e, s)
      BY <2>1
    <3>2. Ready("sleep", e, s) /\ Ready("volt", e, s)
      BY DEF Ready
    <3> QED
      BY <1>0, <1>1, <2>0, <3>1, <3>2, BeganTyped
  <2>2. CASE Targets(s)
    BY <1>0, <2>0, <2>2, TargetsTyped
  <2> QED
    BY <1>0, <1>3, <2>1, <2>2, IdleMoves
<1>4. CASE PhaseDone
  <2>1. PICK m \in Memory : m = Learnt(d.phase, d, s)
    BY <1>0, MemoryFacts
  <2>2. /\ LinkKept
        /\ \/ d.phase \in {"reset", "warm"} /\ Began("setup", d, m)
           \/ d.phase = "setup" /\ Began("address", d, m)
           \/ d.phase = "close" /\ Began("protocol", d, m)
           \/ d.phase = "address" /\ d.why = "write" /\ Began("request", d, m)
           \/ d.phase \in {"address", "volt"}
                /\ \E e \in Calls : e.lost = d.lost /\ Ended(e, m, TRUE)
           \/ d.phase \in {"setup", "protocol", "address"} /\ Targets(m)
    BY <1>0, <1>4, <2>1, DoneMoves
  <2>3. CASE d.phase \in {"reset", "warm"} /\ Began("setup", d, m)
    <3>1. ~m.addressed
      BY <1>0, <2>1, <2>3, MemoryFacts DEF Remembers
    <3>2. Ready("setup", d, m)
      BY <3>1 DEF Ready
    <3> QED
      BY <1>0, <1>1, <2>2, <2>3, <3>2, BeganTyped
  <2>4. CASE d.phase = "setup" /\ Began("address", d, m)
    <3>1. Ready("address", d, m)
      BY DEF Ready
    <3> QED
      BY <1>0, <1>1, <2>2, <2>4, <3>1, BeganTyped
  <2>5. CASE d.phase = "close" /\ Began("protocol", d, m)
    <3>1. ~m.addressed
      BY <1>0, <2>1, <2>5, MemoryFacts
    <3>2. Ready("protocol", d, m)
      BY <3>1 DEF Ready
    <3> QED
      BY <1>0, <1>1, <2>2, <2>5, <3>2, BeganTyped
  <2>6. CASE d.phase = "address" /\ d.why = "write" /\ Began("request", d, m)
    <3>1. m.addressed /\ m.req = Target(d)[1] /\ m.resp = Target(d)[2]
      BY <1>0, <2>1, <2>6, MemoryFacts
    <3>2. Target(d) = <<d.req, d.resp>>
      BY <2>6 DEF Target
    <3>3. Ready("request", d, m)
      BY <3>1, <3>2 DEF Ready
    <3> QED
      BY <1>0, <1>1, <2>2, <2>6, <3>3, BeganTyped
  <2>7. CASE \E e \in Calls : e.lost = d.lost /\ Ended(e, m, TRUE)
    BY <1>0, <2>2, <2>7, EndedTyped
  <2>8. CASE Targets(m)
    BY <1>0, <2>2, <2>8, TargetsTyped
  <2> QED
    BY <2>2, <2>3, <2>4, <2>5, <2>6, <2>7, <2>8
<1>5. CASE PhaseFails
  <2>1. PICK m \in Memory : m = Doubted(d.phase, s)
    BY <1>0, MemoryFacts
  <2>2. \/ Began("sleep", d, m) /\ LinkKept
        \/ \E e \in Calls : e.lost = d.lost /\ Began("reset", e, Forgot) /\ LinkUp
        \/ Ended(d, m, FALSE) /\ (LinkKept \/ LinkClosed)
    BY <1>0, <1>5, <2>1, FailMoves
  <2>3. Ready("sleep", d, m) /\ \A e \in Calls : Ready("reset", e, Forgot)
    BY DEF Ready
  <2>4. CASE Began("sleep", d, m) /\ LinkKept
    BY <1>0, <1>1, <2>3, <2>4, BeganTyped
  <2>5. CASE \E e \in Calls : e.lost = d.lost /\ Began("reset", e, Forgot) /\ LinkUp
    BY <1>0, <1>1, <2>3, <2>5, BeganTyped
  <2>6. CASE Ended(d, m, FALSE) /\ (LinkKept \/ LinkClosed)
    BY <1>0, <2>6, EndedTyped
  <2> QED
    BY <2>2, <2>4, <2>5, <2>6
<1>6. CASE Asleep
  BY <1>0, <1>6, AsleepMoves, EndedTyped
<1>7. CASE Answered
  <2>1. /\ LinkKept
        /\ \/ Ended(d, s, TRUE) \/ Ended(d, s, FALSE)
           \/ \E e \in Calls : Began("close", e, s) \/ Began("warm", e, s) \/ Began("reset", e, s)
    BY <1>0, <1>7, AnsweredMoves
  <2>2. \A e \in Calls : Ready("close", e, s) /\ Ready("warm", e, s) /\ Ready("reset", e, s)
    BY DEF Ready
  <2>3. CASE Ended(d, s, TRUE) \/ Ended(d, s, FALSE)
    BY <1>0, <2>1, <2>3, EndedTyped
  <2>4. CASE \E e \in Calls : Began("close", e, s) \/ Began("warm", e, s) \/ Began("reset", e, s)
    BY <1>0, <1>1, <2>1, <2>2, <2>4, BeganTyped
  <2> QED
    BY <2>1, <2>3, <2>4
<1> QED
  BY <1>2, <1>3, <1>4, <1>5, <1>6, <1>7 DEF CallMoves

LEMMA ReceiveFacts ==
  ASSUME Typed, Receive
  PROVE  LET a == Head(air)
         IN /\ d.ex = "waiting" /\ air # <<>> /\ a \in AnswerSet /\ air' = Tail(air)
            /\ d' = [d EXCEPT !.ex = a.kind] /\ a.kind \in Kinds
            /\ UNCHANGED <<s, link, chip, pipe, frame>>
<1>1. air # <<>> /\ air \in Seq(AnswerSet)
  BY DEF Receive, Typed
<1>2. Head(air) \in AnswerSet
  BY <1>1
<1>3. Head(air).kind \in Kinds
  BY <1>2 DEF AnswerSet
<1> QED
  BY <1>1, <1>2, <1>3 DEF Receive

\* The call goes on with the same list, and an answer or without one.
LEMMA ExchangeTyped ==
  ASSUME Typed, Remembers, NextStep \/ Send \/ Receive \/ Silence
  PROVE  Typed' /\ Remembers'
<1>1. CASE NextStep
  <2>1. d.phase # "idle" /\ d'.phase = d.phase /\ d'.req = d.req /\ d'.resp = d.resp
    BY <1>1, NextStepFacts DEF Steps, SameCall
  <2> QED
    BY <1>1, <2>1, NextStepFacts, LinkTyped DEF Typed, Remembers
<1>2. ASSUME NEW ex \in {"waiting"} \cup Outcome, d' = [d EXCEPT !.ex = ex], d.phase # "idle"
      PROVE  /\ d' \in Calls /\ Fits(d')
             /\ d'.phase # "idle" /\ d'.todo # <<>>
             /\ s' = s => Remembers'
  <2>1. d' \in Calls /\ Fits(d') /\ d'.phase = d.phase /\ d'.todo = d.todo /\ SameCall(d)
    BY <1>2, ExchangeFacts
  <2> QED
    BY <1>2, <2>1 DEF Typed, Remembers, SameCall
<1>3. CASE Send
  <2>1. d.phase # "idle" /\ link = "up" /\ UNCHANGED <<s, link, chip>> /\ d' = [d EXCEPT !.ex = "waiting"]
        /\ Current \in CommandSet /\ pipe' = Append(pipe, Current)
        /\ \E k \in 0..Len(air) : air' = SubSeq(air, k + 1, Len(air))
    BY <1>3, SendFacts
  <2>2. pipe' \in Seq(CommandSet)
    BY <2>1 DEF Typed
  <2>3. air' \in Seq(AnswerSet)
    BY <2>1 DEF Typed
  <2> QED
    BY <1>2, <2>1, <2>2, <2>3 DEF Typed
<1>4. CASE Receive
  <2>1. PICK kind \in Kinds : d' = [d EXCEPT !.ex = kind]
    BY <1>4, ReceiveFacts
  <2>2. d.phase # "idle" /\ UNCHANGED <<s, link, chip, pipe>> /\ air # <<>> /\ air' = Tail(air)
    BY <1>4, ReceiveFacts DEF Typed
  <2>3. air' \in Seq(AnswerSet) /\ link = "up"
    BY <2>2 DEF Typed
  <2>4. kind \in {"waiting"} \cup Outcome
    BY DEF Outcome
  <2> QED
    BY <1>2, <2>1, <2>2, <2>3, <2>4 DEF Typed
<1>5. CASE Silence
  <2>1. d.phase # "idle" /\ d' = [d EXCEPT !.ex = "silence"] /\ UNCHANGED <<s, link, chip, pipe, air>>
    BY <1>5 DEF Silence, Typed
  <2>2. "silence" \in {"waiting"} \cup Outcome
    BY DEF Outcome
  <2> QED
    BY <1>2, <2>1, <2>2 DEF Typed
<1> QED
  BY <1>1, <1>3, <1>4, <1>5

LEMMA WritesTyped ==
  ASSUME NEW req \in Requests, NEW resp \in Responses \cup {0}
  PROVE  req \in Nat /\ resp \in Nat
BY SessionAssumption

\* The next-state relation in the groups that the proofs take it in.
LEMMA NextMoves ==
  ASSUME Next
  PROVE  CallMoves \/ NextStep \/ Send \/ Receive \/ Silence \/ ChipObeys \/ ChipResets \/ LinkDrops
BY WritesTyped DEF Next, SessionStep, CallMoves

LEMMA TypedInductive ==
  ASSUME Typed, Remembers, [Next]_vars
  PROVE  Typed' /\ Remembers'
<1>1. CASE Next
  BY <1>1, NextMoves, CallsTyped, ExchangeTyped, AdapterTyped
<1>2. CASE UNCHANGED vars
  <2>1. Fits(d')
    BY <1>2 DEF vars, Typed
  <2> QED
    BY <1>2, <2>1 DEF vars, Typed, Remembers
<1> QED
  BY <1>1, <1>2

\* TypeOK in every reachable state, whatever the adapter rejects, drops or
\* answers late: a call has a list of commands exactly while it is in a phase,
\* and nothing is in flight on a link that is not up.
THEOREM Types == Spec => []TypeOK
<1>1. Typed => TypeOK
  BY CallFields DEF Typed, TypeOK, Memory, Outcome
<1>2. Typed /\ Remembers /\ [Next]_vars => Typed' /\ Remembers'
  BY TypedInductive
<1> QED
  BY <1>1, <1>2, InitTyped, PTL DEF Spec

----------------------------------------------------------------------------
\* The filter in force at each place of the pipe

LEMMA WithinNothing ==
  ASSUME NEW p, NEW r, NEW V
  PROVE  Within(p, r, 0, V) <=> r \in V
BY DEF Within

\* A command is written: the places before it stay as they are.
LEMMA WithinWritten ==
  ASSUME NEW p \in Seq(CommandSet), NEW c \in CommandSet, NEW q, q = Append(p, c),
         NEW r, NEW V
  PROVE  /\ q \in Seq(CommandSet) /\ Len(q) = Len(p) + 1 /\ q[Len(q)] = c
         /\ \A i \in 1..Len(p) : q[i] = p[i]
         /\ \A i \in 0..Len(p) : Within(p, r, i, V) => Within(q, r, i, V)
         /\ c.op \in Setters /\ Sets(c) \in V => Within(q, r, Len(q), V)
         /\ c.op \notin Setters /\ Within(p, r, Len(p), V) => Within(q, r, Len(q), V)
<1>1. /\ q \in Seq(CommandSet) /\ Len(q) = Len(p) + 1 /\ q[Len(q)] = c /\ Len(p) \in Nat
      /\ \A i \in 1..Len(p) : q[i] = p[i]
  OBVIOUS
<1>2. ASSUME NEW i \in 0..Len(p), Within(p, r, i, V)
      PROVE  Within(q, r, i, V)
  <2>1. \A k \in 1..i : q[k] = p[k]
    BY <1>1
  <2>2. \A j \in 1..i : \A k \in (j + 1)..i : k \in 1..i
    OBVIOUS
  <2> QED
    BY <1>2, <2>1, <2>2 DEF Within
<1>3. ASSUME c.op \in Setters, Sets(c) \in V
      PROVE  Within(q, r, Len(q), V)
  <2>1. PICK n \in Nat : n = Len(q) /\ n > 0 /\ q[n] = c
    BY <1>1
  <2>2. \A j \in 1..n : j = n \/ n \in (j + 1)..n
    BY <2>1
  <2>3. n \in 1..n
    BY <2>1
  <2> QED
    BY <1>3, <2>1, <2>2, <2>3 DEF Within
<1>4. ASSUME c.op \notin Setters, Within(p, r, Len(p), V)
      PROVE  Within(q, r, Len(q), V)
  <2>1. PICK n \in Nat : n = Len(p) /\ Len(q) = n + 1 /\ q[n + 1] = c
    BY <1>1
  <2>2. \A k \in 1..n : q[k] = p[k]
    BY <1>1, <2>1
  <2>3. \A k \in 1..(n + 1) : k = n + 1 \/ k \in 1..n
    BY <2>1
  <2>4. ASSUME NEW j \in 1..(n + 1), q[j].op \in Setters,
               \A k \in (j + 1)..(n + 1) : q[k].op \notin Setters
        PROVE  Sets(q[j]) \in V
    <3>1. j \in 1..n
      BY <1>4, <2>1, <2>3, <2>4
    <3>2. \A k \in (j + 1)..n : k \in (j + 1)..(n + 1) /\ k \in 1..n
      BY <3>1
    <3>3. \A k \in (j + 1)..n : p[k].op \notin Setters
      BY <2>2, <2>4, <3>2
    <3> QED
      BY <1>4, <2>1, <2>2, <2>4, <3>1, <3>3 DEF Within
  <2>5. ASSUME \A k \in 1..(n + 1) : q[k].op \notin Setters
        PROVE  r \in V
    <3>1. \A k \in 1..n : k \in 1..(n + 1)
      BY <2>1
    <3>2. \A k \in 1..n : p[k].op \notin Setters
      BY <2>2, <2>5, <3>1
    <3> QED
      BY <1>4, <2>1, <3>2 DEF Within
  <2> QED
    BY <2>1, <2>4, <2>5 DEF Within
<1> QED
  BY <1>1, <1>2, <1>3, <1>4

\* The adapter takes the first command and obeys it, or resets itself.
LEMMA WithinTaken ==
  ASSUME NEW p \in Seq(CommandSet), p # <<>>, NEW q, q = Tail(p), NEW r, NEW t,
         \/ t = 0
         \/ Head(p).op \in Setters /\ t = Sets(Head(p))
         \/ Head(p).op \notin Setters /\ t = r,
         NEW V, 0 \in V
  PROVE  /\ q \in Seq(CommandSet) /\ Len(q) = Len(p) - 1
         /\ \A i \in 1..Len(q) : q[i] = p[i + 1] /\ i + 1 \in 1..Len(p)
         /\ \A i \in 0..Len(q) : Within(p, r, i + 1, V) => Within(q, t, i, V)
<1>1. /\ q \in Seq(CommandSet) /\ Len(q) = Len(p) - 1 /\ Len(p) \in Nat /\ Head(p) = p[1]
      /\ Len(q) \in Nat
      /\ \A i \in 1..Len(q) : q[i] = p[i + 1] /\ i + 1 \in 1..Len(p)
  OBVIOUS
<1>2. ASSUME NEW i \in 0..Len(q), Within(p, r, i + 1, V)
      PROVE  Within(q, t, i, V)
  <2>0. i \in Nat /\ \A k \in 1..i : k \in 1..Len(q)
    BY <1>1
  <2>1. \A k \in 1..i : q[k] = p[k + 1] /\ k + 1 \in 1..(i + 1)
    BY <1>1, <2>0
  <2>2. ASSUME NEW j \in 1..i, q[j].op \in Setters, \A k \in (j + 1)..i : q[k].op \notin Setters
        PROVE  Sets(q[j]) \in V
    <3>1. ASSUME NEW k \in ((j + 1) + 1)..(i + 1)
          PROVE  p[k].op \notin Setters
      <4>1. k - 1 \in (j + 1)..i /\ k - 1 \in 1..i /\ (k - 1) + 1 = k
        BY <2>0
      <4> QED
        BY <2>1, <2>2, <4>1
    <3> QED
      BY <1>2, <2>1, <2>2, <3>1 DEF Within
  <2>3. ASSUME \A k \in 1..i : q[k].op \notin Setters
        PROVE  t \in V
    <3>1. ASSUME NEW k \in 2..(i + 1)
          PROVE  p[k].op \notin Setters
      <4>1. k - 1 \in 1..i /\ (k - 1) + 1 = k
        BY <2>0
      <4> QED
        BY <2>1, <2>3, <4>1
    <3>2. 1 \in 1..(i + 1) /\ 1 + 1 = 2 /\ \A k \in 1..(i + 1) : k = 1 \/ k \in 2..(i + 1)
      BY <2>0
    <3>3. CASE Head(p).op \in Setters /\ t = Sets(Head(p))
      BY <1>1, <1>2, <3>1, <3>2, <3>3 DEF Within
    <3>4. CASE Head(p).op \notin Setters /\ t = r
      BY <1>1, <1>2, <3>1, <3>2, <3>4 DEF Within
    <3> QED
      BY <3>3, <3>4
  <2> QED
    BY <2>2, <2>3 DEF Within
<1> QED
  BY <1>1, <1>2

----------------------------------------------------------------------------
\* NoStaleFilter is inductive with FilterKnown and RequestsFiltered

\* Whatever the filter at the end of the pipe was known to be, it still is.
FiltersKept == \A V \in SUBSET Nat : 0 \in V /\ Ends(V) => EndsIn(pipe', chip'.cra, link', V)

LEMMA FilterSets ==
  ASSUME Typed
  PROVE  /\ {0} \in SUBSET Nat /\ 0 \in {0} /\ {0, s.resp} \in SUBSET Nat /\ 0 \in {0, s.resp}
         /\ {0, Target(d)[2]} \in SUBSET Nat /\ 0 \in {0, Target(d)[2]}
         /\ {0, d.resp} \in SUBSET Nat /\ 0 \in {0, d.resp}
<1>1. s.resp \in Nat /\ Target(d)[2] \in Nat /\ d.resp \in Nat
  BY TargetType, CallFields DEF Typed, Memory
<1> QED
  BY <1>1

LEMMA KnownKept ==
  ASSUME Typed, FilterKnown, FiltersKept, UNCHANGED <<s, d>>
  PROVE  FilterKnown'
<1>1. \A V \in {{0}, {0, s.resp}, {0, Target(d)[2]}, {0, d.resp}} : Ends(V) => EndsIn(pipe', chip'.cra, link', V)
  BY FilterSets DEF FiltersKept
<1>2. s.addressed => EndsIn(pipe', chip'.cra, link', {0, s.resp})
  BY <1>1 DEF FilterKnown
<1>3. s.craSet \/ Resetting \/ EndsIn(pipe', chip'.cra, link', {0})
  BY <1>1 DEF FilterKnown
<1>4. d.phase = "address" =>
         /\ Target(d)[2] # 0 => s.craSet
         /\ \/ EndsIn(pipe', chip'.cra, link', {0, Target(d)[2]})
            \/ \E k \in Unsent : d.todo[k].op = "ATCRA"
  BY <1>1 DEF FilterKnown
<1>5. /\ d.phase = "warm" /\ d.ex # "ready" => EndsIn(pipe', chip'.cra, link', {0})
      /\ d.phase \in {"close", "protocol"} => EndsIn(pipe', chip'.cra, link', {0, d.resp})
  BY <1>1 DEF FilterKnown
<1>6. Resetting' = Resetting /\ Unsent' = Unsent /\ Target(d)' = Target(d)
  BY DEF Resetting, Unsent, Target
<1> QED
  BY <1>2, <1>3, <1>4, <1>5, <1>6 DEF FilterKnown, Ends

LEMMA AdapterFilter ==
  ASSUME Obedient, FilterInv, ChipObeys \/ ChipResets \/ LinkDrops
  PROVE  FilterKnown' /\ RequestsFiltered' /\ NoStaleFilter'
<1>0. Typed /\ pipe \in Seq(CommandSet)
  BY DEF FilterInv, Typed
<1>1. ASSUME NEW t, t = chip'.cra, pipe # <<>>, pipe' = Tail(pipe), link' = link,
             \/ t = 0
             \/ Head(pipe).op \in Setters /\ t = Sets(Head(pipe))
             \/ Head(pipe).op \notin Setters /\ t = chip.cra
      PROVE  FiltersKept /\ RequestsFiltered'
  <2>0. /\ pipe' \in Seq(CommandSet) /\ Len(pipe') = Len(pipe) - 1 /\ Len(pipe) \in Nat \ {0}
        /\ \A i \in 1..Len(pipe') : pipe'[i] = pipe[i + 1] /\ i + 1 \in 1..Len(pipe)
    BY <1>0, <1>1
  <2>1. ASSUME NEW V, 0 \in V
        PROVE  \A i \in 0..Len(pipe') : Within(pipe, chip.cra, i + 1, V) => Within(pipe', t, i, V)
    BY <1>0, <1>1, <2>1, WithinTaken
  <2>2. ASSUME NEW V, 0 \in V, Ends(V)
        PROVE  EndsIn(pipe', chip'.cra, link', V)
    <3>1. Len(pipe') \in 0..Len(pipe') /\ Len(pipe') + 1 = Len(pipe)
      BY <2>0
    <3> QED
      BY <1>1, <2>1, <2>2, <3>1 DEF Ends, EndsIn
  <2>3. ASSUME NEW i \in 1..Len(pipe'), pipe'[i].op = "REQ"
        PROVE  Within(pipe', chip'.cra, i - 1, {0, pipe'[i].resp})
    <3>1. pipe[i + 1].op = "REQ" /\ i + 1 \in 1..Len(pipe) /\ (i + 1) - 1 = (i - 1) + 1
          /\ i - 1 \in 0..Len(pipe')
      BY <2>0, <2>3
    <3>2. Within(pipe, chip.cra, (i - 1) + 1, {0, pipe[i + 1].resp})
      BY <3>1 DEF FilterInv, RequestsFiltered
    <3>3. PICK V : V = {0, pipe[i + 1].resp}
      OBVIOUS
    <3> QED
      BY <1>1, <2>0, <2>1, <3>1, <3>2, <3>3
  <2> QED
    BY <2>2, <2>3 DEF FiltersKept, RequestsFiltered
<1>2. ASSUME pipe' = <<>>, chip'.cra = 0 \/ link' # "up"
      PROVE  FiltersKept /\ RequestsFiltered'
  <2>1. Len(pipe') = 0 /\ \A i \in 1..Len(pipe') : FALSE
    BY <1>2
  <2>2. ASSUME NEW V, 0 \in V
        PROVE  EndsIn(pipe', chip'.cra, link', V)
    BY <1>2, <2>1, <2>2, WithinNothing DEF EndsIn
  <2> QED
    BY <2>1, <2>2 DEF FiltersKept, RequestsFiltered
<1>3. CASE ChipObeys
  <2>1. PICK c : c = Head(pipe)
    OBVIOUS
  <2>2. /\ pipe # <<>> /\ pipe' = Tail(pipe) /\ UNCHANGED <<s, d, link>>
        /\ c.op \in Setters /\ c.op \notin Rejects => chip'.cra = Sets(c)
        /\ c.op \notin Setters => chip'.cra \in {chip.cra, 0}
        /\ \/ frame' = frame
           \/ /\ c.op = "REQ"
              /\ frame' = [hdr |-> chip.hdr, fch |-> chip.fch, cra |-> chip.cra,
                           req |-> c.req, resp |-> c.resp, lost |-> d.lost]
    BY <1>0, <1>3, <2>1, ChipFacts
  <2>3. FiltersKept /\ RequestsFiltered'
    BY <1>1, <2>1, <2>2 DEF Obedient, Setters
  <2>4. NoStaleFilter'
    <3>1. CASE frame' = frame
      BY <3>1 DEF FilterInv, NoStaleFilter
    <3>2. CASE /\ c.op = "REQ"
               /\ frame' = [hdr |-> chip.hdr, fch |-> chip.fch, cra |-> chip.cra,
                            req |-> c.req, resp |-> c.resp, lost |-> d.lost]
      <4>1. 1 \in 1..Len(pipe) /\ pipe[1] = c /\ 1 - 1 = 0
        BY <1>0, <2>1, <2>2
      <4>2. Within(pipe, chip.cra, 0, {0, c.resp})
        BY <3>2, <4>1 DEF FilterInv, RequestsFiltered
      <4>3. chip.cra \in {0, c.resp}
        BY <4>2, WithinNothing
      <4> QED
        BY <3>2, <4>3 DEF NoStaleFilter
    <3> QED
      BY <2>2, <3>1, <3>2
  <2> QED
    BY <1>0, <2>2, <2>3, <2>4, KnownKept DEF FilterInv
<1>4. CASE ChipResets
  <2>1. /\ pipe # <<>> /\ chip'.cra = 0 /\ UNCHANGED <<s, d, link, frame>>
        /\ pipe' = <<>> \/ pipe' = Tail(pipe)
    BY <1>4 DEF ChipResets, PowerOn
  <2>2. FiltersKept /\ RequestsFiltered'
    BY <1>1, <1>2, <2>1
  <2> QED
    BY <1>0, <2>1, <2>2, KnownKept DEF FilterInv, NoStaleFilter
<1>5. CASE LinkDrops
  <2>1. pipe' = <<>> /\ link' # "up" /\ UNCHANGED <<s, d, frame>>
    BY <1>5 DEF LinkDrops
  <2>2. FiltersKept /\ RequestsFiltered'
    BY <1>2, <2>1
  <2> QED
    BY <1>0, <2>1, <2>2, KnownKept DEF FilterInv, NoStaleFilter
<1> QED
  BY <1>3, <1>4, <1>5

LEMMA SendFilter ==
  ASSUME FilterInv, Send
  PROVE  FilterKnown' /\ RequestsFiltered' /\ NoStaleFilter'
<1>0. Typed /\ pipe \in Seq(CommandSet) /\ Len(pipe) \in Nat
  BY DEF FilterInv, Typed
<1>1. PICK c : c = Current
  OBVIOUS
<1>2. /\ d.phase # "idle" /\ d.ex = "ready" /\ link = "up" /\ UNCHANGED <<s, link, chip, frame>>
      /\ d' = [d EXCEPT !.ex = "waiting"]
      /\ Len(d.todo) \in Nat \ {0} /\ Head(d.todo) = d.todo[1] /\ Head(d.todo) \in StepSet
      /\ Suits(d, Head(d.todo)) /\ c \in CommandSet /\ pipe' = Append(pipe, c)
  BY <1>0, <1>1, SendFacts
<1>3. c.op = Head(d.todo).op /\ c.id = Head(d.todo).id /\ c.resp = d.resp
  BY <1>1 DEF Current
<1>4. /\ d'.phase = d.phase /\ d'.ex = "waiting" /\ d'.todo = d.todo /\ Target(d') = Target(d)
      /\ d'.resp = d.resp
  BY <1>0, <1>2, ExchangeFacts DEF SameCall
<1>5. /\ pipe' \in Seq(CommandSet) /\ Len(pipe') = Len(pipe) + 1 /\ pipe'[Len(pipe')] = c
      /\ \A i \in 1..Len(pipe) : pipe'[i] = pipe[i]
  BY <1>0, <1>2, WithinWritten
<1>6. ASSUME NEW V
      PROVE  /\ \A i \in 0..Len(pipe) : Within(pipe, chip.cra, i, V) => Within(pipe', chip'.cra, i, V)
             /\ c.op \in Setters /\ Sets(c) \in V => EndsIn(pipe', chip'.cra, link', V)
             /\ c.op \notin Setters /\ Ends(V) => EndsIn(pipe', chip'.cra, link', V)
  BY <1>0, <1>2, WithinWritten DEF Ends, EndsIn
<1>7. c.op = "ATCRA" => d.phase = "address" /\ Sets(c) = Target(d)[2]
  BY <1>2, <1>3 DEF Suits, AddressingOps, Sets
<1>8. c.op # "ATCRA" => Sets(c) = 0
  BY DEF Sets
<1>9. s.addressed => EndsIn(pipe', chip'.cra, link', {0, s.resp})
  BY <1>6, <1>7, <1>8 DEF FilterInv, FilterKnown, Remembers
<1>10. s.craSet \/ EndsIn(pipe', chip'.cra, link', {0})
  <2>1. CASE c.op \in Setters
    BY <1>6, <1>7, <1>8, <2>1 DEF FilterInv, FilterKnown
  <2>2. CASE c.op \notin Setters
    <3>1. ~Resetting
      BY <1>3, <2>2 DEF Resetting, Setters
    <3> QED
      BY <1>6, <2>2, <3>1 DEF FilterInv, FilterKnown
  <2> QED
    BY <2>1, <2>2
<1>11. ASSUME d.phase = "address"
       PROVE  /\ Target(d)[2] # 0 => s.craSet
              /\ \/ EndsIn(pipe', chip'.cra, link', {0, Target(d)[2]})
                 \/ \E k \in Unsent' : d.todo[k].op = "ATCRA"
  <2>1. Target(d)[2] # 0 => s.craSet
    BY <1>11 DEF FilterInv, FilterKnown
  <2>2. CASE c.op = "ATCRA"
    <3>1. EndsIn(pipe', chip'.cra, link', {0, Target(d)[2]})
      BY <1>6, <1>7, <2>2 DEF Setters
    <3> QED
      BY <2>1, <3>1
  <2>3. CASE c.op # "ATCRA"
    <3>1. c.op \notin Setters
      BY <1>2, <1>3, <1>11, <2>3 DEF Suits, AddressingOps, Setters
    <3>2. CASE Ends({0, Target(d)[2]})
      BY <1>6, <2>1, <3>1, <3>2
    <3>3. CASE \E k \in Unsent : d.todo[k].op = "ATCRA"
      <4>1. PICK k \in Unsent : d.todo[k].op = "ATCRA"
        BY <3>3
      <4>2. Unsent = 1..Len(d.todo) /\ Unsent' = 2..Len(d.todo)
        BY <1>2, <1>4 DEF Unsent
      <4>3. k # 1
        BY <1>2, <1>3, <2>3, <4>1
      <4>4. k \in Unsent'
        BY <1>2, <4>2, <4>3
      <4> QED
        BY <2>1, <4>1, <4>4
    <3> QED
      BY <1>11, <3>2, <3>3 DEF FilterInv, FilterKnown
  <2> QED
    BY <2>1, <2>2, <2>3
<1>12. /\ d.phase = "warm" => EndsIn(pipe', chip'.cra, link', {0})
       /\ d.phase \in {"close", "protocol"} => EndsIn(pipe', chip'.cra, link', {0, d.resp})
  <2>1. d.phase = "warm" => c.op = "ATWS"
    BY <1>2, <1>3 DEF Suits
  <2>2. d.phase \in {"close", "protocol"} => Sets(c) = 0
    BY <1>7, <1>8
  <2> QED
    BY <1>6, <1>8, <2>1, <2>2 DEF Setters, FilterInv, FilterKnown
<1>13. FilterKnown'
  <2>1. s' = s
    BY <1>2
  <2> QED
    BY <1>4, <1>9, <1>10, <1>11, <1>12, <2>1 DEF FilterKnown, Ends
<1>14. RequestsFiltered'
  <2>1. ASSUME NEW i \in 1..Len(pipe'), pipe'[i].op = "REQ"
        PROVE  Within(pipe', chip'.cra, i - 1, {0, pipe'[i].resp})
    <3>1. i - 1 \in 0..Len(pipe)
      BY <1>0, <1>5
    <3>2. CASE i = Len(pipe')
      <4>1. pipe'[i] = c /\ i - 1 = Len(pipe)
        BY <1>0, <1>5, <3>2
      <4>2. d.phase = "request"
        BY <1>2, <1>3, <2>1, <4>1 DEF Suits
      <4>3. Ends({0, d.resp})
        BY <4>2 DEF FilterInv, FilterKnown, Remembers
      <4>4. Within(pipe, chip.cra, Len(pipe), {0, d.resp})
        BY <1>2, <4>3 DEF Ends, EndsIn
      <4> QED
        BY <1>3, <1>6, <3>1, <4>1, <4>4
    <3>3. CASE i # Len(pipe')
      <4>1. i \in 1..Len(pipe) /\ pipe'[i] = pipe[i]
        BY <1>0, <1>5, <3>3
      <4>2. Within(pipe, chip.cra, i - 1, {0, pipe[i].resp})
        BY <2>1, <4>1 DEF FilterInv, RequestsFiltered
      <4> QED
        BY <1>6, <3>1, <4>1, <4>2
    <3> QED
      BY <3>2, <3>3
  <2> QED
    BY <2>1 DEF RequestsFiltered
<1>15. NoStaleFilter'
  BY <1>2 DEF FilterInv, NoStaleFilter
<1> QED
  BY <1>13, <1>14, <1>15

LEMMA ExchangeFilter ==
  ASSUME FilterInv, NextStep \/ Receive \/ Silence
  PROVE  FilterKnown' /\ RequestsFiltered' /\ NoStaleFilter'
<1>0. Typed
  BY DEF FilterInv
<1>1. ASSUME UNCHANGED <<s, link, chip, pipe, frame>>, d'.phase = d.phase, Target(d') = Target(d),
             d.ex # "ready" \/ link # "up",
             d'.resp = d.resp,
             d.phase = "address" /\ (\E k \in Unsent : d.todo[k].op = "ATCRA") /\ link = "up"
               => \E k \in Unsent' : d'.todo[k].op = "ATCRA"
      PROVE  FilterKnown' /\ RequestsFiltered' /\ NoStaleFilter'
  <2>0. link # "up" => \A V : Ends(V)
    BY DEF Ends, EndsIn
  <2>1. \A V : Ends(V) => EndsIn(pipe', chip'.cra, link', V)
    BY <1>1 DEF Ends
  <2>2. Resetting => link # "up"
    BY <1>1 DEF Resetting
  <2>3. s.addressed => EndsIn(pipe', chip'.cra, link', {0, s.resp})
    BY <2>1 DEF FilterInv, FilterKnown
  <2>4. s.craSet \/ EndsIn(pipe', chip'.cra, link', {0})
    BY <2>0, <2>1, <2>2 DEF FilterInv, FilterKnown
  <2>5. ASSUME d.phase = "address"
        PROVE  /\ Target(d)[2] # 0 => s.craSet
               /\ \/ EndsIn(pipe', chip'.cra, link', {0, Target(d)[2]})
                  \/ \E k \in Unsent' : d'.todo[k].op = "ATCRA"
    BY <1>1, <2>0, <2>1, <2>5 DEF FilterInv, FilterKnown
  <2>6. /\ d'.phase = "warm" /\ d'.ex # "ready" => EndsIn(pipe', chip'.cra, link', {0})
        /\ d'.phase \in {"close", "protocol"} => EndsIn(pipe', chip'.cra, link', {0, d'.resp})
    BY <1>1, <2>0, <2>1 DEF FilterInv, FilterKnown
  <2>7. FilterKnown'
    BY <1>1, <2>3, <2>4, <2>5, <2>6 DEF FilterKnown, Ends
  <2> QED
    BY <1>1, <2>7 DEF FilterInv, RequestsFiltered, NoStaleFilter
<1>2. CASE NextStep
  <2>1. /\ d'.phase = d.phase /\ d'.ex = "ready" /\ Target(d') = Target(d)
        /\ Len(d.todo) > 1 /\ d.todo \in Seq(StepSet) /\ Len(d'.todo) = Len(d.todo) - 1
        /\ \A k \in 1..Len(d'.todo) : d'.todo[k] = d.todo[k + 1]
        /\ UNCHANGED <<s, link, chip, pipe, frame>> /\ d.ex # "ready" /\ d'.resp = d.resp
    BY <1>0, <1>2, NextStepFacts, CallFields DEF NextStep, StepPasses, LinkKept, Typed, SameCall
  <2>2. ASSUME NEW k \in Unsent, d.todo[k].op = "ATCRA"
        PROVE  \E j \in Unsent' : d'.todo[j].op = "ATCRA"
    <3>1. Len(d.todo) \in Nat
      BY <2>1
    <3>2. k \in 2..Len(d.todo) /\ Unsent' = 1..Len(d'.todo)
      BY <2>1, <2>2 DEF Unsent
    <3>3. k - 1 \in 1..Len(d'.todo) /\ (k - 1) + 1 = k
      BY <2>1, <3>1, <3>2
    <3> QED
      BY <2>1, <2>2, <3>2, <3>3
  <2> QED
    BY <1>1, <2>1, <2>2
<1>3. CASE Receive
  <2>1. PICK kind \in Kinds : d' = [d EXCEPT !.ex = kind]
    BY <1>0, <1>3, ReceiveFacts
  <2>2. d.ex = "waiting" /\ UNCHANGED <<s, link, chip, pipe, frame>> /\ kind \in {"waiting"} \cup Outcome
    BY <1>0, <1>3, ReceiveFacts DEF Outcome
  <2>3. d'.phase = d.phase /\ d'.ex = kind /\ Target(d') = Target(d) /\ d'.todo = d.todo
        /\ d'.resp = d.resp
    BY <1>0, <2>1, <2>2, ExchangeFacts DEF SameCall
  <2>4. Unsent' = Unsent
    BY <2>2, <2>3 DEF Unsent, Kinds, Failures
  <2> QED
    BY <1>1, <2>2, <2>3, <2>4
<1>4. CASE Silence
  <2>1. d' = [d EXCEPT !.ex = "silence"] /\ UNCHANGED <<s, link, chip, pipe, frame>>
        /\ ((d.ex = "ready" /\ link # "up") \/ d.ex = "waiting")
    BY <1>4 DEF Silence
  <2>2. "silence" \in {"waiting"} \cup Outcome
    BY DEF Outcome
  <2>3. d'.phase = d.phase /\ d'.ex = "silence" /\ Target(d') = Target(d) /\ d'.todo = d.todo
        /\ d'.resp = d.resp
    BY <1>0, <2>1, <2>2, ExchangeFacts DEF SameCall
  <2>4. link = "up" => Unsent' = Unsent
    BY <2>1, <2>3 DEF Unsent
  <2>5. d.ex # "ready" \/ link # "up"
    BY <2>1
  <2>6. d.phase = "address" /\ (\E k \in Unsent : d.todo[k].op = "ATCRA") /\ link = "up"
               => \E k \in Unsent' : d'.todo[k].op = "ATCRA"
    BY <2>3, <2>4
  <2> QED
    BY <1>1, <2>1, <2>3, <2>5, <2>6
<1> QED
  BY <1>2, <1>3, <1>4

\* What a memory m may say of the filter when a phase begins with it.
Known(m) == (m.addressed => Ends({0, m.resp})) /\ (m.craSet \/ Ends({0}))

LEMMA BeganFilter ==
  ASSUME NEW phase \in Phases \ {"idle"}, NEW e \in Calls, NEW m \in Memory, Began(phase, e, m),
         phase # "reset" => FiltersKept,
         phase \notin {"reset", "address"} => Known(m),
         phase = "address" /\ Target(e)[2] = 0 => m.craSet \/ Ends({0}),
         phase \in {"close", "protocol"} => Ends({0, d'.resp})
  PROVE  FilterKnown'
<1>1. /\ d'.phase = phase /\ d'.ex = "ready" /\ d'.todo # <<>> /\ d'.todo \in Seq(StepSet)
      /\ Target(d') = Target(e) /\ Planned(phase, e, m) /\ s' = Noted(phase, e, m)
  BY CallFields DEF Began
<1>2. Unsent' = 1..Len(d'.todo)
  BY <1>1 DEF Unsent
<1>3. CASE phase = "reset"
  <2>1. ~s'.addressed /\ Resetting'
    BY <1>1, <1>3, NotedFacts DEF Forgot, Planned, Resetting
  <2> QED
    BY <1>1, <1>3, <2>1 DEF FilterKnown
<1>4. CASE phase = "address"
  <2>1. ~s'.addressed /\ s'.craSet = (m.craSet \/ Target(e)[2] # 0)
    BY <1>1, <1>4, NotedFacts
  <2>2. Ends({0}) => EndsIn(pipe', chip'.cra, link', {0})
    BY <1>4 DEF FiltersKept
  <2>3. s'.craSet \/ Ends({0})'
    BY <1>4, <2>1, <2>2 DEF Ends
  <2>4. Ends({0, Target(d)[2]})' \/ \E k \in Unsent' : d'.todo[k].op = "ATCRA"
    <3>1. CASE Target(e)[2] = 0 /\ ~m.craSet
      <4>1. EndsIn(pipe', chip'.cra, link', {0})
        BY <1>4, <2>2, <3>1
      <4>2. {0, Target(d')[2]} = {0}
        BY <1>1, <3>1
      <4> QED
        BY <4>1, <4>2 DEF Ends
    <3>2. CASE \E k \in 1..Len(d'.todo) : d'.todo[k].op = "ATCRA"
      BY <1>2, <3>2
    <3> QED
      BY <1>1, <1>4, <3>1, <3>2 DEF Planned
  <2> QED
    BY <1>1, <1>4, <2>1, <2>3, <2>4 DEF FilterKnown
<1>5. CASE phase \notin {"reset", "address"}
  <2>1. s' = m
    BY <1>1, <1>5, NotedFacts
  <2>2. PICK V \in SUBSET Nat : V = {0, m.resp} /\ 0 \in V
    <3>1. m.resp \in Nat
      BY DEF Memory
    <3>2. {0, m.resp} \in SUBSET Nat /\ 0 \in {0, m.resp}
      BY <3>1
    <3> QED
      BY <3>2
  <2>3. Ends({0}) => EndsIn(pipe', chip'.cra, link', {0})
    BY <1>5 DEF FiltersKept
  <2>4. Ends(V) => EndsIn(pipe', chip'.cra, link', V)
    BY <1>5, <2>2 DEF FiltersKept
  <2>5. s'.addressed => Ends({0, s.resp})'
    BY <1>5, <2>1, <2>2, <2>4 DEF Known, Ends
  <2>6. s'.craSet \/ Ends({0})'
    BY <1>5, <2>1, <2>3 DEF Known, Ends
  <2>7. phase \in {"close", "protocol"} => Ends({0, d.resp})'
    <3>1. d'.resp \in Nat
      BY CallFields DEF Began
    <3>2. PICK W \in SUBSET Nat : W = {0, d'.resp} /\ 0 \in W
      <4>1. {0, d'.resp} \in SUBSET Nat /\ 0 \in {0, d'.resp}
        BY <3>1
      <4> QED
        BY <4>1
    <3>3. Ends(W) => EndsIn(pipe', chip'.cra, link', W)
      BY <1>5, <3>2 DEF FiltersKept
    <3> QED
      BY <3>2, <3>3 DEF Ends
  <2> QED
    BY <1>1, <1>5, <2>5, <2>6, <2>7 DEF FilterKnown
<1> QED
  BY <1>3, <1>4, <1>5

LEMMA EndedFilter ==
  ASSUME NEW e \in Calls, NEW m \in Memory, NEW ok \in BOOLEAN, Ended(e, m, ok),
         Known(m), FiltersKept
  PROVE  FilterKnown'
<1>1. d'.phase = "idle" /\ s' = m
  BY DEF Ended
<1>2. PICK V \in SUBSET Nat : V = {0, m.resp} /\ 0 \in V
  <2>1. m.resp \in Nat
    BY DEF Memory
  <2>2. {0, m.resp} \in SUBSET Nat /\ 0 \in {0, m.resp}
    BY <2>1
  <2> QED
    BY <2>2
<1>3. Ends({0}) => EndsIn(pipe', chip'.cra, link', {0})
  BY DEF FiltersKept
<1>4. Ends(V) => EndsIn(pipe', chip'.cra, link', V)
  BY <1>2 DEF FiltersKept
<1>5. s'.addressed => Ends({0, s.resp})'
  BY <1>1, <1>2, <1>4 DEF Known, Ends
<1>6. s'.craSet \/ Ends({0})'
  BY <1>1, <1>3 DEF Known, Ends
<1> QED
  BY <1>1, <1>5, <1>6 DEF FilterKnown

LEMMA TargetsFilter ==
  ASSUME NEW m \in Memory, Targets(m), FiltersKept,
         Known(m) \/ (~m.addressed /\ (d'.resp = 0 => Ends({0})))
  PROVE  FilterKnown'
<1>1. "request" \in Phases \ {"idle"} /\ "address" \in Phases \ {"idle"}
  BY DEF Phases
<1>2. PICK f \in Calls : /\ f.why = "write"
                         /\ (Began("request", f, m) /\ m.addressed) \/ Began("address", f, m)
  BY DEF Targets
<1>3. Target(f)[2] = d'.resp
  BY <1>2 DEF Began, SameCall, Target
<1>4. CASE Began("request", f, m) /\ m.addressed
  BY <1>1, <1>4, BeganFilter
<1>5. CASE Began("address", f, m)
  <2>1. Target(f)[2] = 0 => m.craSet \/ Ends({0})
    BY <1>3 DEF Known
  <2> QED
    BY <1>1, <1>5, <2>1, BeganFilter
<1> QED
  BY <1>2, <1>4, <1>5

LEMMA LinkFilter ==
  ASSUME FilterInv, UNCHANGED frame, LinkKept \/ LinkUp \/ LinkClosed
  PROVE  /\ RequestsFiltered' /\ NoStaleFilter'
         /\ LinkKept \/ LinkClosed => FiltersKept
<1>1. NoStaleFilter'
  BY DEF FilterInv, NoStaleFilter
<1>2. LinkKept => RequestsFiltered'
  BY DEF FilterInv, RequestsFiltered, LinkKept
<1>3. pipe' = <<>> => RequestsFiltered'
  <2>1. \A i \in 1..Len(<<>>) : FALSE
    OBVIOUS
  <2> QED
    BY <2>1 DEF RequestsFiltered
<1>4. LinkClosed => FiltersKept
  BY DEF LinkClosed, FiltersKept, EndsIn
<1>5. LinkKept => FiltersKept
  BY DEF LinkKept, FiltersKept, Ends
<1> QED
  BY <1>1, <1>2, <1>3, <1>4, <1>5 DEF LinkUp, LinkClosed

LEMMA CallsFilter ==
  ASSUME FilterInv, CallMoves
  PROVE  FilterKnown' /\ RequestsFiltered' /\ NoStaleFilter'
<1>0. d \in Calls /\ s \in Memory /\ d.phase \in Phases
  BY CallFields DEF FilterInv, Typed
<1>1. {"reset", "setup", "address", "close", "protocol", "warm", "request", "volt", "sleep"}
        = Phases \ {"idle"} /\ Forgot \in Memory
  BY DEF Phases, Forgot, Memory
<1>2. UNCHANGED frame
  BY DEF CallMoves, OpenDevice, CloseDevice, ReadVoltage, Write, PhaseDone, PhaseFails, Asleep,
         Answered
<1>3. d.phase # "reset" \/ d.ex # "ready" => Known(s)
  BY DEF FilterInv, FilterKnown, Resetting, Known
<1>4. CASE OpenDevice
  <2>1. CASE LinkUp /\ \E e \in Calls : ~e.lost /\ Began("reset", e, Forgot)
    BY <1>1, <1>2, <2>1, LinkFilter, BeganFilter
  <2>2. CASE LinkClosed /\ UNCHANGED <<s, d>>
    BY <1>2, <2>2, LinkFilter, KnownKept DEF FilterInv
  <2> QED
    BY <1>0, <1>4, <2>1, <2>2, OpenMoves
<1>5. CASE CloseDevice \/ ReadVoltage \/ \E req, resp \in Nat : Write(req, resp)
  <2>0. LinkKept /\ d.phase = "idle"
    BY <1>0, <1>5, IdleMoves
  <2>1. Known(s) /\ FiltersKept /\ RequestsFiltered' /\ NoStaleFilter'
    BY <1>2, <1>3, <2>0, LinkFilter
  <2>2. CASE \E e \in Calls : Began("sleep", e, s) \/ Began("volt", e, s)
    BY <1>0, <1>1, <2>1, <2>2, BeganFilter
  <2>3. CASE Targets(s)
    BY <1>0, <2>1, <2>3, TargetsFilter
  <2> QED
    BY <1>0, <1>5, <2>1, <2>2, <2>3, IdleMoves
<1>6. CASE PhaseDone
  <2>1. PICK m \in Memory : m = Learnt(d.phase, d, s)
    BY <1>0, MemoryFacts
  <2>2. /\ LinkKept /\ Steps /\ StepPasses /\ Len(d.todo) = 1
        /\ d'.phase = "idle" \/ d'.resp = d.resp
        /\ \/ d.phase \in {"reset", "warm"} /\ Began("setup", d, m)
           \/ d.phase = "setup" /\ Began("address", d, m)
           \/ d.phase = "close" /\ Began("protocol", d, m)
           \/ d.phase = "address" /\ Began("request", d, m)
           \/ d.phase \in {"address", "volt"}
                /\ \E e \in Calls : e.lost = d.lost /\ Ended(e, m, TRUE)
           \/ Targets(m)
    BY <1>0, <1>6, <2>1, DoneMoves
  <2>3. d.ex \notin {"ready", "waiting"}
    BY <2>2 DEF StepPasses
  <2>4. FiltersKept /\ RequestsFiltered' /\ NoStaleFilter'
    BY <1>2, <2>2, LinkFilter
  <2>5. d.phase # "protocol" => Known(m)
    <3>1. CASE d.phase = "address"
      <4>1. m.resp = Target(d)[2] /\ m.craSet = (s.craSet /\ Target(d)[2] # 0)
        BY <1>0, <2>1, <3>1, MemoryFacts
      <4>2. Unsent = {}
        BY <2>2, <2>3 DEF Unsent
      <4>3. Ends({0, Target(d)[2]})
        BY <3>1, <4>2 DEF FilterInv, FilterKnown
      <4>4. Target(d)[2] = 0 => {0, Target(d)[2]} = {0}
        OBVIOUS
      <4> QED
        BY <1>3, <2>3, <4>1, <4>3, <4>4 DEF Known
    <3>2. CASE d.phase = "warm"
      <4>1. Ends({0})
        BY <2>3, <3>2 DEF FilterInv, FilterKnown
      <4>2. ~m.addressed
        BY <1>0, <2>1, <3>2, MemoryFacts
      <4> QED
        BY <4>1, <4>2 DEF Known
    <3>3. CASE d.phase = "close"
      <4>1. ~m.addressed /\ m.craSet = s.craSet
        BY <1>0, <2>1, <3>3, MemoryFacts
      <4> QED
        BY <1>3, <2>3, <4>1 DEF Known
    <3>4. CASE d.phase \notin {"address", "close", "protocol", "warm"}
      <4>1. m = s
        BY <1>0, <2>1, <3>4, MemoryFacts
      <4> QED
        BY <1>3, <2>3, <4>1
    <3> QED
      BY <3>1, <3>2, <3>3, <3>4
  <2>6. CASE \/ d.phase \in {"reset", "warm"} /\ Began("setup", d, m)
             \/ d.phase = "address" /\ Began("request", d, m)
    BY <1>0, <1>1, <2>4, <2>5, <2>6, BeganFilter
  <2>7. CASE d.phase = "setup" /\ Began("address", d, m)
    <3>1. m.craSet \/ Ends({0})
      BY <2>5, <2>7 DEF Known
    <3> QED
      BY <1>0, <1>1, <2>4, <2>7, <3>1, BeganFilter
  <2>8. CASE d.phase = "close" /\ Began("protocol", d, m)
    <3>1. d'.resp = d.resp
      BY <2>8 DEF Began, SameCall
    <3>2. Ends({0, d'.resp})
      BY <2>8, <3>1 DEF FilterInv, FilterKnown
    <3> QED
      BY <1>0, <1>1, <2>4, <2>5, <2>8, <3>2, BeganFilter
  <2>9. CASE d.phase \in {"address", "volt"}
               /\ \E e \in Calls : e.lost = d.lost /\ Ended(e, m, TRUE)
    BY <2>4, <2>5, <2>9, EndedFilter
  <2>10. CASE Targets(m)
    <3>1. CASE d.phase = "protocol"
      <4>1. ~m.addressed
        BY <1>0, <2>1, <3>1, MemoryFacts DEF FilterInv, Remembers
      <4>2. d'.phase # "idle"
        BY <2>10 DEF Targets, Began
      <4>3. Ends({0, d.resp})
        BY <3>1 DEF FilterInv, FilterKnown
      <4>4. d'.resp = 0 => {0, d.resp} = {0}
        BY <2>2, <4>2
      <4>5. d'.resp = 0 => Ends({0})
        BY <4>3, <4>4
      <4> QED
        BY <2>4, <2>10, <4>1, <4>5, TargetsFilter
    <3>2. CASE d.phase # "protocol"
      BY <2>4, <2>5, <2>10, <3>2, TargetsFilter
    <3> QED
      BY <3>1, <3>2
  <2> QED
    BY <2>2, <2>4, <2>6, <2>7, <2>8, <2>9, <2>10
<1>7. CASE PhaseFails
  <2>1. PICK m \in Memory : m = Doubted(d.phase, s)
    BY <1>0, MemoryFacts
  <2>2. /\ StepFails
        /\ \/ Began("sleep", d, m) /\ LinkKept
           \/ \E e \in Calls : e.lost = d.lost /\ Began("reset", e, Forgot) /\ LinkUp
           \/ Ended(d, m, FALSE) /\ (LinkKept \/ LinkClosed)
    BY <1>0, <1>7, <2>1, FailMoves
  <2>3. d.ex # "ready"
    BY <2>2 DEF StepFails, Failures
  <2>4. Known(m)
    <3>1. m.craSet = s.craSet /\ m.resp = s.resp /\ (m.addressed => s.addressed)
      BY <1>0, <2>1, MemoryFacts
    <3> QED
      BY <1>3, <2>3, <3>1 DEF Known
  <2>5. CASE Began("sleep", d, m) /\ LinkKept
    BY <1>0, <1>1, <1>2, <2>4, <2>5, LinkFilter, BeganFilter
  <2>6. CASE \E e \in Calls : e.lost = d.lost /\ Began("reset", e, Forgot) /\ LinkUp
    BY <1>1, <1>2, <2>6, LinkFilter, BeganFilter
  <2>7. CASE Ended(d, m, FALSE) /\ (LinkKept \/ LinkClosed)
    BY <1>0, <1>2, <2>4, <2>7, LinkFilter, EndedFilter
  <2> QED
    BY <2>2, <2>5, <2>6, <2>7
<1>8. CASE Asleep
  <2>1. d.phase = "sleep"
    BY <1>8 DEF Asleep
  <2>2. PICK e \in Calls : LinkClosed /\ Ended(e, s, TRUE)
    BY <1>0, <1>8, AsleepMoves
  <2> QED
    BY <1>0, <1>2, <1>3, <2>1, <2>2, LinkFilter, EndedFilter
<1>9. CASE Answered
  <2>1. /\ LinkKept /\ d.phase = "request"
        /\ d'.phase = "idle" \/ d'.resp = d.resp
        /\ \/ Ended(d, s, TRUE) \/ Ended(d, s, FALSE)
           \/ \E e \in Calls : Began("close", e, s) \/ Began("warm", e, s) \/ Began("reset", e, s)
    BY <1>0, <1>9, AnsweredMoves
  <2>2. Known(s) /\ FiltersKept /\ RequestsFiltered' /\ NoStaleFilter'
    BY <1>2, <1>3, <2>1, LinkFilter
  <2>3. CASE Ended(d, s, TRUE) \/ Ended(d, s, FALSE)
    BY <1>0, <2>2, <2>3, EndedFilter
  <2>4. CASE \E e \in Calls : Began("close", e, s) \/ Began("warm", e, s) \/ Began("reset", e, s)
    <3>1. d'.resp = d.resp
      BY <2>1, <2>4 DEF Began
    <3>2. Ends({0, d'.resp})
      BY <2>1, <3>1 DEF FilterInv, FilterKnown, Remembers
    <3> QED
      BY <1>0, <1>1, <2>2, <2>4, <3>2, BeganFilter
  <2> QED
    BY <2>1, <2>2, <2>3, <2>4
<1> QED
  BY <1>4, <1>5, <1>6, <1>7, <1>8, <1>9 DEF CallMoves

LEMMA InitFilter == Init => FilterInv
<1> SUFFICES ASSUME Init PROVE FilterInv
  OBVIOUS
<1>1. link # "up" /\ d.phase = "idle" /\ pipe = <<>> /\ frame.cra = 0
  BY DEF Init, Idle
<1>2. \A V : Ends(V)
  BY <1>1 DEF Ends, EndsIn
<1> QED
  BY <1>1, <1>2, InitTyped DEF FilterInv, FilterKnown, RequestsFiltered, NoStaleFilter

LEMMA FilterInductive ==
  ASSUME Obedient, FilterInv, [Next]_vars
  PROVE  FilterInv'
<1>1. Typed' /\ Remembers'
  BY TypedInductive DEF FilterInv
<1>2. CASE Next
  BY <1>1, <1>2, NextMoves, CallsFilter, ExchangeFilter, SendFilter, AdapterFilter DEF FilterInv
<1>3. CASE UNCHANGED vars
  <2>1. FiltersKept
    BY <1>3 DEF vars, FiltersKept, Ends
  <2>2. FilterKnown'
    BY <1>3, <2>1, KnownKept DEF vars, FilterInv
  <2> QED
    BY <1>1, <1>3, <2>2 DEF vars, FilterInv, RequestsFiltered, NoStaleFilter
<1> QED
  BY <1>2, <1>3

\* NoStaleFilter, of every adapter that obeys its resets and its filter
\* commands, and whatever else it rejects: no broken link, late answer, reset or
\* failed call leaves it filtering for a responder other than the one whose
\* answer is wanted.
THEOREM NeverStale ==
  ASSUME Obedient
  PROVE  Spec => []NoStaleFilter
<1>1. FilterInv => NoStaleFilter
  BY DEF FilterInv
<1>2. FilterInv /\ [Next]_vars => FilterInv'
  BY FilterInductive
<1> QED
  BY <1>1, <1>2, InitFilter, PTL DEF Spec

----------------------------------------------------------------------------
\* AddressedUntilLost is inductive with InStep and HeadersKnown

LEMMA HeadFacts ==
  ASSUME Typed, d.phase # "idle"
  PROVE  /\ Len(d.todo) \in Nat \ {0} /\ Head(d.todo) = d.todo[1] /\ Head(d.todo) \in StepSet
         /\ Suits(d, Head(d.todo)) /\ Current.op = Head(d.todo).op
         /\ Current.op = "REQ" <=> d.phase = "request"
<1>1. PICK todo : todo = d.todo
  OBVIOUS
<1>2. todo \in Seq(StepSet) /\ todo # <<>>
  BY <1>1, CallFields DEF Typed
<1>3. Len(todo) \in Nat \ {0} /\ Head(todo) = todo[1] /\ Head(todo) \in StepSet /\ 1 \in 1..Len(todo)
  BY <1>2
<1>4. Suits(d, Head(d.todo))
  BY <1>1, <1>3 DEF Typed, Fits
<1>5. Current.op = Head(d.todo).op
  BY DEF Current
<1> QED
  BY <1>1, <1>3, <1>4, <1>5 DEF Suits

\* A phase begins, a call ends, with nothing left in flight.
HeadersOf(m) == link' = "up" /\ m.addressed => chip'.hdr = m.req /\ chip'.fch = m.req

LEMMA BeganHeaders ==
  ASSUME NEW phase \in Phases \ {"idle"}, NEW e \in Calls, NEW m \in Memory, Began(phase, e, m),
         phase # "sleep" => pipe' = <<>> /\ air' = <<>>,
         phase = "sleep" => \A i \in 1..Len(pipe') : pipe'[i].op # "REQ",
         phase \in {"request", "volt"} => HeadersOf(m)
  PROVE  InStep' /\ HeadersKnown'
<1>1. d'.phase = phase /\ d'.ex = "ready" /\ s' = Noted(phase, e, m)
  BY DEF Began
<1>2. InStep'
  BY <1>1 DEF InStep, Kinds, Failures
<1>3. HeadersKnown'
  <2>1. CASE phase = "address"
    <3>1. /\ \E k \in 1..Len(d'.todo) : d'.todo[k].op = "ATSH"
          /\ \E k \in 1..Len(d'.todo) : d'.todo[k].op = "ATFCSH"
      BY <2>1 DEF Began, Planned
    <3>2. ~Executed("ATSH")' /\ ~Executed("ATFCSH")'
      BY <1>1, <3>1 DEF Executed
    <3> QED
      BY <1>1, <2>1, <3>2 DEF HeadersKnown
  <2>2. CASE phase # "address"
    <3>1. phase \in {"request", "volt"} => s' = m
      BY <1>1, NotedFacts
    <3> QED
      BY <1>1, <2>2, <3>1 DEF HeadersKnown, HeadersOf
  <2> QED
    BY <2>1, <2>2
<1> QED
  BY <1>2, <1>3

LEMMA EndedHeaders ==
  ASSUME NEW e \in Calls, NEW m \in Memory, NEW ok \in BOOLEAN, Ended(e, m, ok),
         pipe' = <<>> /\ air' = <<>>, HeadersOf(m)
  PROVE  InStep' /\ HeadersKnown'
<1>1. d'.phase = "idle" /\ d'.ex = "ready" /\ s' = m
  BY DEF Ended
<1> QED
  BY <1>1 DEF InStep, Kinds, Failures, HeadersKnown, HeadersOf

LEMMA TargetsHeaders ==
  ASSUME NEW m \in Memory, Targets(m), pipe' = <<>> /\ air' = <<>>, HeadersOf(m)
  PROVE  InStep' /\ HeadersKnown'
<1>1. "request" \in Phases \ {"idle"} /\ "address" \in Phases \ {"idle"}
  BY DEF Phases
<1>2. PICK f \in Calls : Began("request", f, m) \/ Began("address", f, m)
  BY DEF Targets
<1> QED
  BY <1>1, <1>2, BeganHeaders

\* A step that passes leaves a mannered adapter with what the step asked for.
LEMMA Passed ==
  ASSUME Mannered, Typed, InStep, Steps, StepPasses, d.phase \in {"address", "volt"}
  PROVE  /\ Alive
         /\ Head(d.todo).op \in {"ATSH", "ATFCSH"} => d.ex = "ok"
<1>1. Suits(d, Head(d.todo)) /\ d.ex \notin {"ready", "waiting", "silence"}
      /\ ~(Head(d.todo).required /\ d.ex \in Failures)
  BY HeadFacts DEF StepPasses, StepFails
<1>2. d.ex \in Kinds
  BY <1>1, CallFields DEF Typed, Outcome
<1>3. PICK op : op = Head(d.todo).op
  OBVIOUS
<1>4. op # "REQ" /\ (op \in AddressingOps \/ op = "ATRV")
  BY <1>1, <1>3 DEF Suits
<1>5. d.ex = "ok" \/ (d.ex = "?" /\ op \in Rejects) \/ (d.ex = "lv" /\ <<"lvreset", op>> \in Faults)
  BY <1>2, <1>3, <1>4 DEF InStep, MayAnswer
<1>6. op \in {"ATFCSH", "ATFCSD", "ATRV"} => d.ex = "ok"
  BY <1>1, <1>3, <1>5 DEF Suits, Failures
<1>7. op \in {"ATSH", "ATCRA", "ATFCSM1"} => d.ex # "lv"
  BY <1>5 DEF Mannered
<1>8. op = "ATSH" => d.ex = "ok"
  BY <1>5, <1>7 DEF Mannered
<1>9. d.ex # "lv"
  BY <1>4, <1>6, <1>7 DEF AddressingOps
<1> QED
  BY <1>1, <1>3, <1>6, <1>8, <1>9 DEF Alive

LEMMA NextStepHeaders ==
  ASSUME Mannered, Typed, InStep, HeadersKnown, NextStep
  PROVE  InStep' /\ HeadersKnown'
<1>1. /\ Steps /\ StepPasses /\ d'.phase = d.phase /\ d'.ex = "ready"
      /\ \A k \in 1..Len(d'.todo) : k + 1 \in 1..Len(d.todo) /\ d'.todo[k] = d.todo[k + 1]
      /\ Target(d') = Target(d) /\ s' = s /\ LinkKept /\ Len(d'.todo) = Len(d.todo) - 1
      /\ d.todo \in Seq(StepSet)
  BY NextStepFacts, CallFields DEF Typed
<1>2. d.phase \notin {"idle", "request", "sleep"} /\ d.ex \notin {"ready", "waiting", "silence"}
  BY <1>1 DEF Steps, StepPasses, StepFails
<1>3. pipe' = <<>> /\ air' = <<>>
  BY <1>1, <1>2 DEF InStep, LinkKept
<1>4. InStep'
  BY <1>1, <1>2, <1>3 DEF InStep, Kinds, Failures
<1>5. CASE d.phase \in {"address", "volt"}
  <2>1. Alive /\ (Head(d.todo).op \in {"ATSH", "ATFCSH"} => d.ex = "ok")
    BY <1>1, <1>5, Passed
  <2>2. ASSUME NEW op \in {"ATSH", "ATFCSH"}, Executed(op)'
        PROVE  Executed(op)
    <3>1. \A k \in 1..Len(d'.todo) : d'.todo[k].op # op
      BY <1>1, <2>2 DEF Executed
    <3>2. ASSUME NEW k \in 1..Len(d.todo), d.todo[k].op = op
          PROVE  k = 1
      <4>1. Len(d.todo) \in Nat
        BY <1>1
      <4>2. CASE k > 1
        <5>1. k - 1 \in 1..Len(d'.todo) /\ (k - 1) + 1 = k
          BY <1>1, <4>1, <4>2
        <5> QED
          BY <1>1, <3>1, <3>2, <5>1
      <4> QED
        BY <4>1, <4>2
    <3>3. Head(d.todo) = d.todo[1]
      BY <1>2, HeadFacts
    <3>4. 1 \in 1..Len(d.todo) /\ d.todo[1].op = op => d.ex = "ok"
      BY <2>1, <3>3
    <3> QED
      BY <3>2, <3>4 DEF Executed
  <2>3. UNCHANGED <<link, chip, s>>
    BY <1>1 DEF LinkKept
  <2>4. Executed("ATSH")' => Executed("ATSH")
    BY <2>2
  <2>5. Executed("ATFCSH")' => Executed("ATFCSH")
    BY <2>2
  <2> QED
    BY <1>1, <1>4, <1>5, <2>1, <2>3, <2>4, <2>5 DEF HeadersKnown
<1>6. CASE d.phase \notin {"address", "volt"}
  BY <1>1, <1>2, <1>4, <1>6 DEF HeadersKnown
<1> QED
  BY <1>5, <1>6

LEMMA DoneHeaders ==
  ASSUME Mannered, Typed, Remembers, InStep, HeadersKnown, PhaseDone
  PROVE  InStep' /\ HeadersKnown'
<1>0. d \in Calls /\ s \in Memory /\ d.phase \in Phases
  BY CallFields DEF Typed
<1>1. {"setup", "address", "protocol", "request"} \subseteq Phases \ {"idle"}
  BY DEF Phases
<1>2. PICK m \in Memory : m = Learnt(d.phase, d, s)
  BY <1>0, MemoryFacts
<1>3. /\ Steps /\ StepPasses /\ Len(d.todo) = 1 /\ LinkKept
      /\ \/ d.phase \in {"reset", "warm"} /\ Began("setup", d, m)
         \/ d.phase = "setup" /\ Began("address", d, m)
         \/ d.phase = "close" /\ Began("protocol", d, m)
         \/ d.phase = "address" /\ d.why = "write" /\ Began("request", d, m)
         \/ d.phase \in {"address", "volt"}
              /\ \E e \in Calls : e.lost = d.lost /\ Ended(e, m, TRUE)
         \/ d.phase \in {"setup", "protocol", "address"} /\ Targets(m)
  BY <1>0, <1>2, DoneMoves
<1>4. d.phase \notin {"idle", "request", "sleep"} /\ d.ex \notin {"ready", "waiting", "silence"}
  BY <1>3 DEF Steps, StepPasses, StepFails
<1>5. pipe' = <<>> /\ air' = <<>> /\ UNCHANGED <<link, chip>>
  BY <1>3, <1>4 DEF InStep, LinkKept
<1>6. d.phase = "address" => HeadersOf(m)
  <2>1. SUFFICES ASSUME d.phase = "address" PROVE HeadersOf(m)
    OBVIOUS
  <2>2. Alive /\ (Head(d.todo).op \in {"ATSH", "ATFCSH"} => d.ex = "ok")
    BY <1>3, <2>1, Passed
  <2>3. Head(d.todo) = d.todo[1]
    BY <1>4, HeadFacts
  <2>4. \A k \in 1..Len(d.todo) : k = 1
    BY <1>3
  <2>5. Executed("ATSH") /\ Executed("ATFCSH")
    BY <2>2, <2>3, <2>4 DEF Executed
  <2>6. m.req = Target(d)[1]
    BY <1>0, <1>2, <2>1, MemoryFacts
  <2> QED
    BY <1>5, <2>1, <2>2, <2>5, <2>6 DEF HeadersKnown, HeadersOf
<1>7. d.phase = "volt" => HeadersOf(m)
  <2>1. SUFFICES ASSUME d.phase = "volt" PROVE HeadersOf(m)
    OBVIOUS
  <2>2. Alive
    BY <1>3, <2>1, Passed
  <2>3. m = s
    BY <1>0, <1>2, <2>1, MemoryFacts
  <2> QED
    BY <1>5, <2>1, <2>2, <2>3 DEF HeadersKnown, HeadersOf
<1>8. d.phase \in {"setup", "protocol"} => HeadersOf(m)
  <2>1. d.phase \in {"setup", "protocol"} => m.addressed = s.addressed
    BY <1>0, <1>2, MemoryFacts
  <2> QED
    BY <2>1 DEF Remembers, HeadersOf
<1>9. CASE \/ d.phase \in {"reset", "warm"} /\ Began("setup", d, m)
           \/ d.phase = "setup" /\ Began("address", d, m)
           \/ d.phase = "close" /\ Began("protocol", d, m)
           \/ d.phase = "address" /\ d.why = "write" /\ Began("request", d, m)
  BY <1>0, <1>1, <1>5, <1>6, <1>9, BeganHeaders
<1>10. CASE d.phase \in {"address", "volt"} /\ \E e \in Calls : e.lost = d.lost /\ Ended(e, m, TRUE)
  BY <1>5, <1>6, <1>7, <1>10, EndedHeaders
<1>11. CASE d.phase \in {"setup", "protocol", "address"} /\ Targets(m)
  BY <1>5, <1>6, <1>8, <1>11, TargetsHeaders
<1> QED
  BY <1>3, <1>9, <1>10, <1>11

\* The other actions that begin a phase or end a call: unless the call is lost.
LEMMA CallsHeaders ==
  ASSUME Mannered, Typed, Remembers, ~d.lost => InStep /\ HeadersKnown, CallMoves, ~d'.lost
  PROVE  InStep' /\ HeadersKnown'
<1>0. d \in Calls /\ s \in Memory /\ d.phase \in Phases
  BY CallFields DEF Typed
<1>1. {"reset", "setup", "address", "close", "protocol", "warm", "request", "volt", "sleep"}
        = Phases \ {"idle"} /\ Forgot \in Memory
  BY DEF Phases, Forgot, Memory
<1>2. \A m : link' # "up" => HeadersOf(m)
  BY DEF HeadersOf
<1>3. CASE OpenDevice
  <2>1. CASE LinkUp /\ \E e \in Calls : ~e.lost /\ Began("reset", e, Forgot)
    BY <1>1, <2>1, BeganHeaders DEF LinkUp
  <2>2. CASE LinkClosed /\ UNCHANGED <<s, d>>
    <3>1. d'.phase = "idle" /\ d'.ex = "ready" /\ pipe' = <<>> /\ air' = <<>> /\ link' # "up"
      BY <1>3, <2>2 DEF OpenDevice, Typed, LinkClosed
    <3> QED
      BY <3>1 DEF InStep, HeadersKnown, Kinds, Failures
  <2> QED
    BY <1>0, <1>3, <2>1, <2>2, OpenMoves
<1>4. CASE CloseDevice \/ ReadVoltage \/ \E req, resp \in Nat : Write(req, resp)
  <2>1. /\ d.phase = "idle" /\ LinkKept
        /\ \/ \E e \in Calls : e.lost = d.lost /\ (Began("sleep", e, s) \/ Began("volt", e, s))
           \/ Targets(s)
    BY <1>0, <1>4, IdleMoves
  <2>2. d.ex = "ready"
    BY <2>1 DEF Typed
  <2>3. ~d.lost
    BY <2>1 DEF Targets, Began, SameCall
  <2>4. pipe' = <<>> /\ air' = <<>> /\ UNCHANGED <<link, chip>>
    BY <2>1, <2>2, <2>3 DEF InStep, LinkKept
  <2>5. HeadersOf(s)
    BY <2>1, <2>2, <2>3, <2>4 DEF HeadersKnown, Alive, HeadersOf
  <2>6. \A i \in 1..Len(pipe') : FALSE
    <3>1. \A i \in 1..Len(<<>>) : FALSE
      OBVIOUS
    <3> QED
      BY <2>4, <3>1
  <2>7. CASE \E e \in Calls : e.lost = d.lost /\ (Began("sleep", e, s) \/ Began("volt", e, s))
    BY <1>0, <1>1, <2>4, <2>5, <2>6, <2>7, BeganHeaders
  <2>8. CASE Targets(s)
    BY <1>0, <2>4, <2>5, <2>8, TargetsHeaders
  <2> QED
    BY <2>1, <2>7, <2>8
<1>5. CASE PhaseDone
  <2>1. ~d.lost
    <3>1. PICK m \in Memory : m = Learnt(d.phase, d, s)
      BY <1>0, MemoryFacts
    <3>2. \/ Began("setup", d, m) \/ Began("address", d, m) \/ Began("protocol", d, m)
          \/ Began("request", d, m)
          \/ \E e \in Calls : e.lost = d.lost /\ Ended(e, m, TRUE)
          \/ Targets(m)
      BY <1>0, <1>5, <3>1, DoneMoves
    <3> QED
      BY <3>2 DEF Targets, Began, SameCall, Ended
  <2> QED
    BY <1>5, <2>1, DoneHeaders
<1>6. CASE PhaseFails
  <2>1. PICK m \in Memory : m = Doubted(d.phase, s)
    BY <1>0, MemoryFacts
  <2>2. /\ Steps /\ StepFails
        /\ \/ Began("sleep", d, m) /\ LinkKept
           \/ \E e \in Calls : e.lost = d.lost /\ Began("reset", e, Forgot) /\ LinkUp
           \/ Ended(d, m, FALSE)
    BY <1>0, <1>6, <2>1, FailMoves
  <2>3. CASE Began("sleep", d, m) /\ LinkKept
    <3>1. ~d.lost
      BY <2>3 DEF Began, SameCall
    <3>2. d.phase \notin {"idle", "request", "sleep"}
      BY <2>2 DEF Steps
    <3>3. Current.op # "REQ"
      BY <3>2, HeadFacts
    <3>4. pipe = <<>> \/ pipe = <<Current>>
      BY <3>1, <3>2 DEF InStep
    <3>5. \A i \in 1..Len(pipe') : pipe'[i].op # "REQ"
      <4>1. PICK c : c = Current
        OBVIOUS
      <4>2. pipe' = <<>> \/ pipe' = <<c>>
        BY <2>3, <3>4, <4>1 DEF LinkKept
      <4> QED
        BY <3>3, <4>1, <4>2
    <3> QED
      BY <1>0, <1>1, <2>3, <3>5, BeganHeaders
  <2>4. CASE \E e \in Calls : e.lost = d.lost /\ Began("reset", e, Forgot) /\ LinkUp
    BY <1>1, <2>4, BeganHeaders DEF LinkUp
  <2>5. CASE Ended(d, m, FALSE)
    BY <2>5 DEF Ended
  <2> QED
    BY <2>2, <2>3, <2>4, <2>5
<1>7. CASE Asleep
  <2>1. PICK e \in Calls : LinkClosed /\ Ended(e, s, TRUE)
    BY <1>0, <1>7, AsleepMoves
  <2>2. pipe' = <<>> /\ air' = <<>> /\ HeadersOf(s)
    BY <1>2, <2>1 DEF LinkClosed
  <2> QED
    BY <1>0, <2>1, <2>2, EndedHeaders
<1>8. CASE Answered
  <2>1. /\ d.phase = "request" /\ LinkKept
        /\ \/ d.ex \in {"data", "ok", "nodata", "?"} /\ Ended(d, s, TRUE)
           \/ Ended(d, s, FALSE)
           \/ \E e \in Calls : e.lost = d.lost /\
                \/ d.ex = "bus" /\ Began("close", e, s)
                \/ d.ex = "warm" /\ Began("warm", e, s)
                \/ d.ex \in {"lv", "silence"} /\ Began("reset", e, s)
    BY <1>0, <1>8, AnsweredMoves
  <2>2. ~d.lost
    BY <2>1 DEF Began, SameCall, Ended
  <2>3. ~Ended(d, s, FALSE)
    BY DEF Ended
  <2>4. d.ex # "waiting"
    BY <2>1, <2>3
  <2>5. pipe' = <<>> /\ air' = <<>> /\ UNCHANGED <<link, chip>>
    BY <2>1, <2>2, <2>4 DEF InStep, LinkKept
  <2>6. CASE d.ex \in {"data", "ok", "nodata", "?"} /\ Ended(d, s, TRUE)
    <3>1. HeadersOf(s)
      BY <2>1, <2>2, <2>5, <2>6 DEF HeadersKnown, Alive, HeadersOf
    <3> QED
      BY <1>0, <2>5, <2>6, <3>1, EndedHeaders
  <2>7. CASE \E e \in Calls : Began("close", e, s) \/ Began("warm", e, s) \/ Began("reset", e, s)
    BY <1>0, <1>1, <2>5, <2>7, BeganHeaders
  <2> QED
    BY <2>1, <2>3, <2>6, <2>7
<1> QED
  BY <1>3, <1>4, <1>5, <1>6, <1>7, <1>8 DEF CallMoves

LEMMA SameCurrent ==
  ASSUME d'.todo = d.todo, SameCall(d)
  PROVE  Current' = Current /\ Head(d'.todo).op = Head(d.todo).op
BY DEF Current, SameCall

LEMMA ExchangeHeaders ==
  ASSUME Mannered, Typed, Remembers, InStep, HeadersKnown, Send \/ Receive \/ Silence
  PROVE  InStep' /\ HeadersKnown'
<1>1. CASE Send
  <2>1. /\ d.phase # "idle" /\ d.ex = "ready" /\ link = "up" /\ UNCHANGED <<s, link, chip>>
        /\ d' = [d EXCEPT !.ex = "waiting"] /\ pipe' = Append(pipe, Current)
        /\ \E k \in 0..Len(air) : air' = SubSeq(air, k + 1, Len(air))
    BY <1>1, SendFacts
  <2>2. /\ d'.phase = d.phase /\ d'.ex = "waiting" /\ d'.todo = d.todo /\ SameCall(d)
        /\ Target(d') = Target(d)
    BY <2>1, ExchangeFacts
  <2>3. Current' = Current
    BY <2>2, SameCurrent
  <2>4. CASE d.phase # "sleep"
    <3>1. pipe = <<>> /\ air = <<>>
      BY <2>1, <2>4 DEF InStep
    <3>2. PICK c : c = Current
      OBVIOUS
    <3>3. pipe' = <<c>> /\ air' = <<>>
      BY <2>1, <3>1, <3>2
    <3>4. InStep'
      BY <2>2, <2>3, <2>4, <3>2, <3>3 DEF InStep, Kinds, Failures
    <3>5. Alive
      BY <2>1 DEF Alive
    <3>6. ASSUME NEW op, Executed(op)'
          PROVE  Executed(op)
      BY <2>2, <3>3, <3>6 DEF Executed
    <3> QED
      BY <2>1, <2>2, <3>4, <3>5, <3>6 DEF HeadersKnown
  <2>5. CASE d.phase = "sleep"
    <3>1. Current.op # "REQ"
      BY <2>5, HeadFacts
    <3>2. \A i \in 1..Len(pipe) : pipe[i].op # "REQ"
      BY <2>5 DEF InStep
    <3>3. PICK c : c = Current
      OBVIOUS
    <3>4. pipe \in Seq(CommandSet) /\ pipe' = Append(pipe, c)
      BY <2>1, <3>3 DEF Typed
    <3>5. \A i \in 1..Len(pipe') : pipe'[i] = c \/ (i \in 1..Len(pipe) /\ pipe'[i] = pipe[i])
      BY <3>4
    <3>6. \A i \in 1..Len(pipe') : pipe'[i].op # "REQ"
      BY <3>1, <3>2, <3>3, <3>5
    <3> QED
      BY <2>2, <2>5, <3>6 DEF InStep, HeadersKnown
  <2> QED
    BY <2>4, <2>5
<1>2. CASE Receive
  <2>0. PICK kind \in Kinds : d' = [d EXCEPT !.ex = kind] /\ kind = Head(air).kind
    BY <1>2, ReceiveFacts
  <2>1. /\ d.ex = "waiting" /\ air # <<>> /\ air' = Tail(air) /\ air \in Seq(AnswerSet)
        /\ UNCHANGED <<s, link, chip, pipe>> /\ kind \in {"waiting"} \cup Outcome
    BY <1>2, ReceiveFacts DEF Typed, Outcome
  <2>2. /\ d'.phase = d.phase /\ d'.ex = kind /\ d'.todo = d.todo /\ SameCall(d)
        /\ Target(d') = Target(d)
    BY <2>0, <2>1, ExchangeFacts
  <2>3. Current' = Current /\ Head(d'.todo).op = Head(d.todo).op /\ kind \notin {"ready", "waiting", "silence"}
    BY <2>2, SameCurrent DEF Kinds, Failures
  <2>4. CASE d.phase # "sleep"
    <3>1. pipe = <<>> /\ Len(air) = 1 /\ MayAnswer(Head(d.todo).op, air[1].kind)
      BY <2>1, <2>4 DEF InStep
    <3>2. air' = <<>> /\ air[1].kind = kind
      BY <2>0, <2>1, <3>1
    <3>3. InStep'
      BY <2>1, <2>2, <2>3, <2>4, <3>1, <3>2 DEF InStep
    <3>4. Alive' => Alive
      BY <2>1, <2>2, <2>3, <3>2 DEF Alive
    <3>5. ASSUME NEW op, Executed(op)'
          PROVE  Executed(op)
      BY <2>1, <2>2, <2>3, <3>2, <3>5 DEF Executed
    <3> QED
      BY <2>1, <2>2, <3>3, <3>4, <3>5 DEF HeadersKnown
  <2>5. CASE d.phase = "sleep"
    BY <2>1, <2>2, <2>5 DEF InStep, HeadersKnown
  <2> QED
    BY <2>4, <2>5
<1>3. CASE Silence
  <2>1. d' = [d EXCEPT !.ex = "silence"] /\ UNCHANGED <<s, link, chip, pipe, air>>
        /\ d.ex \in {"ready", "waiting"} /\ d.phase # "idle"
    BY <1>3 DEF Silence, Typed
  <2>2. "silence" \in {"waiting"} \cup Outcome
    BY DEF Outcome
  <2>3. /\ d'.phase = d.phase /\ d'.ex = "silence" /\ d'.todo = d.todo /\ SameCall(d)
    BY <2>1, <2>2, ExchangeFacts
  <2>4. Current' = Current /\ Head(d'.todo).op = Head(d.todo).op
    BY <2>3, SameCurrent
  <2>5. d.phase = "request" => pipe = <<>> /\ air = <<>>
    <3>1. SUFFICES ASSUME d.phase = "request" PROVE pipe = <<>> /\ air = <<>>
      OBVIOUS
    <3>2. Head(d.todo).op = "REQ"
      BY <3>1, HeadFacts
    <3>3. CASE d.ex = "ready"
      BY <3>1, <3>3 DEF InStep
    <3>4. CASE d.ex = "waiting"
      BY <1>3, <3>2, <3>4 DEF Silence, Mannered
    <3> QED
      BY <2>1, <3>3, <3>4
  <2>6. ~Alive'
    BY <2>3 DEF Alive
  <2>7. InStep'
    <3>1. CASE d.phase = "sleep"
      BY <2>1, <2>3, <3>1 DEF InStep
    <3>2. CASE d.phase # "sleep"
      <4>1. \/ air = <<>> /\ (pipe = <<>> \/ pipe = <<Current>>)
            \/ pipe = <<>> /\ Len(air) = 1 /\ MayAnswer(Head(d.todo).op, air[1].kind)
        BY <2>1, <3>2 DEF InStep
      <4>2. \/ air' = <<>> /\ (pipe' = <<>> \/ pipe' = <<Current'>>)
            \/ pipe' = <<>> /\ Len(air') = 1 /\ MayAnswer(Head(d'.todo).op, air'[1].kind)
        BY <2>1, <2>4, <4>1
      <4> QED
        BY <2>1, <2>3, <2>5, <3>2, <4>2 DEF InStep, Kinds, Failures
    <3> QED
      BY <3>1, <3>2
  <2> QED
    BY <2>6, <2>7 DEF HeadersKnown
<1> QED
  BY <1>1, <1>2, <1>3

\* The adapter takes the command that is out, or is reset over it.
LEMMA AdapterInStep ==
  ASSUME Typed, InStep, UNCHANGED <<s, d>>,
         \/ /\ pipe # <<>> /\ pipe' = Tail(pipe)
            /\ \E a \in AnswerSet : air' = Append(air, a) /\ (d.phase # "sleep" => MayAnswer(Head(d.todo).op, a.kind))
         \/ pipe # <<>> /\ pipe' = <<>> /\ air' = air
         \/ pipe' = <<>> /\ air' = <<>>
  PROVE  InStep'
<1>1. Current' = Current /\ Head(d'.todo).op = Head(d.todo).op
  BY DEF Current
<1>2. CASE d.phase = "sleep"
  <2>1. \A i \in 1..Len(pipe) : pipe[i].op # "REQ"
    BY <1>2 DEF InStep
  <2>2. pipe \in Seq(CommandSet)
    BY DEF Typed
  <2>3. CASE pipe # <<>> /\ pipe' = Tail(pipe)
    <3>1. \A i \in 1..Len(pipe') : i + 1 \in 1..Len(pipe) /\ pipe'[i] = pipe[i + 1]
      BY <2>2, <2>3
    <3>2. \A i \in 1..Len(pipe') : pipe'[i].op # "REQ"
      BY <2>1, <3>1
    <3> QED
      BY <1>2, <3>2 DEF InStep
  <2>4. CASE pipe' = <<>>
    <3>1. \A i \in 1..Len(<<>>) : FALSE
      OBVIOUS
    <3> QED
      BY <1>2, <2>4, <3>1 DEF InStep
  <2> QED
    BY <2>3, <2>4
<1>3. CASE d.phase # "sleep"
  <2>1. CASE pipe' = <<>> /\ air' = <<>>
    BY <1>3, <2>1 DEF InStep
  <2>2. CASE pipe # <<>>
    <3>1. d.ex \in {"waiting", "silence"} /\ air = <<>> /\ pipe = <<Current>>
      BY <1>3, <2>2 DEF InStep
    <3>2. ~(d.phase = "request" /\ d.ex = "silence")
      BY <2>2 DEF InStep
    <3>3. CASE pipe' = <<>> /\ air' = air
      BY <2>1, <3>1, <3>3
    <3>4. CASE /\ pipe' = Tail(pipe)
               /\ \E a \in AnswerSet : air' = Append(air, a) /\ MayAnswer(Head(d.todo).op, a.kind)
      <4>1. PICK a \in AnswerSet : air' = Append(air, a) /\ MayAnswer(Head(d.todo).op, a.kind)
        BY <3>4
      <4>2. pipe' = <<>>
        BY <3>1, <3>4
      <4>3. Len(air') = 1 /\ air'[1] = a
        BY <3>1, <4>1
      <4>4. MayAnswer(Head(d'.todo).op, air'[1].kind)
        BY <1>1, <4>1, <4>3
      <4> QED
        BY <1>3, <3>1, <3>2, <4>2, <4>3, <4>4 DEF InStep, Kinds, Failures
    <3> QED
      BY <1>3, <2>1, <3>3, <3>4
  <2> QED
    BY <2>1, <2>2
<1> QED
  BY <1>2, <1>3

LEMMA ObeyHeaders ==
  ASSUME Typed, Remembers, InStep, HeadersKnown, ChipObeys
  PROVE  InStep' /\ HeadersKnown'
<1>1. PICK c, a : /\ c = Head(pipe) /\ pipe # <<>> /\ pipe' = Tail(pipe) /\ c \in CommandSet
                  /\ UNCHANGED <<s, d, link>> /\ a \in AnswerSet /\ air' = Append(air, a)
                  /\ c.op \notin {"ATZ", "ATWS", "ATSP6", "ATPC", "ATSH"} => chip'.hdr = chip.hdr
                  /\ c.op \notin {"ATZ", "ATWS", "ATSP6", "ATPC", "ATFCSH"} => chip'.fch = chip.fch
                  /\ a.kind # "lv"
                  /\ c.op # "REQ" => a.kind = "ok" \/ (a.kind = "?" /\ c.op \in Rejects)
                  /\ a.kind = "ok" /\ c.op = "ATSH" => chip'.hdr = c.id
                  /\ a.kind = "ok" /\ c.op = "ATFCSH" => chip'.fch = c.id
  <2>1. ChipObeys /\ Typed
    OBVIOUS
  <2> QED
    BY <2>1, ChipFacts
<1>2. CASE d.phase = "sleep"
  <2>1. InStep'
    BY <1>1, <1>2, AdapterInStep
  <2> QED
    BY <1>1, <1>2, <2>1 DEF HeadersKnown
<1>3. CASE d.phase # "sleep"
  <2>1. d.ex \in {"waiting", "silence"} /\ air = <<>> /\ pipe = <<Current>> /\ d.phase # "idle"
        /\ link = "up"
    BY <1>1, <1>3 DEF InStep, Typed
  <2>2. c = Current /\ c.op = Head(d.todo).op /\ c.id = Head(d.todo).id
    <3>1. PICK cur : cur = Current
      OBVIOUS
    <3>2. c = cur
      BY <1>1, <2>1, <3>1
    <3> QED
      BY <3>1, <3>2 DEF Current
  <2>3. MayAnswer(Head(d.todo).op, a.kind)
    BY <1>1, <2>2 DEF MayAnswer
  <2>4. InStep'
    BY <1>1, <1>3, <2>3, AdapterInStep
  <2>5. Suits(d, Head(d.todo)) /\ Head(d.todo) = d.todo[1]
    BY <2>1, HeadFacts
  <2>6. Len(air') = 1 /\ air'[1] = a /\ air' # <<>>
    BY <1>1, <2>1
  <2>7. ASSUME Alive'
        PROVE  Alive /\ d.ex = "waiting"
    <3>1. d.ex = "waiting"
      BY <1>1, <2>1, <2>7 DEF Alive
    <3> QED
      BY <1>1, <3>1 DEF Alive
  <2>8. d.phase \in {"request", "volt"} => c.op \in {"REQ", "ATRV"}
    BY <2>2, <2>5 DEF Suits
  <2>9. d.phase = "address" => c.op \in AddressingOps
    BY <2>2, <2>5 DEF Suits
  <2>10. ASSUME NEW op \in {"ATSH", "ATFCSH"}, Executed(op)', d.ex = "waiting"
         PROVE  (c.op = op => a.kind = "ok") /\ (c.op # op => Executed(op))
    <3>1. \A k \in 1..Len(d.todo) : d.todo[k].op = op => k = 1 /\ a.kind = "ok"
      BY <1>1, <2>6, <2>10 DEF Executed
    <3>2. 1 \in 1..Len(d.todo)
      BY <2>1, HeadFacts
    <3>3. c.op = op => a.kind = "ok"
      BY <2>2, <2>5, <3>1, <3>2
    <3>4. c.op # op => Executed(op)
      BY <2>2, <2>5, <3>1 DEF Executed
    <3> QED
      BY <3>3, <3>4
  <2>11. ASSUME Alive', d.phase = "address"
         PROVE  /\ Executed("ATSH")' => chip'.hdr = Target(d)[1]
                /\ Executed("ATFCSH")' => chip'.fch = Target(d)[1]
    <3>1. ASSUME Executed("ATSH")'
          PROVE  chip'.hdr = Target(d)[1]
      <4>1. CASE c.op = "ATSH"
        BY <1>1, <2>2, <2>5, <2>7, <2>10, <2>11, <3>1, <4>1 DEF Suits
      <4>2. CASE c.op # "ATSH"
        <5>1. Executed("ATSH")
          BY <2>7, <2>10, <2>11, <3>1, <4>2
        <5>2. chip'.hdr = chip.hdr
          BY <1>1, <2>9, <2>11, <4>2 DEF AddressingOps
        <5> QED
          BY <2>1, <2>7, <2>11, <5>1, <5>2 DEF HeadersKnown
      <4> QED
        BY <4>1, <4>2
    <3>2. ASSUME Executed("ATFCSH")'
          PROVE  chip'.fch = Target(d)[1]
      <4>1. CASE c.op = "ATFCSH"
        BY <1>1, <2>2, <2>5, <2>7, <2>10, <2>11, <3>2, <4>1 DEF Suits
      <4>2. CASE c.op # "ATFCSH"
        <5>1. Executed("ATFCSH")
          BY <2>7, <2>10, <2>11, <3>2, <4>2
        <5>2. chip'.fch = chip.fch
          BY <1>1, <2>9, <2>11, <4>2 DEF AddressingOps
        <5> QED
          BY <2>1, <2>7, <2>11, <5>1, <5>2 DEF HeadersKnown
      <4> QED
        BY <4>1, <4>2
    <3> QED
      BY <3>1, <3>2
  <2>12. ASSUME Alive', d.phase \in {"request", "volt"}, s.addressed
         PROVE  chip'.hdr = s.req /\ chip'.fch = s.req
    BY <1>1, <2>1, <2>7, <2>8, <2>12 DEF HeadersKnown
  <2>13. HeadersKnown'
    <3>1. d' = d /\ s' = s /\ Target(d)' = Target(d)
      BY <1>1 DEF Target
    <3> QED
      BY <2>1, <2>11, <2>12, <3>1 DEF HeadersKnown
  <2> QED
    BY <2>4, <2>13
<1> QED
  BY <1>2, <1>3

\* A frame that goes out carries the ids of the write that asked for it.
LEMMA ObeyAddressed ==
  ASSUME Typed, Remembers, ~d.lost => InStep /\ HeadersKnown, AddressedUntilLost, ChipObeys
  PROVE  AddressedUntilLost'
<1>1. PICK c : /\ c = Head(pipe) /\ pipe # <<>> /\ pipe \in Seq(CommandSet)
               /\ \/ frame' = frame
                  \/ /\ c.op = "REQ"
                     /\ frame' = [hdr |-> chip.hdr, fch |-> chip.fch, cra |-> chip.cra,
                                  req |-> c.req, resp |-> c.resp, lost |-> d.lost]
  <2>1. ChipObeys /\ Typed /\ pipe \in Seq(CommandSet)
    BY DEF Typed
  <2> QED
    BY <2>1, ChipFacts
<1>2. CASE frame' = frame
  BY <1>2 DEF AddressedUntilLost, FrameAddressed
<1>3. CASE /\ c.op = "REQ"
           /\ frame' = [hdr |-> chip.hdr, fch |-> chip.fch, cra |-> chip.cra,
                        req |-> c.req, resp |-> c.resp, lost |-> d.lost]
  <2>1. CASE ~d.lost
    <3>1. pipe[1] = c /\ 1 \in 1..Len(pipe)
      BY <1>1
    <3>2. d.phase # "sleep"
      BY <1>3, <2>1, <3>1 DEF InStep
    <3>3. d.ex \in {"waiting", "silence"} /\ pipe = <<Current>> /\ d.phase # "idle" /\ link = "up"
      BY <1>1, <2>1, <3>2 DEF InStep, Typed
    <3>4. c = Current
      <4>1. PICK cur : cur = Current
        OBVIOUS
      <4>2. c = cur
        BY <1>1, <3>3, <4>1
      <4> QED
        BY <4>1, <4>2
    <3>5. d.phase = "request"
      BY <1>3, <3>3, <3>4, HeadFacts
    <3>6. d.ex = "waiting"
      BY <1>1, <2>1, <3>3, <3>5 DEF InStep
    <3>7. Alive
      BY <1>1, <3>6 DEF Alive
    <3>8. c.req = d.req
      BY <3>4 DEF Current
    <3>9. s.addressed /\ s.req = d.req
      BY <3>5 DEF Remembers
    <3>10. chip.hdr = s.req /\ chip.fch = s.req
      BY <2>1, <3>3, <3>5, <3>7, <3>9 DEF HeadersKnown
    <3> QED
      BY <1>3, <3>8, <3>9, <3>10 DEF AddressedUntilLost, FrameAddressed
  <2>2. CASE d.lost
    BY <1>3, <2>2 DEF AddressedUntilLost
  <2> QED
    BY <2>1, <2>2
<1> QED
  BY <1>1, <1>2, <1>3

LEMMA ResetHeaders ==
  ASSUME Typed, InStep, HeadersKnown, ChipResets \/ LinkDrops
  PROVE  InStep' /\ HeadersKnown'
<1>1. CASE LinkDrops
  <2>1. pipe' = <<>> /\ air' = <<>> /\ link' # "up" /\ UNCHANGED <<s, d>>
    BY <1>1 DEF LinkDrops
  <2>2. InStep'
    BY <2>1, AdapterInStep
  <2> QED
    BY <2>1, <2>2 DEF HeadersKnown
<1>2. CASE ChipResets
  <2>1. PICK a : a = [kind |-> "lv", n |-> 0]
    OBVIOUS
  <2>2. a \in AnswerSet /\ a.kind = "lv"
    BY <2>1 DEF AnswerSet, Kinds, Failures
  <2>3. /\ pipe # <<>> /\ UNCHANGED <<s, d, link>>
        /\ \/ pipe' = <<>> /\ air' = air
           \/ <<"lvreset", Head(pipe).op>> \in Faults /\ pipe' = Tail(pipe) /\ air' = Append(air, a)
    BY <1>2, <2>1 DEF ChipResets, Answer
  <2>4. CASE d.phase = "sleep"
    <3>1. InStep'
      BY <2>2, <2>3, <2>4, AdapterInStep
    <3> QED
      BY <2>3, <2>4, <3>1 DEF HeadersKnown
  <2>5. CASE d.phase # "sleep"
    <3>1. d.ex \in {"waiting", "silence"} /\ air = <<>> /\ pipe = <<Current>>
      BY <2>3, <2>5 DEF InStep
    <3>2. Head(pipe).op = Head(d.todo).op
      <4>1. PICK cur : cur = Current
        OBVIOUS
      <4>2. Head(pipe) = cur
        BY <3>1, <4>1
      <4> QED
        BY <4>1, <4>2 DEF Current
    <3>3. <<"lvreset", Head(pipe).op>> \in Faults => MayAnswer(Head(d.todo).op, a.kind)
      BY <2>2, <3>2 DEF MayAnswer
    <3>4. InStep'
      BY <2>2, <2>3, <3>3, AdapterInStep
    <3>5. CASE pipe' = <<>> /\ air' = <<>>
      <4>1. ~Alive'
        BY <2>3, <3>1, <3>5 DEF Alive
      <4> QED
        BY <3>4, <4>1 DEF HeadersKnown
    <3>6. CASE pipe' = Tail(pipe) /\ air' = Append(air, a)
      <4>1. pipe' = <<>> /\ Len(air') = 1 /\ air'[1] = a
        BY <3>1, <3>6
      <4>2. ~Alive'
        BY <2>2, <2>3, <3>1, <4>1 DEF Alive
      <4> QED
        BY <3>4, <4>2 DEF HeadersKnown
    <3> QED
      BY <2>3, <3>1, <3>5, <3>6
  <2> QED
    BY <2>4, <2>5
<1> QED
  BY <1>1, <1>2

LEMMA InitHeaders == Init => HeaderInv
<1> SUFFICES ASSUME Init PROVE HeaderInv
  OBVIOUS
<1>1. d.phase = "idle" /\ d.ex = "ready" /\ pipe = <<>> /\ air = <<>> /\ link # "up"
  BY DEF Init, Idle
<1>2. InStep /\ HeadersKnown
  BY <1>1 DEF InStep, HeadersKnown, Kinds, Failures
<1>3. AddressedUntilLost
  BY DEF Init, AddressedUntilLost, FrameAddressed
<1> QED
  BY <1>2, <1>3, InitTyped DEF HeaderInv

LEMMA HeaderInductive ==
  ASSUME Mannered, HeaderInv, [Next]_vars
  PROVE  HeaderInv'
<1>0. Typed /\ Remembers /\ (~d.lost => InStep /\ HeadersKnown) /\ AddressedUntilLost
  BY DEF HeaderInv
<1>1. Typed' /\ Remembers'
  BY <1>0, TypedInductive
<1>2. CASE CallMoves
  <2>1. UNCHANGED frame
    BY <1>2 DEF CallMoves, OpenDevice, CloseDevice, ReadVoltage, Write, PhaseDone, PhaseFails,
            Asleep, Answered
  <2>2. ~d'.lost => InStep' /\ HeadersKnown'
    BY <1>0, <1>2, CallsHeaders
  <2> QED
    BY <1>0, <1>1, <2>1, <2>2 DEF HeaderInv, AddressedUntilLost, FrameAddressed
<1>3. CASE NextStep \/ Send \/ Receive \/ Silence
  <2>1. UNCHANGED frame
    BY <1>3 DEF NextStep, Send, Receive, Silence
  <2>2. d'.lost = d.lost
    <3>1. NextStep => d'.lost = d.lost
      BY <1>0, NextStepFacts DEF SameCall
    <3>2. \A ex : d' = [d EXCEPT !.ex = ex] => d'.lost = d.lost
      BY <1>0, CallFields DEF Typed
    <3> QED
      BY <1>3, <3>1, <3>2 DEF Send, Receive, Silence
  <2>3. ~d.lost => InStep' /\ HeadersKnown'
    BY <1>0, <1>3, NextStepHeaders, ExchangeHeaders
  <2> QED
    BY <1>0, <1>1, <2>1, <2>2, <2>3 DEF HeaderInv, AddressedUntilLost, FrameAddressed
<1>4. CASE ChipObeys
  <2>1. d' = d
    BY <1>4 DEF ChipObeys
  <2>2. ~d.lost => InStep' /\ HeadersKnown'
    BY <1>0, <1>4, ObeyHeaders
  <2>3. AddressedUntilLost'
    BY <1>0, <1>4, ObeyAddressed
  <2> QED
    BY <1>1, <2>1, <2>2, <2>3 DEF HeaderInv
<1>5. CASE ChipResets \/ LinkDrops
  <2>1. d' = d /\ UNCHANGED frame
    BY <1>5 DEF ChipResets, LinkDrops
  <2>2. ~d.lost => InStep' /\ HeadersKnown'
    BY <1>0, <1>5, ResetHeaders
  <2> QED
    BY <1>0, <1>1, <2>1, <2>2 DEF HeaderInv, AddressedUntilLost, FrameAddressed
<1>6. CASE UNCHANGED vars
  <2>1. UNCHANGED <<s, d, link, chip, pipe, air, frame>>
    BY <1>6 DEF vars
  <2>2. InStep => InStep'
    BY <2>1 DEF InStep, Current
  <2>3. HeadersKnown => HeadersKnown'
    BY <2>1 DEF HeadersKnown, Alive, Executed, Target
  <2> QED
    BY <1>0, <1>1, <2>1, <2>2, <2>3 DEF HeaderInv, AddressedUntilLost, FrameAddressed
<1> QED
  BY <1>2, <1>3, <1>4, <1>5, <1>6, NextMoves

\* AddressedUntilLost, of every mannered adapter: as long as no call has given
\* up on it, no frame leaves it with another id than that of the write that asked
\* for it, through resets, recoveries, retries, rejections and skipped addressing
\* blocks.
THEOREM Addressed ==
  ASSUME Mannered
  PROVE  Spec => []AddressedUntilLost
<1>1. HeaderInv => AddressedUntilLost
  BY DEF HeaderInv
<1>2. HeaderInv /\ [Next]_vars => HeaderInv'
  BY HeaderInductive
<1> QED
  BY <1>1, <1>2, InitHeaders, PTL DEF Spec
=============================================================================
