----------------------------- MODULE ElmSession -----------------------------
(***************************************************************************)
(* ElmJ2534: ElmSession and the parts of ElmDevice that drive it (open,    *)
(* one write with its recovery and retry, READ_VBATT, close), against an   *)
(* ELM327 adapter at the far end of a serial link.  All of it runs under   *)
(* the device lock, one call at a time; what interleaves is the adapter    *)
(* and the link.                                                           *)
(*                                                                         *)
(* A call is a chain of phases, a phase a list of commands, and a command  *)
(* one exchange: written, answered up to the '>' prompt, or given up at    *)
(* its deadline.  The adapter's answers are kinds, not text.               *)
(***************************************************************************)
EXTENDS Integers, Sequences

CONSTANTS
    Requests,     \* CAN ids that writes address
    Responses,    \* ids that FLOW_CONTROL filters name
    DefaultReq, DefaultResp, \* ELM_DEFAULT_REQUEST_CAN_ID, ..._RESPONSE_...
    Rejects,      \* commands this adapter may answer with '?'
    Faults,       \* what may go wrong over which command: <<kind, command>>
    Drops,        \* whether the radio link may break
    MaxWrites, MaxFaults

\* The adapter may answer after the deadline, reset without a word, or reset
\* and answer LVRESET.
FaultKinds == {"late", "brownout", "lvreset"}
Commands == {"ATZ", "ATI", "ATE0", "ATL0", "ATS0", "ATH1", "ATCAF1", "ATSP6", "ATAT1",
             "ATST32", "ATSH", "ATCRA", "ATFCSH", "ATFCSD", "ATFCSM1", "ATPC", "ATWS",
             "REQ", "ATRV", "ATLP"}

ASSUME SessionAssumption ==
    /\ Requests \subseteq Nat \ {0} /\ Responses \subseteq Nat \ {0}
    /\ DefaultReq \in Nat \ {0} /\ DefaultResp \in Nat \ {0}
    /\ Rejects \subseteq Commands /\ Faults \subseteq FaultKinds \X Commands
    /\ Drops \in BOOLEAN
    /\ MaxWrites \in Nat /\ MaxFaults \in Nat

VARIABLES
    s,      \* the session's memory of the adapter
    d,      \* the call in progress
    link,   \* "closed", "up", or "down": open here, gone at the far end
    chip,   \* the adapter: its header, flow header and receive filter
    pipe,   \* commands on their way to it
    air,    \* answers on their way back
    frame,  \* history: the last frame the adapter sent, and what was asked
    reply,  \* history: the last data handed to the application
    faults  \* history: faults so far

vars == <<s, d, link, chip, pipe, air, frame, reply, faults>>

\* Id 0 is the adapter's own default, and, for a filter, "accept all".
PowerOn == [hdr |-> 0, fch |-> 0, cra |-> 0]
Forgot == [addressed |-> FALSE, req |-> 0, resp |-> 0, craSet |-> FALSE]
Idle == [phase |-> "idle", why |-> "none", todo |-> <<>>, ex |-> "ready", attempt |-> 0,
         n |-> 0, req |-> 0, resp |-> 0, open |-> FALSE, lost |-> FALSE]

Init ==
    /\ s = Forgot /\ d = Idle /\ link = "closed"
    /\ chip = PowerOn /\ pipe = <<>> /\ air = <<>>
    /\ frame = [hdr |-> 0, fch |-> 0, cra |-> 0, req |-> 0, resp |-> 0, lost |-> FALSE]
    /\ reply = [asked |-> 0, given |-> 0]
    /\ faults = 0

----------------------------------------------------------------------------
\* The plans

Step(op, id, required) == [op |-> op, id |-> id, required |-> required]

\* elmInitSequence
InitSequence ==
    << Step("ATE0", 0, TRUE), Step("ATL0", 0, FALSE), Step("ATS0", 0, FALSE),
       Step("ATH1", 0, TRUE), Step("ATCAF1", 0, TRUE), Step("ATSP6", 0, TRUE),
       Step("ATAT1", 0, FALSE), Step("ATST32", 0, FALSE) >>

\* elmAddressingSequence, and the accept-all filter that applyAddressing inserts
\* when a restrictive one may be loaded.
MFilterSteps(resp, craSet) ==
    IF resp # 0 THEN <<Step("ATCRA", resp, FALSE)>> ELSE <<>>
FilterSteps(resp, craSet) ==
    IF resp # 0 \/ craSet THEN <<Step("ATCRA", resp, FALSE)>> ELSE <<>>

AddressingSequence(req, resp, craSet) ==
    <<Step("ATSH", req, FALSE)>> \o FilterSteps(resp, craSet)
        \o << Step("ATFCSH", req, TRUE), Step("ATFCSD", 0, TRUE), Step("ATFCSM1", 0, FALSE) >>

\* Whom the addressing phase of a call addresses.
Target(e) == IF e.why = "write" THEN <<e.req, e.resp>> ELSE <<DefaultReq, DefaultResp>>

Probes == {<<>>, <<Step("ATI", 0, FALSE)>>, <<Step("ATI", 0, FALSE), Step("ATI", 0, FALSE)>>}

Plans(phase, e, m) ==
    CASE phase = "reset" -> {<<Step("ATZ", 0, FALSE)>> \o p : p \in Probes}
      [] phase = "setup" -> {InitSequence}
      [] phase = "address" ->
            {AddressingSequence(Target(e)[1], Target(e)[2], m.craSet)}
      [] phase = "close" -> {<<Step("ATPC", 0, FALSE)>>}
      [] phase = "protocol" -> {<<Step("ATSP6", 0, FALSE)>>}
      [] phase = "warm" -> {<<Step("ATWS", 0, FALSE)>>}
      [] phase = "request" -> {<<Step("REQ", e.n, FALSE)>>}
      [] phase = "volt" -> {<<Step("ATRV", 0, TRUE)>>}
      [] phase = "sleep" -> {<<Step("ATLP", 0, FALSE)>>}

\* What the session notes when a phase begins, ...
Noted(phase, e, m) ==
    CASE phase = "reset" -> Forgot
      [] phase = "address" ->
            [m EXCEPT !.addressed = FALSE, !.craSet = @ \/ Target(e)[2] # 0]
      [] OTHER -> m

\* ... when all its commands were answered, ...
MLearnt(phase, e, m) ==
    CASE phase = "address" ->
            [addressed |-> TRUE, req |-> Target(e)[1], resp |-> Target(e)[2],
             craSet |-> m.craSet /\ Target(e)[2] # 0]
      [] phase = "protocol" -> [m EXCEPT !.craSet = FALSE]
      [] phase = "warm" -> [m EXCEPT !.addressed = FALSE, !.craSet = FALSE]
      [] OTHER -> m
Learnt(phase, e, m) ==
    CASE phase = "address" ->
            [addressed |-> TRUE, req |-> Target(e)[1], resp |-> Target(e)[2],
             craSet |-> m.craSet /\ Target(e)[2] # 0]
      [] phase = "close" -> [m EXCEPT !.addressed = FALSE]
      [] phase = "protocol" -> [m EXCEPT !.craSet = FALSE]
      [] phase = "warm" -> [m EXCEPT !.addressed = FALSE, !.craSet = FALSE]
      [] OTHER -> m

\* ... and when one of them was rejected or given up.
Doubted(phase, m) ==
    IF phase \in {"setup", "address"} THEN [m EXCEPT !.addressed = FALSE] ELSE m

----------------------------------------------------------------------------
\* Calls

Begin(phase, e, m) ==
    \E plan \in Plans(phase, e, m) :
        /\ d' = [e EXCEPT !.phase = phase, !.todo = plan, !.ex = "ready"]
        /\ s' = Noted(phase, e, m)

\* A call ends; lost: it, or an earlier one since the open, gave up on the
\* adapter.
MEnd(e, m, ok) == d' = [e EXCEPT !.phase = "idle"] /\ s' = m
End(e, m, ok) ==
    d' = [Idle EXCEPT !.open = e.open, !.n = e.n, !.lost = e.lost \/ ~ok] /\ s' = m

\* setTarget: nothing to do when the adapter is known to hold the ids.
SetTarget(e, m) ==
    LET f == [e EXCEPT !.why = "write"] IN
    IF m.addressed /\ m.req = f.req /\ m.resp = f.resp
    THEN Begin("request", f, m) ELSE Begin("address", f, m)

\* session open: the link comes up with nothing in flight, on an adapter that
\* may have lost its power meanwhile; or the port does not open.
LinkUp == link' = "up" /\ pipe' = <<>> /\ air' = <<>> /\ chip' \in {chip, PowerOn}
LinkClosed == link' = "closed" /\ pipe' = <<>> /\ air' = <<>> /\ UNCHANGED chip
LinkKept == UNCHANGED <<link, chip, pipe, air>>

OpenDevice ==
    /\ d.phase = "idle" /\ ~d.open
    /\ \/ LinkUp /\ Begin("reset", [d EXCEPT !.why = "open", !.lost = FALSE], Forgot)
       \/ LinkClosed /\ UNCHANGED <<s, d>>
    /\ UNCHANGED <<frame, reply, faults>>

CloseDevice ==
    /\ d.phase = "idle" /\ d.open
    /\ Begin("sleep", [d EXCEPT !.why = "close"], s)
    /\ LinkKept /\ UNCHANGED <<frame, reply, faults>>

ReadVoltage ==
    /\ d.phase = "idle" /\ d.open
    /\ Begin("volt", [d EXCEPT !.why = "volt"], s)
    /\ LinkKept /\ UNCHANGED <<frame, reply, faults>>

\* writeOne/runExchange, first half.
Write(req, resp) ==
    /\ d.phase = "idle" /\ d.open /\ d.n < MaxWrites
    /\ SetTarget([d EXCEPT !.n = @ + 1, !.req = req, !.resp = resp, !.attempt = 0], s)
    /\ LinkKept /\ UNCHANGED <<frame, reply, faults>>

Failures == {"?", "nodata", "bus", "warm", "lv"}
Steps == d.phase \notin {"idle", "request", "sleep"}
StepFails == d.ex = "silence" \/ (Head(d.todo).required /\ d.ex \in Failures)
StepPasses == d.ex \notin {"ready", "waiting"} /\ ~StepFails

\* applySteps: on to the next command.
NextStep ==
    /\ Steps /\ StepPasses /\ Len(d.todo) > 1
    /\ d' = [d EXCEPT !.todo = Tail(@), !.ex = "ready"]
    /\ UNCHANGED s /\ LinkKept /\ UNCHANGED <<frame, reply, faults>>

\* A phase is over and all went well: the next one of its chain, if any; a
\* recovery ends in the second attempt.
PhaseDone ==
    LET m == Learnt(d.phase, d, s) IN
    /\ Steps /\ StepPasses /\ Len(d.todo) = 1
    /\ CASE d.phase \in {"reset", "warm"} -> Begin("setup", d, m)
         [] d.phase = "setup" /\ d.why # "warm" -> Begin("address", d, m)
         [] d.phase = "close" -> Begin("protocol", d, m)
         [] d.phase = "address" /\ d.why = "write" -> Begin("request", d, m)
         [] d.phase = "address" /\ d.why = "open" -> End([d EXCEPT !.open = TRUE], m, TRUE)
         [] d.phase = "volt" -> End(d, m, TRUE)
         [] OTHER -> SetTarget([d EXCEPT !.attempt = 1], m)
    /\ LinkKept /\ UNCHANGED <<frame, reply, faults>>

\* It failed: the half-open device goes to sleep, a failed reinitialisation
\* re-opens the port, and any other call ends in an error.
PhaseFails ==
    LET m == Doubted(d.phase, s) IN
    /\ Steps /\ StepFails
    /\ \/ d.why = "open" /\ Begin("sleep", d, m) /\ LinkKept
       \/ /\ d.why = "reinit"
          /\ \/ LinkUp /\ Begin("reset", [d EXCEPT !.why = "reopen"], Forgot)
             \/ LinkClosed /\ End(d, m, FALSE)
       \/ d.why \notin {"open", "reinit"} /\ End(d, m, FALSE) /\ LinkKept
    /\ UNCHANGED <<frame, reply, faults>>

\* session shutdown: the port is closed whatever became of ATLP.
Asleep ==
    /\ d.phase = "sleep" /\ d.ex \notin {"ready", "waiting"}
    /\ End([d EXCEPT !.open = FALSE], s, TRUE)
    /\ LinkClosed
    /\ UNCHANGED <<frame, reply, faults>>

\* request()'s outcomes and what runExchange makes of them: a failure gets one
\* recovery, of the kind the adapter's token asks for, and one more attempt.
MRetries == 2
Retries == 1
Recover(phase, why) ==
    IF d.attempt < Retries THEN Begin(phase, [d EXCEPT !.why = why], s) ELSE End(d, s, FALSE)

Answered ==
    /\ d.phase = "request"
    /\ \/ d.ex \in {"data", "ok", "nodata", "?"} /\ End(d, s, TRUE)
       \/ d.ex = "bus" /\ Recover("close", "bus")
       \/ d.ex = "warm" /\ Recover("warm", "warm")
       \/ d.ex \in {"lv", "silence"} /\ Recover("reset", "reinit")
    /\ LinkKept /\ UNCHANGED <<frame, reply, faults>>

----------------------------------------------------------------------------
\* Exchanges

\* exchange: whatever has arrived is discarded, then the command is written.
Send ==
    LET c == Head(d.todo) IN
    /\ d.phase # "idle" /\ d.ex = "ready" /\ link = "up"
    /\ \E k \in 0..Len(air) : air' = SubSeq(air, k + 1, Len(air))
    /\ pipe' = Append(pipe, [op |-> c.op, id |-> c.id, req |-> d.req, resp |-> d.resp])
    /\ d' = [d EXCEPT !.ex = "waiting"]
    /\ UNCHANGED <<s, link, chip, frame, reply, faults>>

\* The first prompt to arrive ends the exchange, whichever command it answers.
Receive ==
    LET a == Head(air) IN
    /\ d.ex = "waiting" /\ air # <<>>
    /\ d' = [d EXCEPT !.ex = a.kind]
    /\ air' = Tail(air)
    /\ reply' = IF d.phase = "request" /\ a.kind = "data"
                THEN [asked |-> d.n, given |-> a.n] ELSE reply
    /\ UNCHANGED <<s, link, chip, pipe, frame, faults>>

\* The link is gone, or the deadline passes: the adapter has swallowed the
\* command, or, if it may be late, has not answered yet.
Silence ==
    /\ \/ d.phase # "idle" /\ d.ex = "ready" /\ link # "up" /\ UNCHANGED faults
       \/ /\ d.ex = "waiting" /\ pipe = <<>> /\ air = <<>>
          /\ UNCHANGED faults
       \/ /\ d.ex = "waiting" /\ pipe \o air # <<>>
          /\ <<"late", Head(d.todo).op>> \in Faults /\ faults < MaxFaults /\ faults' = faults + 1
    /\ d' = [d EXCEPT !.ex = "silence"]
    /\ UNCHANGED <<s, link, chip, pipe, air, frame, reply>>

----------------------------------------------------------------------------
\* The adapter and the link

\* What a command may make of it: ATPC drops the header and filter state, or
\* leaves that to the ATSP6 that follows.
Obeyed(c) ==
    CASE c.op \in {"ATZ", "ATWS", "ATSP6"} -> {PowerOn}
      [] c.op = "ATPC" -> {chip, PowerOn}
      [] c.op = "ATSH" -> {[chip EXCEPT !.hdr = c.id]}
      [] c.op = "ATFCSH" -> {[chip EXCEPT !.fch = c.id]}
      [] c.op = "ATCRA" -> {[chip EXCEPT !.cra = c.id]}
      [] OTHER -> {chip}

Answer(kind, n) == air' = Append(air, [kind |-> kind, n |-> n])

ChipObeys ==
    LET c == Head(pipe) IN
    /\ pipe # <<>> /\ pipe' = Tail(pipe)
    /\ \/ /\ c.op # "REQ"
          /\ chip' \in Obeyed(c) /\ Answer("ok", 0) /\ UNCHANGED <<frame, faults>>
       \/ /\ c.op \in Rejects
          /\ Answer("?", 0) /\ UNCHANGED <<chip, frame, faults>>
       \/ /\ c.op = "REQ"
          /\ frame' = [hdr |-> chip.hdr, fch |-> chip.fch, cra |-> chip.cra,
                       req |-> c.req, resp |-> c.resp, lost |-> d.lost]
          /\ \E kind \in {"data", "nodata", "bus", "warm"} : Answer(kind, c.id)
          /\ UNCHANGED <<chip, faults>>
    /\ UNCHANGED <<s, d, link, reply>>

\* It resets itself over a command, and says so or not.
ChipResets ==
    /\ pipe # <<>> /\ faults < MaxFaults /\ faults' = faults + 1
    /\ \/ <<"brownout", Head(pipe).op>> \in Faults /\ pipe' = <<>> /\ UNCHANGED air
       \/ <<"lvreset", Head(pipe).op>> \in Faults /\ pipe' = Tail(pipe) /\ Answer("lv", 0)
    /\ chip' = PowerOn
    /\ UNCHANGED <<s, d, link, frame, reply>>

\* The radio link breaks; what was on its way is lost.
LinkDrops ==
    /\ link = "up" /\ Drops /\ faults < MaxFaults /\ faults' = faults + 1
    /\ link' = "down" /\ pipe' = <<>> /\ air' = <<>>
    /\ UNCHANGED <<s, d, chip, frame, reply>>

----------------------------------------------------------------------------
SessionStep ==
    NextStep \/ PhaseDone \/ PhaseFails \/ Asleep \/ Answered
        \/ Send \/ Receive \/ Silence

Next ==
    \/ OpenDevice \/ CloseDevice \/ ReadVoltage
    \/ \E req \in Requests, resp \in Responses \cup {0} : Write(req, resp)
    \/ SessionStep \/ ChipObeys \/ ChipResets \/ LinkDrops

Spec == Init /\ [][Next]_vars
\* The thread inside a call runs; every command is answered, or the deadline
\* of its exchange passes.
FairSpec == Spec /\ WF_vars(SessionStep) /\ WF_vars(ChipObeys)

----------------------------------------------------------------------------
\* Properties

Kinds == Failures \cup {"ok", "data"}
Phases == {"idle", "reset", "setup", "address", "close", "protocol", "warm",
           "request", "volt", "sleep"}
Reasons == {"none", "open", "close", "volt", "write", "bus", "warm", "reinit", "reopen"}

TypeOK ==
    /\ s \in [addressed : BOOLEAN, req : Nat, resp : Nat, craSet : BOOLEAN]
    /\ d.phase \in Phases /\ d.why \in Reasons /\ d.attempt \in 0..Retries
    /\ d.ex \in {"ready", "waiting", "silence"} \cup Kinds
    /\ d.phase = "idle" <=> d.todo = <<>>
    /\ link \in {"closed", "up", "down"}
    /\ link # "up" => pipe = <<>> /\ air = <<>>

\* No frame goes out with the wrong CAN id: what the adapter sends carries the
\* id of the write that asked for it, as request and as flow control header.
\* The session skips the addressing block when it remembers these ids, so what
\* it remembers must survive no reset, rejection, timeout or broken link.
FrameAddressed == frame.hdr = frame.req /\ frame.fch = frame.req

\* An adapter whose optional addressing commands do not fail unseen (a step that
\* is not required passes on '?' and on LVRESET), and that answers no request
\* after its deadline.
Mannered ==
    /\ "ATSH" \notin Rejects
    /\ \A op \in {"ATSH", "ATCRA", "ATFCSM1"} : <<"lvreset", op>> \notin Faults
    /\ <<"late", "REQ">> \notin Faults

\* It is so, with such an adapter, as long as no call has given up on it.
AddressedUntilLost == frame.lost \/ FrameAddressed

\* An adapter that knows its resets and its filter command.  (If it rejects the
\* ATSP6 of a recovery, the filter that stays is that of the same write.)
Obedient == Rejects \cap {"ATZ", "ATWS", "ATCRA"} = {}

\* With it, a stale filter never hides the answers to a write: the adapter
\* filters for the responder of the write, or for nobody.
NoStaleFilter == frame.cra \in {0, frame.resp}

\* The data that a write puts into the channel's queue answers that write.  No
\* run claims this: after one late answer it no longer holds.
RepliesBelong == reply.asked = reply.given

\* Every call ends, however often the adapter fails it: recoveries do not nest,
\* and there is one retry.
CallReturns == (d.phase # "idle") ~> (d.phase = "idle")

=============================================================================
