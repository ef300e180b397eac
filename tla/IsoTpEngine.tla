---------------------------- MODULE IsoTpEngine ----------------------------
(***************************************************************************)
(* KvaserDirect/IsoTpEngine: one ISO 15765-2 engine, the object behind an  *)
(* ISO15765 channel.  Application threads call transmit() and receive();   *)
(* the channel's RX thread calls processFrame(); filter calls add and      *)
(* remove sessions.  All share lock_: an action is one critical section,   *)
(* or one access made outside it.                                          *)
(*                                                                         *)
(* Deadlines are kept as the ticks left until them, so that Tick needs no  *)
(* absolute clock (and the 2^32 ms wrap of GetTickCount is not modelled).  *)
(* Payload bytes are abstract: a chunk is named by the data tag its frame  *)
(* carries.  Padding, STmin and the timestamps are left out.               *)
(***************************************************************************)
EXTENDS Integers, Sequences

CONSTANTS
    NSlots,      \* ISOTP_MAX_SESSIONS
    Filters,     \* J2534 filter ids that create sessions
    Addresses,   \* <<txId, rxId>> pairs those filters name
    Writers,     \* application threads that call transmit()
    Readers,     \* application threads that call receive()
    Lens,        \* payload lengths they write
    Timeouts,    \* timeouts they pass, in ticks
    Wants,       \* message counts they ask receive() for
    BlockSizes,  \* values of BS_TX (SET_CONFIG)
    NBs,         \* ISOTP_N_BS_DEFAULT, in ticks
    RxqCap,      \* ISOTP_RX_QUEUE_SIZE
    TxqCap,      \* frames the CAN driver's transmit queue holds
    FlowStatuses, PeerBlockSizes, \* what the ECU's flow control frames say
    PeerLens, PeerChunks          \* its message lengths and bytes per frame

ASSUME EngineAssumption ==
    /\ NSlots \in Nat \ {0} /\ NBs \in Nat \ {0}
    /\ RxqCap \in Nat \ {0} /\ TxqCap \in Nat \ {0}
    /\ Filters \subseteq Nat /\ Addresses \subseteq Nat \X Nat
    /\ Lens \subseteq Nat /\ Timeouts \subseteq Nat
    /\ BlockSizes \subseteq Nat /\ Wants \subseteq Nat
    /\ FlowStatuses \subseteq {"CTS", "WAIT", "OVFLW"}
    /\ PeerBlockSizes \subseteq Nat
    /\ PeerLens \subseteq Nat /\ PeerChunks \subseteq Nat

MaxMsgLen == 4095
Slots == 1..NSlots
Ids == Nat

VARIABLES
    sess,    \* the addressing half of sessions_[]
    tx,      \* the transmit half of sessions_[]
    rx,      \* the receive half of sessions_[]
    bsTx,    \* bsTx_
    rxq,     \* rxQueue_, oldest first
    txq,     \* frames accepted by canWrite() and not yet on the bus
    pc,      \* where each writer is in transmit()
    slot,    \* the session pointer s of that call
    call,    \* its arguments
    dl,      \* its local deadline
    cf,      \* the consecutive frame it has built
    res,     \* what its last transmit() returned
    rd,      \* each reader's receive() call
    forced   \* history: why a slot was reset while a writer was inside it

writerVars == <<pc, slot, call, dl, cf, res>>
sessVars == <<sess, tx, rx, bsTx>>
vars == <<sess, tx, rx, bsTx, rxq, txq, pc, slot, call, dl, cf, res, rd, forced>>

----------------------------------------------------------------------------
\* Values

NoCall == [id |-> 0, len |-> 0, timeout |-> 0]
NoCf == [msg |-> "none", sn |-> 0, off |-> 0, n |-> 0]

\* memset(&sessions_[i], 0, sizeof(IsoTpSession))
ZeroSess == [active |-> FALSE, filter |-> 0, txId |-> 0, rxId |-> 0]
ZeroTx == [state |-> "IDLE", msg |-> "none", len |-> 0, off |-> 0, sn |-> 0,
           bs |-> 0, bsSent |-> 0, dl |-> 0]
ZeroRx == [state |-> "IDLE", len |-> 0, off |-> 0, sn |-> 0, bsCount |-> 0,
           buf |-> <<>>]
NoRecv == [pc |-> "idle", want |-> 0, got |-> <<>>, dl |-> 0, res |-> "none"]

Least(S) == CHOOSE s \in S : \A t \in S : s <= t

\* findSessionByTxId, findSessionByRxId: the first active match.
SessionsByTxId(id) == {s \in Slots : sess[s].active /\ sess[s].txId = id}
SessionsByRxId(id) == {s \in Slots : sess[s].active /\ sess[s].rxId = id}

\* A transmit() call that has sent its first frame and not returned.
InBurst == {"burst", "cf", "sent"}
InTx == InBurst \cup {"poll", "look", "renew", "expired", "abort"}
Inside(s) == {w \in Writers : pc[w] \in InTx /\ slot[w] = s}

Disturb(s, why) ==
    forced' = IF Inside(s) = {} THEN forced ELSE [forced EXCEPT ![s] = why]

Init ==
    /\ sess = [s \in Slots |-> ZeroSess]
    /\ tx = [s \in Slots |-> ZeroTx]
    /\ rx = [s \in Slots |-> ZeroRx]
    /\ bsTx \in BlockSizes
    /\ rxq = <<>> /\ txq = <<>>
    /\ pc = [w \in Writers |-> "idle"]
    /\ slot = [w \in Writers |-> 0]
    /\ call = [w \in Writers |-> NoCall]
    /\ dl = [w \in Writers |-> 0]
    /\ cf = [w \in Writers |-> NoCf]
    /\ res = [w \in Writers |-> "none"]
    /\ rd = [r \in Readers |-> NoRecv]
    /\ forced = [s \in Slots |-> "no"]

----------------------------------------------------------------------------
\* Session management (HandleManager numbers its filters uniquely)

\* addSession: the first free slot is cleared and taken.  With no free slot
\* it returns -1 and nothing changes.  A writer that still holds a pointer
\* to that slot is not told.
AddSession(f, a) ==
    LET free == {s \in Slots : ~sess[s].active}
        s == Least(free)
    IN  /\ free # {}
        /\ \A t \in Slots : sess[t].active => sess[t].filter # f
        /\ sess' = [sess EXCEPT ![s] = [active |-> TRUE, filter |-> f,
                                        txId |-> a[1], rxId |-> a[2]]]
        /\ tx' = [tx EXCEPT ![s] = ZeroTx]
        /\ rx' = [rx EXCEPT ![s] = ZeroRx]
        /\ Disturb(s, "reuse")
        /\ UNCHANGED <<bsTx, rxq, txq, writerVars, rd>>

\* removeSession: only the active flag is cleared.
RemoveSession(f) ==
    LET owned == {s \in Slots : sess[s].active /\ sess[s].filter = f}
    IN  /\ owned # {}
        /\ sess' = [sess EXCEPT ![Least(owned)].active = FALSE]
        /\ UNCHANGED <<tx, rx, bsTx, rxq, txq, writerVars, rd, forced>>

SetConfig(bs) ==
    /\ bsTx' = bs
    /\ UNCHANGED <<sess, tx, rx, rxq, txq, writerVars, rd, forced>>

Shutdown ==
    /\ sess' = [s \in Slots |-> [sess[s] EXCEPT !.active = FALSE]]
    /\ rxq' = <<>>
    /\ UNCHANGED <<tx, rx, bsTx, txq, writerVars, rd, forced>>

----------------------------------------------------------------------------
\* transmit()

\* The tests transmit() makes under lock_ on its session, and the payload of
\* the next consecutive frame.  (The M... variants are for mutation tests.)
MAvailable(s) == tx[s].state # "SENDING_CF"
Available(s) == tx[s].state = "IDLE"
MBlockFull(t) == t.bs > 0 /\ t.bsSent > t.bs
BlockFull(t) == t.bs > 0 /\ t.bsSent >= t.bs
MFinished(t) == t.off >= t.len - 1
Finished(t) == t.off >= t.len
MCfLen(t) == t.len - t.off
CfLen(t) == IF t.len - t.off > 7 THEN 7 ELSE t.len - t.off

\* canWrite() of the CAN driver: a bounded queue that refuses when full.
CanWriteOk(f) == Len(txq) < TxqCap /\ txq' = Append(txq, f)
CanWriteFails == Len(txq) >= TxqCap /\ UNCHANGED txq

SingleFrame(id, m, len) == [kind |-> "SF", id |-> id, msg |-> m, len |-> len]
FirstFrame(id, m, len) == [kind |-> "FF", id |-> id, msg |-> m, len |-> len]
ConsecutiveFrame(id, c) ==
    [kind |-> "CF", id |-> id, msg |-> c.msg, sn |-> c.sn, off |-> c.off, n |-> c.n]
FlowControl(id, bs) == [kind |-> "FC", id |-> id, bs |-> bs]

Goto(w, l) == pc' = [pc EXCEPT ![w] = l]

\* The call returns and its locals are gone.
Return(w, r) ==
    /\ Goto(w, "idle")
    /\ res' = [res EXCEPT ![w] = r]
    /\ slot' = [slot EXCEPT ![w] = 0]
    /\ call' = [call EXCEPT ![w] = NoCall]
    /\ dl' = [dl EXCEPT ![w] = 0]
    /\ cf' = [cf EXCEPT ![w] = NoCf]

TransmitRejected(w, id, len) ==
    /\ pc[w] = "idle"
    /\ len \notin 1..MaxMsgLen \/ SessionsByTxId(id) = {}
    /\ res' = [res EXCEPT ![w] = "ERR_INVALID_MSG"]
    /\ UNCHANGED <<sessVars, rxq, txq, pc, slot, call, dl, cf, rd, forced>>

\* The session is looked up before lock_ is taken.
TransmitCall(w, id, len, timeout) ==
    /\ pc[w] = "idle"
    /\ len \in 1..MaxMsgLen /\ SessionsByTxId(id) # {}
    /\ Goto(w, "found")
    /\ slot' = [slot EXCEPT ![w] = Least(SessionsByTxId(id))]
    /\ call' = [call EXCEPT ![w] = [id |-> id, len |-> len, timeout |-> timeout]]
    /\ res' = [res EXCEPT ![w] = "pending"]
    /\ UNCHANGED <<sessVars, rxq, txq, dl, cf, rd, forced>>

TransmitBusy(w) ==
    /\ pc[w] = "found" /\ ~Available(slot[w])
    /\ Return(w, "ERR_BUFFER_FULL")
    /\ UNCHANGED <<sessVars, rxq, txq, rd, forced>>

\* Up to 7 bytes: the frame is built under lock_ and written outside it.
TransmitSingle(w) ==
    /\ pc[w] = "found" /\ Available(slot[w]) /\ call[w].len <= 7
    /\ Goto(w, "single")
    /\ UNCHANGED <<sessVars, rxq, txq, slot, call, dl, cf, res, rd, forced>>

WriteSingle(w) ==
    /\ pc[w] = "single"
    /\ \/ CanWriteOk(SingleFrame(call[w].id, w, call[w].len)) /\ Return(w, "NOERROR")
       \/ CanWriteFails /\ Return(w, "ERR_FAILED")
    /\ UNCHANGED <<sessVars, rxq, rd, forced>>

\* More: the first frame carries 6 bytes and goes out under lock_.
MLoaded(w, t) ==
    [t EXCEPT !.msg = w, !.len = call[w].len, !.sn = 1, !.bsSent = 0, !.bs = 0]
Loaded(w, t) ==
    [t EXCEPT !.msg = w, !.len = call[w].len, !.off = 6, !.sn = 1,
              !.bsSent = 0, !.bs = 0]

TransmitFirst(w) ==
    LET s == slot[w]
        wait == IF call[w].timeout > 0 THEN call[w].timeout ELSE NBs
    IN  /\ pc[w] = "found" /\ Available(s) /\ call[w].len > 7
        /\ \/ /\ CanWriteOk(FirstFrame(call[w].id, w, call[w].len))
              /\ tx' = [tx EXCEPT ![s] =
                           [Loaded(w, @) EXCEPT !.state = "WAIT_FC", !.dl = wait]]
              /\ Goto(w, "poll")
              /\ dl' = [dl EXCEPT ![w] = wait]
              /\ UNCHANGED <<slot, call, cf, res>>
              /\ forced' = IF Inside(s) = {} THEN [forced EXCEPT ![s] = "no"] ELSE forced
           \/ /\ CanWriteFails
              /\ tx' = [tx EXCEPT ![s] = Loaded(w, @)]
              /\ Return(w, "ERR_FAILED")
              /\ UNCHANGED forced
        /\ UNCHANGED <<sess, rx, bsTx, rxq, rd>>

\* The polling loop: before the deadline the state is read under lock_, which
\* is released before the state is acted on.
PollTurn(w) ==
    /\ pc[w] = "poll" /\ dl[w] > 0
    /\ Goto(w, "look")
    /\ UNCHANGED <<sessVars, rxq, txq, slot, call, dl, cf, res, rd, forced>>

PollWaiting(w) ==
    /\ pc[w] = "look" /\ tx[slot[w]].state = "WAIT_FC"
    /\ Goto(w, "poll")
    /\ UNCHANGED <<sessVars, rxq, txq, slot, call, dl, cf, res, rd, forced>>

PollIdle(w) ==
    /\ pc[w] = "look" /\ tx[slot[w]].state = "IDLE"
    /\ Return(w, "NOERROR")
    /\ UNCHANGED <<sessVars, rxq, txq, rd, forced>>

PollSending(w) ==
    /\ pc[w] = "look" /\ tx[slot[w]].state = "SENDING_CF"
    /\ Goto(w, "burst")
    /\ UNCHANGED <<sessVars, rxq, txq, slot, call, dl, cf, res, rd, forced>>

MPollExpired(w) ==
    /\ pc[w] = "poll" /\ tx[slot[w]].dl = 0
    /\ Goto(w, "expired")
    /\ UNCHANGED <<sessVars, rxq, txq, slot, call, dl, cf, res, rd, forced>>
PollExpired(w) ==
    /\ pc[w] = "poll" /\ dl[w] = 0
    /\ Goto(w, "expired")
    /\ UNCHANGED <<sessVars, rxq, txq, slot, call, dl, cf, res, rd, forced>>

\* The head of the burst loop, run under lock_ on the slot's state t: done,
\* block complete, or the next frame built and lock_ released to write it.
BurstHead(w, t) ==
    LET s == slot[w] IN
    \/ /\ Finished(t)
       /\ tx' = [tx EXCEPT ![s] = [t EXCEPT !.state = "IDLE"]]
       /\ Return(w, "NOERROR")
    \/ /\ ~Finished(t) /\ BlockFull(t)
       /\ tx' = [tx EXCEPT ![s] =
                    [t EXCEPT !.state = "WAIT_FC", !.bsSent = 0, !.dl = NBs]]
       /\ Goto(w, "renew")
       /\ cf' = [cf EXCEPT ![w] = NoCf]
       /\ UNCHANGED <<slot, call, dl, res>>
    \/ /\ ~Finished(t) /\ ~BlockFull(t)
       /\ tx' = [tx EXCEPT ![s] = t]
       /\ cf' = [cf EXCEPT ![w] =
                    [msg |-> t.msg, sn |-> t.sn, off |-> t.off, n |-> CfLen(t)]]
       /\ Goto(w, "cf")
       /\ UNCHANGED <<slot, call, dl, res>>

StartBurst(w) ==
    /\ pc[w] = "burst"
    /\ BurstHead(w, tx[slot[w]])
    /\ UNCHANGED <<sess, rx, bsTx, rxq, txq, rd, forced>>

\* canWrite() outside lock_, on the id the slot holds by then.
WriteConsecutive(w) ==
    /\ pc[w] = "cf"
    /\ \/ CanWriteOk(ConsecutiveFrame(sess[slot[w]].txId, cf[w])) /\ Goto(w, "sent")
       \/ CanWriteFails /\ Goto(w, "abort")
    /\ UNCHANGED <<sessVars, rxq, slot, call, dl, cf, res, rd, forced>>

AfterConsecutive(w, t) ==
    [t EXCEPT !.off = @ + cf[w].n, !.sn = (@ + 1) % 16, !.bsSent = @ + 1]

ContinueBurst(w) ==
    /\ pc[w] = "sent"
    /\ BurstHead(w, AfterConsecutive(w, tx[slot[w]]))
    /\ UNCHANGED <<sess, rx, bsTx, rxq, txq, rd, forced>>

\* deadline = s->txFcDeadline, read after lock_ is released.
RenewDeadline(w) ==
    /\ pc[w] = "renew"
    /\ dl' = [dl EXCEPT ![w] = tx[slot[w]].dl]
    /\ Goto(w, "poll")
    /\ UNCHANGED <<sessVars, rxq, txq, slot, call, cf, res, rd, forced>>

\* Failed frame, or no flow control in time: the slot is set idle again.
GiveUp(w) ==
    /\ pc[w] \in {"abort", "expired"}
    /\ tx' = [tx EXCEPT ![slot[w]].state = "IDLE"]
    /\ Return(w, IF pc[w] = "abort" THEN "ERR_FAILED" ELSE "ERR_TIMEOUT")
    /\ UNCHANGED <<sess, rx, bsTx, rxq, txq, rd, forced>>

----------------------------------------------------------------------------
\* processFrame(), called by the channel's RX thread

\* enqueueRx: a full queue loses its oldest message.
Enqueue(q, m) == Append(IF Len(q) >= RxqCap THEN Tail(q) ELSE q, m)

\* sendFC: the result of canWrite() is not looked at.  The frame's block size is
\* the low byte of bsTx_, which setConfig() takes as it comes.
SendFC(s) ==
    txq' = IF Len(txq) < TxqCap
           THEN Append(txq, FlowControl(sess[s].txId, bsTx % 256)) ELSE txq

\* A flow control frame counts only while its session waits for one.
ReceiveFlowControl(id, fs, bs) ==
    /\ SessionsByRxId(id) # {}
    /\ LET s == Least(SessionsByRxId(id)) IN
       /\ tx[s].state = "WAIT_FC"
       /\ \/ /\ fs = "CTS"
             /\ tx' = [tx EXCEPT ![s].bs = bs, ![s].bsSent = 0,
                                 ![s].state = "SENDING_CF"]
             /\ UNCHANGED forced
          \/ /\ fs = "WAIT"
             /\ tx' = [tx EXCEPT ![s].dl = NBs]
             /\ UNCHANGED forced
          \/ /\ fs = "OVFLW"
             /\ tx' = [tx EXCEPT ![s].state = "IDLE"]
             /\ Disturb(s, "overflow")
    /\ UNCHANGED <<sess, rx, bsTx, rxq, txq, writerVars, rd>>

ReceiveSingle(id, data) ==
    /\ SessionsByRxId(id) # {}
    /\ rxq' = Enqueue(rxq, [id |-> id, buf |-> <<data>>])
    /\ UNCHANGED <<sessVars, txq, writerVars, rd, forced>>

\* The assembly r restarted by a first frame that brings n payload bytes, and
\* what an in-sequence consecutive frame of n bytes (padding included) adds.
MRestarted(r, len, n, data) ==
    [state |-> "RECEIVING", len |-> len, off |-> IF n > len THEN len ELSE n,
     sn |-> 1, bsCount |-> 0, buf |-> Append(r.buf, data)]
Restarted(r, len, n, data) ==
    [state |-> "RECEIVING", len |-> len, off |-> IF n > len THEN len ELSE n,
     sn |-> 1, bsCount |-> 0, buf |-> <<data>>]

MTaken(r, n) == n
Taken(r, n) == IF n > r.len - r.off THEN r.len - r.off ELSE n

Extended(r, n, data) ==
    [r EXCEPT !.off = @ + Taken(r, n), !.sn = (@ + 1) % 16,
              !.bsCount = @ + 1, !.buf = Append(@, data)]

MBlockReceived(t) == bsTx > 0 /\ t.bsCount > bsTx
BlockReceived(t) == bsTx > 0 /\ t.bsCount >= bsTx

ReceiveFirst(id, len, n, data) ==
    /\ SessionsByRxId(id) # {}
    /\ len \in 1..MaxMsgLen /\ n \in 0..6
    /\ LET s == Least(SessionsByRxId(id)) IN
       /\ rx' = [rx EXCEPT ![s] = Restarted(@, len, n, data)]
       /\ SendFC(s)
    /\ UNCHANGED <<sess, tx, bsTx, rxq, writerVars, rd, forced>>

\* Out of sequence: the assembly is dropped.  Complete: delivered.  A block
\* is complete: the sender is told to go on.
ReceiveConsecutive(id, sn, n, data) ==
    /\ SessionsByRxId(id) # {}
    /\ n \in 0..7
    /\ LET s == Least(SessionsByRxId(id))
           r == rx[s]
           t == Extended(r, n, data)
       IN  /\ r.state = "RECEIVING"
           /\ \/ /\ sn # r.sn
                 /\ rx' = [rx EXCEPT ![s].state = "IDLE"]
                 /\ UNCHANGED <<rxq, txq>>
              \/ /\ sn = r.sn /\ t.off >= t.len
                 /\ rx' = [rx EXCEPT ![s] = [t EXCEPT !.state = "IDLE"]]
                 /\ rxq' = Enqueue(rxq, [id |-> id, buf |-> t.buf])
                 /\ UNCHANGED txq
              \/ /\ sn = r.sn /\ t.off < t.len /\ BlockReceived(t)
                 /\ rx' = [rx EXCEPT ![s] = [t EXCEPT !.bsCount = 0]]
                 /\ SendFC(s)
                 /\ UNCHANGED rxq
              \/ /\ sn = r.sn /\ t.off < t.len /\ ~BlockReceived(t)
                 /\ rx' = [rx EXCEPT ![s] = t]
                 /\ UNCHANGED <<rxq, txq>>
    /\ UNCHANGED <<sess, tx, bsTx, writerVars, rd, forced>>

----------------------------------------------------------------------------
\* receive()

StartReceive(r, want, timeout) ==
    /\ rd[r].pc = "idle"
    /\ rd' = [rd EXCEPT ![r] = [pc |-> "loop", want |-> want, got |-> <<>>,
                                dl |-> timeout, res |-> "pending"]]
    /\ UNCHANGED <<sessVars, rxq, txq, writerVars, forced>>

MReceiveOne(r) ==
    /\ rd[r].pc = "loop" /\ Len(rd[r].got) < rd[r].want /\ rxq # <<>>
    /\ rd' = [rd EXCEPT ![r].got = Append(@, Head(rxq))]
    /\ UNCHANGED <<sessVars, rxq, txq, writerVars, forced>>
ReceiveOne(r) ==
    /\ rd[r].pc = "loop" /\ Len(rd[r].got) < rd[r].want /\ rxq # <<>>
    /\ rd' = [rd EXCEPT ![r].got = Append(@, Head(rxq))]
    /\ rxq' = Tail(rxq)
    /\ UNCHANGED <<sessVars, txq, writerVars, forced>>

\* The loop ends when the request is met, when the queue runs dry after the
\* first message, or at the deadline.
MFinishReceive(r) ==
    LET k == Len(rd[r].got) IN
    /\ rd[r].pc = "loop"
    /\ k >= rd[r].want \/ (rxq = <<>> /\ k > 0)
    /\ rd' = [rd EXCEPT ![r].pc = "idle", ![r].dl = 0, ![r].res = "ERR_TIMEOUT"]
    /\ UNCHANGED <<sessVars, rxq, txq, writerVars, forced>>
FinishReceive(r) ==
    LET k == Len(rd[r].got) IN
    /\ rd[r].pc = "loop"
    /\ k >= rd[r].want \/ (rxq = <<>> /\ (k > 0 \/ rd[r].dl = 0))
    /\ rd' = [rd EXCEPT ![r].pc = "idle", ![r].dl = 0,
                 ![r].res = IF k = 0 THEN "ERR_BUFFER_EMPTY"
                            ELSE IF k < rd[r].want THEN "ERR_TIMEOUT" ELSE "NOERROR"]
    /\ UNCHANGED <<sessVars, rxq, txq, writerVars, forced>>

----------------------------------------------------------------------------
Less(n) == IF n > 0 THEN n - 1 ELSE 0

\* A tick of GetTickCount().
Tick ==
    /\ \/ \E s \in Slots : tx[s].dl > 0
       \/ \E w \in Writers : dl[w] > 0
       \/ \E r \in Readers : rd[r].dl > 0
    /\ tx' = [s \in Slots |-> [tx[s] EXCEPT !.dl = Less(@)]]
    /\ dl' = [w \in Writers |-> Less(dl[w])]
    /\ rd' = [r \in Readers |-> [rd[r] EXCEPT !.dl = Less(@)]]
    /\ UNCHANGED <<sess, rx, bsTx, rxq, txq, pc, slot, call, cf, res, forced>>

\* The steps a transmit() call takes once it is made.
WriterStep(w) ==
    \/ TransmitBusy(w) \/ TransmitSingle(w) \/ WriteSingle(w) \/ TransmitFirst(w)
    \/ PollTurn(w) \/ PollWaiting(w) \/ PollIdle(w) \/ PollSending(w)
    \/ PollExpired(w)
    \/ StartBurst(w) \/ WriteConsecutive(w) \/ ContinueBurst(w)
    \/ RenewDeadline(w) \/ GiveUp(w)

ReaderStep(r) == ReceiveOne(r) \/ FinishReceive(r)

\* What applications ask of the engine.
Request ==
    \/ \E f \in Filters, a \in Addresses : AddSession(f, a)
    \/ \E f \in Filters : RemoveSession(f)
    \/ \E bs \in BlockSizes : SetConfig(bs)
    \/ Shutdown
    \/ \E w \in Writers, a \in Addresses, len \in Lens :
          \/ TransmitRejected(w, a[1], len)
          \/ \E t \in Timeouts : TransmitCall(w, a[1], len, t)
    \/ \E r \in Readers, want \in Wants, t \in Timeouts : StartReceive(r, want, t)

EngineStep ==
    \/ \E w \in Writers : WriterStep(w)
    \/ \E r \in Readers : ReaderStep(r)
    \/ Tick

\* The bus takes queued frames, and an arbitrary ECU sends any frame.
Environment ==
    \/ /\ txq # <<>> /\ txq' = Tail(txq)
       /\ UNCHANGED <<sessVars, rxq, writerVars, rd, forced>>
    \/ \E a \in Addresses :
          \/ \E fs \in FlowStatuses, bs \in PeerBlockSizes :
                ReceiveFlowControl(a[2], fs, bs)
          \/ \E len \in PeerLens, n \in PeerChunks :
                ReceiveSingle(a[2], "data") \/ ReceiveFirst(a[2], len, n, "data")
          \/ \E sn \in 0..15, n \in PeerChunks : ReceiveConsecutive(a[2], sn, n, "data")

EngineNext == Request \/ EngineStep \/ Environment

EngineSpec == Init /\ [][EngineNext]_vars

\* Every thread inside a call keeps running, and time passes.
EngineFair ==
    /\ \A w \in Writers : WF_vars(WriterStep(w))
    /\ \A r \in Readers : WF_vars(ReaderStep(r))
    /\ WF_vars(Tick)

EngineFairSpec == EngineSpec /\ EngineFair

----------------------------------------------------------------------------
\* Properties

TxState == {"IDLE", "WAIT_FC", "SENDING_CF"}
Pcs == {"idle", "found", "single"} \cup InTx

SessType == [active : BOOLEAN, filter : Nat, txId : Nat, rxId : Nat]
TxType == [state : TxState, msg : Writers \cup {"none"}, len : Nat, off : Nat,
           sn : 0..15, bs : Nat, bsSent : Nat, dl : Nat]
TxResult == {"none", "pending", "NOERROR", "ERR_INVALID_MSG", "ERR_BUFFER_FULL",
             "ERR_FAILED", "ERR_TIMEOUT"}
CallType == [id : Nat, len : Nat, timeout : Nat]
CfType == [msg : Writers \cup {"none"}, sn : 0..15, off : Nat, n : 0..7]

\* Types of the transmit side, and of what it shares with the receive side.
TypeOK ==
    /\ sess \in [Slots -> SessType]
    /\ tx \in [Slots -> TxType]
    /\ bsTx \in Nat
    /\ pc \in [Writers -> Pcs]
    /\ slot \in [Writers -> 0..NSlots]
    /\ \A w \in Writers : pc[w] # "idle" => slot[w] \in Slots
    /\ call \in [Writers -> CallType]
    /\ dl \in [Writers -> Nat]
    /\ cf \in [Writers -> CfType]
    /\ res \in [Writers -> TxResult]
    /\ forced \in [Slots -> {"no", "overflow", "reuse"}]

\* Two threads never transmit on one session at once: the second is refused
\* with ERR_BUFFER_FULL.  It is lock_ plus txState that keeps them apart, so
\* the promise ends where something else resets txState under the first one:
\* an overflow frame, or the slot given to another filter.
TxExclusive ==
    \A v, w \in Writers :
        (pc[v] \in InTx /\ pc[w] \in InTx /\ slot[v] = slot[w]
            /\ forced[slot[v]] = "no") => v = w

\* A writer inside a transmission whose slot was not reset owns the slot's
\* transmit state: the message is its own, the state says so, and the frame it
\* has built and not counted yet still fits, in the message and in the block.
\* Ownership is what makes TxExclusive, HonestSuccess and BlockRespected
\* inductive.
Owns(w) ==
    LET t == tx[slot[w]] IN
    /\ t.msg = w /\ t.len = call[w].len /\ t.off <= t.len
    /\ t.state # "IDLE"
    /\ pc[w] \in InBurst \cup {"abort"} => t.state = "SENDING_CF"
    /\ pc[w] \in {"cf", "sent"} =>
          t.off + cf[w].n <= t.len /\ (t.bs > 0 => t.bsSent < t.bs)

TxInv ==
    \A w \in Writers :
        /\ pc[w] # "idle" => res[w] = "pending"
        /\ (pc[w] \in InTx /\ forced[slot[w]] = "no") => Owns(w)

\* A consecutive frame on its way to the driver fits in the block that the ECU
\* granted last, whatever flow control came while the lock was released to
\* write it (unless the slot was reset): the ECU never gets a frame too many.
BlockRespected ==
    \A w \in Writers :
        (pc[w] \in {"cf", "sent"} /\ forced[slot[w]] = "no" /\ tx[slot[w]].bs > 0)
            => tx[slot[w]].bsSent < tx[slot[w]].bs

\* A multi-frame transmit() that returns STATUS_NOERROR has handed the driver
\* every byte of the message it was called with, unless its slot was reset.
HonestSuccess ==
    [][\A w \in Writers :
          (pc[w] \in InTx /\ forced[slot[w]] = "no" /\ res'[w] = "NOERROR")
              => /\ tx[slot[w]].msg = w
                 /\ tx'[slot[w]].off = call[w].len]_vars

\* What the tests and comments say and the code does not do; no run claims it.
\* An overflow flow control frame makes the transmit() it aborts fail.
OverflowFails ==
    [][\A w \in Writers :
          (pc[w] \in InTx /\ forced[slot[w]] = "overflow") => res'[w] # "NOERROR"]_vars

\* Nor this: transmit() stops waiting only once the session's deadline has passed, the
\* one that a WAIT flow control frame extends.
WaitExtendsDeadline ==
    [][\A w \in Writers :
          (pc[w] = "poll" /\ pc'[w] = "expired" /\ forced[slot[w]] = "no")
              => tx[slot[w]].dl = 0]_vars

\* However frames arrive and sessions come and go, an assembly never holds more
\* than the length its first frame announced (the bound of the memcpy into
\* rxBuf), and the receive queue never more than its ring has room for.
RxBounded ==
    /\ \A s \in Slots : rx[s].off <= rx[s].len /\ rx[s].len <= MaxMsgLen
    /\ Len(rxq) <= RxqCap

\* Every receive() returns: with what there is, or at its deadline, even while
\* frames keep arriving and the queue overflows.
ReceiveReturns == \A r \in Readers : (rd[r].pc = "loop") ~> (rd[r].pc = "idle")

\* Every transmit() returns, whatever the ECU answers or fails to answer, unless
\* its slot was reset: then it may be kept busy with the transmissions others
\* start there.
TransmitReturns ==
    \A w \in Writers :
        (pc[w] # "idle") ~> (pc[w] = "idle" \/ forced[slot[w]] # "no")

=============================================================================
