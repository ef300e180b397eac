----------------------------- MODULE IsoTpLink -----------------------------
(***************************************************************************)
(* The engine connected to ECUs that speak ISO 15765-2, one behind each    *)
(* address pair: an ECU reassembles what transmit() sends and answers with *)
(* flow control, and sends messages of its own, which processFrame()       *)
(* reassembles for receive().  Frames to the ECU wait in the driver's      *)
(* queue txq; frames from it reach processFrame() in the order sent, may   *)
(* be lost, and find no session while no filter is set.                    *)
(***************************************************************************)
EXTENDS IsoTpEngine

CONSTANTS
    MaxMsgs,  \* messages each ECU starts
    MaxLost   \* consecutive frames of its messages that the bus loses

ASSUME LinkAssumption == MaxMsgs \in Nat /\ MaxLost \in Nat

VARIABLES
    ear,   \* what each ECU has received of our current message
    mouth, \* what it has sent of its own
    lost,  \* frames of theirs lost so far
    full   \* history: a frame of theirs found our transmit queue full

linkVars == <<vars, ear, mouth, lost, full>>

IdleEar == [st |-> "idle", msg |-> "none", len |-> 0, off |-> 0, sn |-> 0,
            left |-> 0, owes |-> FALSE, intact |-> TRUE]
IdleMouth == [st |-> "idle", k |-> 0, len |-> 0, off |-> 0, sn |-> 0, left |-> 0]

LinkInit ==
    /\ Init
    /\ ear = [a \in Addresses |-> IdleEar]
    /\ mouth = [a \in Addresses |-> IdleMouth]
    /\ lost = 0
    /\ full = FALSE

----------------------------------------------------------------------------
\* The ECU's reception: a consecutive frame out of sequence aborts it; after
\* the first frame and after each block it owes a flow control frame.

Hear(e, f) ==
    CASE f.kind = "SF" ->
            [IdleEar EXCEPT !.st = "done", !.msg = f.msg, !.len = f.len, !.off = f.len]
      [] f.kind = "FF" ->
            [IdleEar EXCEPT !.st = "receiving", !.msg = f.msg, !.len = f.len,
                            !.off = 6, !.sn = 1, !.owes = TRUE]
      [] f.kind = "CF" /\ e.st = "receiving" /\ f.sn # e.sn ->
            [e EXCEPT !.st = "aborted", !.owes = FALSE]
      [] f.kind = "CF" /\ e.st = "receiving" /\ f.sn = e.sn ->
            [e EXCEPT !.off = @ + f.n, !.sn = (@ + 1) % 16,
                      !.st = IF e.off + f.n >= e.len THEN "done" ELSE @,
                      !.left = Less(@),
                      !.owes = @ \/ (e.left = 1 /\ e.off + f.n < e.len),
                      !.intact = @ /\ f.msg = e.msg /\ f.off = e.off]
      [] OTHER -> e

\* A flow control frame of ours lets the ECU send its next block.
Allow(m, f) ==
    IF f.kind = "FC" /\ m.st = "wait"
    THEN [m EXCEPT !.st = "sending", !.left = f.bs]
    ELSE m

EcuTakes ==
    LET f == Head(txq) IN
    /\ txq # <<>>
    /\ txq' = Tail(txq)
    /\ ear' = [a \in Addresses |-> IF a[1] = f.id THEN Hear(ear[a], f) ELSE ear[a]]
    /\ mouth' = [a \in Addresses |-> IF a[1] = f.id THEN Allow(mouth[a], f) ELSE mouth[a]]
    /\ UNCHANGED <<sessVars, rxq, writerVars, rd, forced, lost, full>>

\* The session that a frame from ECU a finds, if any.
Matched(a) == SessionsByRxId(a[2])
WaitsForFlow(a) == Matched(a) # {} /\ tx[Least(Matched(a))].state = "WAIT_FC"
Assembles(a) == Matched(a) # {} /\ rx[Least(Matched(a))].state = "RECEIVING"

EcuFlow(a, fs, bs) ==
    /\ ear[a].owes
    /\ IF WaitsForFlow(a) THEN ReceiveFlowControl(a[2], fs, bs) ELSE UNCHANGED vars
    /\ ear' = [ear EXCEPT ![a] =
                 CASE fs = "CTS" -> [@ EXCEPT !.owes = FALSE, !.left = bs]
                   [] fs = "WAIT" -> @
                   [] fs = "OVFLW" -> [@ EXCEPT !.owes = FALSE, !.st = "aborted"]]
    /\ UNCHANGED <<mouth, lost, full>>

----------------------------------------------------------------------------
\* The ECU's own messages.  A chunk's tag names message, offset and length.

EcuFirst(a, len) ==
    LET k == mouth[a].k + 1 IN
    /\ k <= MaxMsgs /\ len > 7
    /\ mouth' = [mouth EXCEPT ![a] =
                   [st |-> "wait", k |-> k, len |-> len, off |-> 6, sn |-> 1, left |-> 0]]
    /\ IF Matched(a) # {} THEN ReceiveFirst(a[2], len, 6, <<k, 0, len>>)
                          ELSE UNCHANGED vars
    /\ full' = (full \/ Len(txq) >= TxqCap)
    /\ UNCHANGED <<ear, lost>>

EcuSingle(a) ==
    LET k == mouth[a].k + 1 IN
    /\ k <= MaxMsgs /\ mouth[a].st = "idle"
    /\ mouth' = [mouth EXCEPT ![a].k = k]
    /\ IF Matched(a) # {} THEN ReceiveSingle(a[2], <<k, 0, 1>>) ELSE UNCHANGED vars
    /\ full' = (full \/ Len(txq) >= TxqCap)
    /\ UNCHANGED <<ear, lost>>

\* Its frames are padded to 7 bytes.  After the last one the ECU is done; after
\* a block it waits again.
EcuConsecutive(a, arrives) ==
    LET m == mouth[a]
        n == IF m.len - m.off > 7 THEN 7 ELSE m.len - m.off
    IN  /\ m.st = "sending"
        /\ mouth' = [mouth EXCEPT ![a] =
             [m EXCEPT !.off = @ + n, !.sn = (@ + 1) % 16, !.left = Less(@),
                       !.st = IF m.off + n >= m.len THEN "idle"
                              ELSE IF m.left = 1 THEN "wait" ELSE @]]
        /\ \/ /\ arrives
              /\ IF Assembles(a)
                 THEN ReceiveConsecutive(a[2], m.sn, 7, <<m.k, m.off, m.len>>)
                 ELSE UNCHANGED vars
              /\ UNCHANGED lost
           \/ ~arrives /\ lost < MaxLost /\ lost' = lost + 1 /\ UNCHANGED vars
        /\ full' = (full \/ Len(txq) >= TxqCap)
        /\ UNCHANGED ear

Ecu(a) ==
    \/ \E fs \in FlowStatuses, bs \in PeerBlockSizes : EcuFlow(a, fs, bs)
    \/ \E len \in PeerLens : EcuFirst(a, len)
    \/ EcuSingle(a)
    \/ \E arrives \in BOOLEAN : EcuConsecutive(a, arrives)

Next ==
    \/ (Request \/ EngineStep) /\ UNCHANGED <<ear, mouth, lost, full>>
    \/ EcuTakes
    \/ \E a \in Addresses : Ecu(a)

Spec == LinkInit /\ [][Next]_linkVars

----------------------------------------------------------------------------
\* Properties

(* What transmit() sends arrives: a message the ECU accepts is the one the *)
(* application wrote, no chunk missing, repeated or taken from another     *)
(* message; and when transmit() has reported success and the bus is quiet, *)
(* the ECU whose last message was that call's has all of it.               *)
EcuIntact == \A a \in Addresses : ear[a].st = "done" => ear[a].intact

SuccessIsDelivered ==
    \A a \in Addresses, w \in Writers :
        (txq = <<>> /\ ear[a].msg = w /\ pc[w] = "idle" /\ res[w] = "NOERROR"
            /\ \A s \in Slots : forced[s] = "no")
        => ear[a].st = "done"

Delivered == EcuIntact /\ SuccessIsDelivered

\* What the theorems about transmission ask: while a transmit() is inside its
\* transmission, its session is not reset nor given to another filter, and no
\* other session transmits to the same id; for success, one ECU.
Undisturbed ==
    \A w \in Writers : pc[w] \in InTx =>
        sess[slot[w]].txId = call[w].id /\ forced[slot[w]] = "no"
OneSender ==
    \A v, w \in Writers :
        (pc[v] \in InTx /\ pc[w] \in InTx /\ call[v].id = call[w].id) => slot[v] = slot[w]
OneAddress == \A a, b \in Addresses : a = b

\* A buffer that holds every chunk of one message, in order: the first frame
\* brings 6 bytes and each consecutive frame 7.
Whole(buf) ==
    LET k == buf[1][1]
        len == buf[1][3]
    IN  /\ Len(buf) = 1 + len \div 7
        /\ \A i \in 1..Len(buf) : buf[i] = <<k, IF i = 1 THEN 0 ELSE 7 * i - 8, len>>

\* What the theorems about reception ask of the ECUs and of the application: each
\* ECU answers on an id of its own, no two filters are set for one of these ids at
\* once (HandleManager does not refuse a second); for flow control also that
\* ISO15765_BS_TX is not changed, and is no larger than the byte of the frame.
OwnIds == \A a, b \in Addresses : a[2] = b[2] => a = b
OneSession ==
    \A s, t \in Slots :
        (sess[s].active /\ sess[t].active /\ sess[s].rxId = sess[t].rxId) => s = t
OneBlockSize == \A b, c \in BlockSizes : b = c
ByteBlockSizes == BlockSizes \subseteq 0..255

(* What the application reads, and what waits for it, are whole messages   *)
(* the ECU sent, whatever was lost, restarted or reconfigured in between;  *)
(* one reader gets them in the order they were sent, none twice.           *)
ReceivedIntact ==
    /\ \A i \in 1..Len(rxq) : Whole(rxq[i].buf)
    /\ \A r \in Readers : \A i \in 1..Len(rd[r].got) : Whole(rd[r].got[i].buf)

ReceivedInOrder ==
    \A r \in Readers :
        LET seen == rd[r].got \o rxq IN
        \A i, j \in 1..Len(seen) :
            (i < j /\ seen[i].id = seen[j].id) => seen[i].buf[1][1] < seen[j].buf[1][1]

Received == ReceivedIntact /\ ReceivedInOrder

\* Never do both sides wait for the other: the engine for a frame of the
\* message it assembles, the ECU for the flow control frame that lets it send
\* (a flow control frame refused by a full transmit queue is not sent again).
\* It takes a block size that fits the frame's byte: ByteBlockSizes.
ReceiveNeverStalls ==
    \A a \in Addresses :
        (Assembles(a) /\ ~full /\ mouth[a].st = "wait"
            /\ \A i \in 1..Len(txq) : txq[i].kind # "FC")
        => rx[Least(Matched(a))].off # mouth[a].off

\* Never do both sides wait for the other: transmit() for a flow control
\* frame, the ECU for the frames that its flow control has allowed.
TransmitNeverStalls ==
    \A a \in Addresses : \A w \in Writers :
        (pc[w] \in {"poll", "look", "renew"} /\ txq = <<>> /\ WaitsForFlow(a)
            /\ slot[w] = Least(Matched(a)) /\ ear[a].st = "receiving"
            /\ ear[a].msg = w)
        => ear[a].owes

=============================================================================
