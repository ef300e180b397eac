---------------------------- MODULE IsoTpProofs ----------------------------
(***************************************************************************)
(* The ISO-TP engine, first among any ECUs: what holds of it for every     *)
(* number of sessions, threads, filters and messages and every order of    *)
(* their steps.  Then with ECUs that speak the protocol, over a bus that   *)
(* loses frames: what the application reads is what they sent, reception   *)
(* never stalls, and what they accept is what the application wrote.       *)
(***************************************************************************)
EXTENDS IsoTpLink, WellFoundedInduction, TLAPS

NatLess == {ss \in Nat \X Nat : ss[1] < ss[2]}

LEMMA NatLessWellFounded == IsWellFoundedOn(NatLess, Nat)
  BY NatLessThanWellFounded DEF OpToRel, NatLess

LEMMA LeastIn ==
    ASSUME NEW S, S \subseteq Slots, S # {}
    PROVE  Least(S) \in S /\ Least(S) \in Slots
<1>1. S \subseteq Nat
  BY EngineAssumption DEF Slots
<1>2. PICK x \in S : \A y \in S : ~(<<y, x>> \in NatLess)
  BY <1>1, NatLessWellFounded, WFMin
<1>3. ASSUME NEW y \in S
      PROVE  x <= y
  <2>1. x \in Nat /\ y \in Nat
    BY <1>1
  <2>2. y < x => <<y, x>> \in NatLess
    BY <2>1 DEF NatLess
  <2>3. ~(y < x)
    BY <1>2, <2>2
  <2> QED
    BY <2>1, <2>3
<1> QED
  BY <1>3 DEF Least

LEMMA Zeros ==
    /\ ZeroSess \in SessType /\ ZeroTx \in TxType /\ NoCall \in CallType /\ NoCf \in CfType
    /\ InTx \subseteq Pcs /\ {"idle", "found", "single"} \subseteq Pcs
    /\ {"none", "pending", "NOERROR", "ERR_INVALID_MSG", "ERR_BUFFER_FULL", "ERR_FAILED",
        "ERR_TIMEOUT"} \subseteq TxResult
  BY DEF TxResult, ZeroSess, SessType, ZeroTx, TxType, TxState, NoCall, CallType, NoCf, CfType, Pcs

LEMMA TypeInit == Init => TypeOK
  BY Zeros, EngineAssumption DEF Init, TypeOK

\* What a consecutive frame leaves behind is still a transmit state.
LEMMA AfterType ==
    ASSUME TypeOK, NEW w \in Writers, pc[w] # "idle"
    PROVE  AfterConsecutive(w, tx[slot[w]]) \in TxType
<1> DEFINE t == tx[slot[w]]
<1>1. t \in TxType /\ cf[w].n \in 0..7
  BY DEF TypeOK, CfType
<1>2. /\ t.off + cf[w].n \in Nat /\ (t.sn + 1) % 16 \in 0..15 /\ t.bsSent + 1 \in Nat
  BY <1>1 DEF TxType
<1> QED
  BY <1>1, <1>2 DEF AfterConsecutive, TxType

LEMMA LoadedType ==
    ASSUME NEW t \in TxType, NEW w \in Writers, call[w].len \in Nat
    PROVE  Loaded(w, t) \in TxType
<1>1. 1 \in 0..15 /\ 6 \in Nat /\ 0 \in Nat /\ w \in Writers \cup {"none"}
  OBVIOUS
<1> QED
  BY <1>1 DEF Loaded, TxType

LEMMA CfLenType ==
    ASSUME NEW t \in TxType, ~Finished(t)
    PROVE  CfLen(t) \in 1..7
<1>1. t.len \in Nat /\ t.off \in Nat
  BY DEF TxType
<1> QED
  BY <1>1 DEF Finished, CfLen

\* The writers' half of TypeOK.
WriterTypes ==
    /\ pc \in [Writers -> Pcs]
    /\ slot \in [Writers -> 0..NSlots]
    /\ \A w \in Writers : pc[w] # "idle" => slot[w] \in Slots
    /\ call \in [Writers -> CallType]
    /\ dl \in [Writers -> Nat]
    /\ cf \in [Writers -> CfType]
    /\ res \in [Writers -> TxResult]

LEMMA ReturnType ==
    ASSUME TypeOK, NEW w \in Writers, NEW r \in TxResult, Return(w, r)
    PROVE  WriterTypes'
<1>1. 0 \in 0..NSlots
  BY EngineAssumption
<1>2. pc' \in [Writers -> Pcs] /\ slot' \in [Writers -> 0..NSlots]
  BY <1>1, Zeros DEF TypeOK, Return, Goto
<1>3. \A v \in Writers : pc'[v] # "idle" => slot'[v] \in Slots
  BY DEF TypeOK, Return, Goto
<1>4. call' \in [Writers -> CallType] /\ dl' \in [Writers -> Nat] /\ cf' \in [Writers -> CfType]
  BY Zeros DEF TypeOK, Return
<1>5. res' \in [Writers -> TxResult]
  BY DEF TypeOK, Return
<1> QED
  BY <1>2, <1>3, <1>4, <1>5 DEF WriterTypes

LEMMA GotoType ==
    ASSUME TypeOK, NEW w \in Writers, pc[w] # "idle",
           NEW l \in Pcs, Goto(w, l), UNCHANGED slot
    PROVE  /\ pc' \in [Writers -> Pcs]
           /\ slot' \in [Writers -> 0..NSlots]
           /\ \A v \in Writers : pc'[v] # "idle" => slot'[v] \in Slots
  BY DEF TypeOK, Goto

LEMMA BurstType ==
    ASSUME TypeOK, NEW w \in Writers, pc[w] # "idle", NEW t \in TxType, BurstHead(w, t)
    PROVE  WriterTypes' /\ tx' \in [Slots -> TxType]
<1>1. slot[w] \in Slots /\ tx \in [Slots -> TxType]
  BY DEF TypeOK
<1>2. [t EXCEPT !.state = "IDLE"] \in TxType
  BY DEF TxType, TxState
<1>3. [t EXCEPT !.state = "WAIT_FC", !.bsSent = 0, !.dl = NBs] \in TxType
  BY EngineAssumption DEF TxType, TxState
<1>4. CASE Finished(t)
  <2>1. Return(w, "NOERROR") /\ tx' = [tx EXCEPT ![slot[w]] = [t EXCEPT !.state = "IDLE"]]
    BY <1>4 DEF BurstHead
  <2> QED
    BY <2>1, <1>1, <1>2, ReturnType, Zeros
<1>5. CASE ~Finished(t) /\ BlockFull(t)
  <2>1. /\ Goto(w, "renew") /\ UNCHANGED <<slot, call, dl, res>>
        /\ cf' = [cf EXCEPT ![w] = NoCf]
        /\ tx' = [tx EXCEPT ![slot[w]] =
                     [t EXCEPT !.state = "WAIT_FC", !.bsSent = 0, !.dl = NBs]]
    BY <1>5 DEF BurstHead
  <2>2. "renew" \in Pcs
    BY DEF Pcs, InTx
  <2>3. cf' \in [Writers -> CfType]
    BY <2>1, Zeros DEF TypeOK
  <2> QED
    BY <2>1, <2>2, <2>3, <1>1, <1>3, GotoType DEF WriterTypes, TypeOK
<1>6. CASE ~Finished(t) /\ ~BlockFull(t)
  <2> DEFINE c == [msg |-> t.msg, sn |-> t.sn, off |-> t.off, n |-> CfLen(t)]
  <2>1. /\ Goto(w, "cf") /\ UNCHANGED <<slot, call, dl, res>>
        /\ cf' = [cf EXCEPT ![w] = c]
        /\ tx' = [tx EXCEPT ![slot[w]] = t]
    BY <1>6 DEF BurstHead
  <2>2. "cf" \in Pcs
    BY DEF Pcs, InTx, InBurst
  <2>3. CfLen(t) \in 0..7
    BY <1>6, CfLenType
  <2>4. c \in CfType
    BY <2>3 DEF CfType, TxType
  <2>5. cf' \in [Writers -> CfType]
    BY <2>1, <2>4 DEF TypeOK
  <2> QED
    BY <2>1, <2>2, <2>5, <1>1, GotoType DEF WriterTypes, TypeOK
<1> QED
  BY <1>4, <1>5, <1>6 DEF BurstHead

LEMMA ForceType ==
    ASSUME TypeOK, NEW s \in Slots, NEW why \in {"overflow", "reuse"}, Disturb(s, why)
    PROVE  forced' \in [Slots -> {"no", "overflow", "reuse"}]
  BY DEF TypeOK, Disturb

LEMMA RequestType == TypeOK /\ Request => TypeOK'
<1> SUFFICES ASSUME TypeOK, Request PROVE TypeOK'
  OBVIOUS
<1> USE DEF writerVars, sessVars
<1>1. ASSUME NEW f \in Filters, NEW a \in Addresses, AddSession(f, a)
      PROVE  TypeOK'
  <2> DEFINE free == {s \in Slots : ~sess[s].active}
             s == Least(free)
  <2>1. s \in Slots
    BY <1>1, LeastIn DEF AddSession
  <2>2. [active |-> TRUE, filter |-> f, txId |-> a[1], rxId |-> a[2]] \in SessType
    BY EngineAssumption DEF SessType
  <2>3. sess' \in [Slots -> SessType] /\ tx' \in [Slots -> TxType]
    BY <1>1, <2>1, <2>2, Zeros DEF TypeOK, AddSession
  <2>4. forced' \in [Slots -> {"no", "overflow", "reuse"}]
    BY <1>1, <2>1, ForceType DEF AddSession
  <2> QED
    BY <1>1, <2>3, <2>4 DEF TypeOK, AddSession
<1>2. ASSUME NEW f \in Filters, RemoveSession(f)
      PROVE  TypeOK'
  <2>1. sess' \in [Slots -> SessType]
    BY <1>2, LeastIn DEF TypeOK, RemoveSession, SessType
  <2> QED
    BY <1>2, <2>1 DEF TypeOK, RemoveSession
<1>3. ASSUME NEW bs \in BlockSizes, SetConfig(bs)
      PROVE  TypeOK'
  BY <1>3, EngineAssumption DEF TypeOK, SetConfig
<1>4. CASE Shutdown
  <2>1. sess' \in [Slots -> SessType]
    BY <1>4 DEF TypeOK, Shutdown, SessType
  <2> QED
    BY <1>4, <2>1 DEF TypeOK, Shutdown
<1>5. ASSUME NEW w \in Writers, NEW a \in Addresses, NEW len \in Lens,
             TransmitRejected(w, a[1], len)
      PROVE  TypeOK'
  BY <1>5, Zeros DEF TypeOK, TransmitRejected
<1>6. ASSUME NEW w \in Writers, NEW a \in Addresses, NEW len \in Lens,
             NEW t \in Timeouts, TransmitCall(w, a[1], len, t)
      PROVE  TypeOK'
  <2> DEFINE s == Least(SessionsByTxId(a[1]))
             c == [id |-> a[1], len |-> len, timeout |-> t]
  <2>1. s \in Slots
    BY <1>6, LeastIn DEF TransmitCall, SessionsByTxId
  <2>2. c \in CallType
    BY EngineAssumption DEF CallType
  <2>3. pc' \in [Writers -> Pcs] /\ slot' \in [Writers -> 0..NSlots]
    BY <1>6, <2>1, Zeros, EngineAssumption DEF TypeOK, TransmitCall, Goto, Slots
  <2>4. \A v \in Writers : pc'[v] # "idle" => slot'[v] \in Slots
    BY <1>6, <2>1 DEF TypeOK, TransmitCall, Goto
  <2>5. call' \in [Writers -> CallType]
    BY <1>6, <2>2 DEF TypeOK, TransmitCall
  <2>6. res' \in [Writers -> TxResult]
    BY <1>6, Zeros DEF TypeOK, TransmitCall
  <2> QED
    BY <1>6, <2>3, <2>4, <2>5, <2>6 DEF TypeOK, TransmitCall
<1>7. ASSUME NEW r \in Readers, NEW want \in Wants, NEW t \in Timeouts,
             StartReceive(r, want, t)
      PROVE  TypeOK'
  BY <1>7 DEF TypeOK, StartReceive
<1> QED
  BY <1>1, <1>2, <1>3, <1>4, <1>5, <1>6, <1>7 DEF Request

LEMMA WriterType ==
    ASSUME TypeOK, NEW w \in Writers, WriterStep(w)
    PROVE  TypeOK'
<1> USE DEF writerVars, sessVars
<1>0. {"single", "sent", "abort", "burst", "expired", "poll", "look"} \subseteq Pcs
  BY DEF Pcs, InTx, InBurst
<1>1. CASE TransmitBusy(w)
  BY <1>1, ReturnType, Zeros DEF TypeOK, TransmitBusy, WriterTypes
<1>2. CASE TransmitSingle(w)
  BY <1>0, <1>2, GotoType DEF TypeOK, TransmitSingle
<1>3. CASE WriteSingle(w)
  BY <1>3, ReturnType, Zeros DEF TypeOK, WriteSingle, WriterTypes
<1>4. CASE TransmitFirst(w)
  <2> DEFINE s == slot[w]
             wait == IF call[w].timeout > 0 THEN call[w].timeout ELSE NBs
  <2>1. s \in Slots /\ tx[s] \in TxType /\ wait \in Nat /\ call[w].len \in Nat
    BY <1>4, EngineAssumption DEF TypeOK, TransmitFirst, CallType
  <2>2. Loaded(w, tx[s]) \in TxType
    BY <2>1, LoadedType
  <2>3. [Loaded(w, tx[s]) EXCEPT !.state = "WAIT_FC", !.dl = wait] \in TxType
    BY <2>1, <2>2 DEF TxType, TxState
  <2>4. tx' \in [Slots -> TxType]
    BY <1>4, <2>1, <2>2, <2>3 DEF TransmitFirst, TypeOK
  <2>5. forced' \in [Slots -> {"no", "overflow", "reuse"}]
    BY <1>4, <2>1 DEF TransmitFirst, TypeOK
  <2>6. WriterTypes'
    <3>1. CASE Return(w, "ERR_FAILED")
      BY <3>1, ReturnType, Zeros
    <3>2. CASE Goto(w, "poll") /\ dl' = [dl EXCEPT ![w] = wait] /\ UNCHANGED <<slot, call, cf, res>>
      BY <1>0, <1>4, <2>1, <3>2, GotoType DEF TransmitFirst, TypeOK, WriterTypes
    <3> QED
      BY <1>4, <3>1, <3>2 DEF TransmitFirst
  <2> QED
    BY <1>4, <2>4, <2>5, <2>6 DEF TypeOK, TransmitFirst, WriterTypes
<1>5. CASE PollIdle(w)
  BY <1>5, ReturnType, Zeros DEF TypeOK, PollIdle, WriterTypes
<1>13. CASE PollTurn(w)
  BY <1>0, <1>13, GotoType DEF TypeOK, PollTurn
<1>14. CASE PollWaiting(w)
  BY <1>0, <1>14, GotoType DEF TypeOK, PollWaiting
<1>6. CASE PollSending(w)
  BY <1>0, <1>6, GotoType DEF TypeOK, PollSending
<1>7. CASE PollExpired(w)
  BY <1>0, <1>7, GotoType DEF TypeOK, PollExpired
<1>8. CASE StartBurst(w)
  <2>1. tx[slot[w]] \in TxType /\ BurstHead(w, tx[slot[w]]) /\ pc[w] # "idle"
    BY <1>8 DEF TypeOK, StartBurst
  <2> QED
    BY <1>8, <2>1, BurstType DEF TypeOK, StartBurst, WriterTypes
<1>9. CASE WriteConsecutive(w)
  BY <1>0, <1>9, GotoType DEF TypeOK, WriteConsecutive
<1>10. CASE ContinueBurst(w)
  <2>1. /\ AfterConsecutive(w, tx[slot[w]]) \in TxType
        /\ BurstHead(w, AfterConsecutive(w, tx[slot[w]])) /\ pc[w] # "idle"
    BY <1>10, AfterType DEF ContinueBurst
  <2> QED
    BY <1>10, <2>1, BurstType DEF TypeOK, ContinueBurst, WriterTypes
<1>11. CASE RenewDeadline(w)
  <2>1. tx[slot[w]].dl \in Nat
    BY <1>11 DEF TypeOK, RenewDeadline, TxType
  <2> QED
    BY <1>0, <1>11, <2>1, GotoType DEF TypeOK, RenewDeadline
<1>12. CASE GiveUp(w)
  <2>1. tx' \in [Slots -> TxType]
    BY <1>12 DEF TypeOK, GiveUp, TxType, TxState
  <2>2. WriterTypes'
    BY <1>12, ReturnType, Zeros DEF GiveUp
  <2> QED
    BY <1>12, <2>1, <2>2 DEF TypeOK, GiveUp, WriterTypes
<1> QED
  BY <1>1, <1>2, <1>3, <1>4, <1>5, <1>6, <1>7, <1>8, <1>9, <1>10, <1>11, <1>12,
     <1>13, <1>14 DEF WriterStep

LEMMA EnvironmentType == TypeOK /\ Environment => TypeOK'
<1> SUFFICES ASSUME TypeOK, Environment PROVE TypeOK'
  OBVIOUS
<1> USE DEF writerVars, sessVars
<1>1. CASE /\ txq # <<>> /\ txq' = Tail(txq)
           /\ UNCHANGED <<sessVars, rxq, writerVars, rd, forced>>
  BY <1>1 DEF TypeOK
<1>2. ASSUME NEW a \in Addresses, NEW fs \in FlowStatuses, NEW bs \in PeerBlockSizes,
             ReceiveFlowControl(a[2], fs, bs)
      PROVE  TypeOK'
  <2> DEFINE s == Least(SessionsByRxId(a[2]))
  <2>1. s \in Slots /\ tx[s] \in TxType
    BY <1>2, LeastIn DEF ReceiveFlowControl, SessionsByRxId, TypeOK
  <2>2. CASE fs = "CTS"
    <3>1. /\ tx' = [tx EXCEPT ![s].bs = bs, ![s].bsSent = 0, ![s].state = "SENDING_CF"]
          /\ UNCHANGED forced
      BY <1>2, <2>2 DEF ReceiveFlowControl
    <3>2. [tx[s] EXCEPT !.bs = bs, !.bsSent = 0, !.state = "SENDING_CF"] \in TxType
      BY <2>1, EngineAssumption DEF TxType, TxState
    <3>3. tx' = [tx EXCEPT ![s] = [tx[s] EXCEPT !.bs = bs, !.bsSent = 0, !.state = "SENDING_CF"]]
      BY <3>1, <2>1 DEF TypeOK
    <3> QED
      BY <1>2, <2>1, <3>1, <3>2, <3>3 DEF TypeOK, ReceiveFlowControl
  <2>3. CASE fs = "WAIT"
    <3>1. tx' = [tx EXCEPT ![s].dl = NBs] /\ UNCHANGED forced
      BY <1>2, <2>3 DEF ReceiveFlowControl
    <3> QED
      BY <1>2, <2>1, <3>1, EngineAssumption DEF TypeOK, ReceiveFlowControl, TxType
  <2>4. CASE fs = "OVFLW"
    <3>1. tx' = [tx EXCEPT ![s].state = "IDLE"] /\ Disturb(s, "overflow")
      BY <1>2, <2>4 DEF ReceiveFlowControl
    <3>2. tx' \in [Slots -> TxType]
      BY <2>1, <3>1 DEF TypeOK, TxType, TxState
    <3> QED
      BY <1>2, <2>1, <3>1, <3>2, ForceType DEF TypeOK, ReceiveFlowControl
  <2> QED
    BY <2>2, <2>3, <2>4, EngineAssumption
<1>3. ASSUME NEW a \in Addresses, ReceiveSingle(a[2], "data")
      PROVE  TypeOK'
  BY <1>3 DEF TypeOK, ReceiveSingle
<1>4. ASSUME NEW a \in Addresses, NEW len, NEW n, ReceiveFirst(a[2], len, n, "data")
      PROVE  TypeOK'
  BY <1>4 DEF TypeOK, ReceiveFirst
<1>5. ASSUME NEW a \in Addresses, NEW sn, NEW n, ReceiveConsecutive(a[2], sn, n, "data")
      PROVE  TypeOK'
  BY <1>5 DEF TypeOK, ReceiveConsecutive
<1> QED
  BY <1>1, <1>2, <1>3, <1>4, <1>5 DEF Environment

LEMMA TickType == TypeOK /\ Tick => TypeOK'
<1> SUFFICES ASSUME TypeOK, Tick PROVE TypeOK'
  OBVIOUS
<1>1. \A n \in Nat : Less(n) \in Nat
  BY DEF Less
<1>2. \A s \in Slots : [tx[s] EXCEPT !.dl = Less(@)] \in TxType
  BY <1>1 DEF TypeOK, TxType
<1>3. tx' \in [Slots -> TxType] /\ dl' \in [Writers -> Nat]
  BY <1>1, <1>2 DEF Tick, TypeOK
<1> QED
  BY <1>3 DEF TypeOK, Tick

LEMMA TypeStep == TypeOK /\ [EngineNext]_vars => TypeOK'
<1> SUFFICES ASSUME TypeOK, [EngineNext]_vars PROVE TypeOK'
  OBVIOUS
<1>1. ASSUME NEW r \in Readers, ReaderStep(r) PROVE TypeOK'
  BY <1>1 DEF TypeOK, ReaderStep, ReceiveOne, FinishReceive, writerVars, sessVars
<1>2. CASE UNCHANGED vars
  BY <1>2 DEF TypeOK, vars
<1> QED
  BY <1>1, <1>2, RequestType, WriterType, EnvironmentType, TickType
     DEF EngineNext, EngineStep

\* Type correctness of the engine's transmit side.
THEOREM TypeCorrect == EngineSpec => []TypeOK
  BY TypeInit, TypeStep, PTL DEF EngineSpec


----------------------------------------------------------------------------
\* The transmit invariant

LEMMA TxInvInit == Init => TxInv
  BY DEF Init, TxInv, InTx, InBurst

\* Two writers that own one slot are the same writer, and a writer that finds
\* its slot idle shares it with no owner.
LEMMA Alone ==
    ASSUME TypeOK, TxInv, NEW v \in Writers, NEW w \in Writers,
           pc[w] \in InTx, forced[slot[w]] = "no", slot[v] = slot[w],
           pc[v] \in InTx \/ Available(slot[v])
    PROVE  v = w /\ pc[v] \in InTx
  BY DEF TxInv, Owns, Available

\* A step that leaves w, its slot's ownership and the history as they were.
Kept(w) ==
    /\ UNCHANGED <<pc[w], slot[w], call[w], cf[w], res[w]>>
    /\ forced'[slot[w]] = "no" => forced[slot[w]] = "no"
    /\ UNCHANGED <<tx[slot[w]].msg, tx[slot[w]].len, tx[slot[w]].off, tx[slot[w]].state>>
    /\ UNCHANGED <<tx[slot[w]].bs, tx[slot[w]].bsSent>>

LEMMA KeptOwns ==
    ASSUME TxInv, NEW w \in Writers, Kept(w)
    PROVE  /\ pc'[w] # "idle" => res'[w] = "pending"
           /\ (pc'[w] \in InTx /\ forced'[slot'[w]] = "no") => Owns(w)'
  BY DEF TxInv, Owns, Kept

\* A step of writer v leaves every other owner alone: it writes no slot but its
\* own, which no other writer owns.
LEMMA OthersKept ==
    ASSUME TypeOK, TxInv, NEW v \in Writers, NEW w \in Writers, w # v,
           pc[v] \in InTx,
           NEW t, tx' = [tx EXCEPT ![slot[v]] = t] \/ UNCHANGED tx,
           UNCHANGED <<pc[w], slot[w], call[w], cf[w], res[w], forced>>
    PROVE  /\ pc'[w] # "idle" => res'[w] = "pending"
           /\ (pc'[w] \in InTx /\ forced'[slot'[w]] = "no") => Owns(w)'
<1>1. pc'[w] # "idle" => res'[w] = "pending"
  BY DEF TxInv
<1>2. ASSUME pc'[w] \in InTx, forced'[slot'[w]] = "no" PROVE Owns(w)'
  <2>1. pc[w] \in InTx /\ forced[slot[w]] = "no"
    BY <1>2
  <2>2. slot[v] # slot[w]
    BY <2>1, Alone
  <2>3. slot[w] \in Slots /\ slot[v] \in Slots /\ tx \in [Slots -> TxType]
    BY <2>1 DEF TypeOK, InTx, InBurst
  <2>4. tx'[slot[w]] = tx[slot[w]]
    BY <2>2, <2>3
  <2>5. Owns(w)
    BY <2>1 DEF TxInv
  <2> QED
    BY <2>4, <2>5 DEF Owns
<1> QED
  BY <1>1, <1>2

LEMMA ReturnFrame ==
    ASSUME TypeOK, NEW w \in Writers, NEW r, Return(w, r)
    PROVE  /\ pc'[w] = "idle"
           /\ \A v \in Writers \ {w} : UNCHANGED <<pc[v], slot[v], call[v], cf[v], res[v]>>
  BY DEF TypeOK, Return, Goto

\* The burst loop: the frame built fits in what is left of the message.
LEMMA BurstOwns ==
    ASSUME TypeOK, TxInv, NEW w \in Writers, pc[w] \in InBurst,
           NEW t \in TxType, BurstHead(w, t), UNCHANGED forced,
           forced[slot[w]] = "no" =>
              /\ t.msg = w /\ t.len = call[w].len /\ t.off <= t.len
              /\ t.state = "SENDING_CF"
    PROVE  TxInv'
<1>0. pc[w] \in InTx /\ pc[w] # "idle" /\ slot[w] \in Slots /\ tx \in [Slots -> TxType]
  BY DEF TypeOK, InTx, InBurst
<1>1. SUFFICES ASSUME NEW v \in Writers
               PROVE  /\ pc'[v] # "idle" => res'[v] = "pending"
                      /\ (pc'[v] \in InTx /\ forced'[slot'[v]] = "no") => Owns(v)'
  BY DEF TxInv
<1>2. \E u : tx' = [tx EXCEPT ![slot[w]] = u]
  BY DEF BurstHead
<1>3. CASE v # w
  <2>1. UNCHANGED <<pc[v], slot[v], call[v], cf[v], res[v]>>
    BY <1>3, ReturnFrame DEF BurstHead, Goto, TypeOK
  <2> QED
    BY <1>0, <1>2, <1>3, <2>1, OthersKept
<1>4. CASE v = w /\ Finished(t)
  <2>1. pc'[w] = "idle"
    BY <1>4, ReturnFrame DEF BurstHead
  <2> QED
    BY <1>4, <2>1 DEF InTx, InBurst
<1>5. CASE v = w /\ ~Finished(t) /\ BlockFull(t)
  <2>1. /\ tx' = [tx EXCEPT ![slot[w]] = [t EXCEPT !.state = "WAIT_FC", !.bsSent = 0, !.dl = NBs]]
        /\ Goto(w, "renew") /\ UNCHANGED <<slot, call, dl, res>>
    BY <1>5 DEF BurstHead
  <2>2. pc'[w] = "renew" /\ slot'[w] = slot[w] /\ call'[w] = call[w] /\ res'[w] = res[w]
    BY <2>1 DEF Goto, TypeOK
  <2>3. /\ tx'[slot[w]].msg = t.msg /\ tx'[slot[w]].len = t.len
        /\ tx'[slot[w]].off = t.off /\ tx'[slot[w]].state = "WAIT_FC"
    BY <1>0, <2>1 DEF TxType
  <2>4. res[w] = "pending"
    BY <1>0 DEF TxInv
  <2> QED
    BY <1>5, <2>2, <2>3, <2>4 DEF Owns, InBurst
<1>6. CASE v = w /\ ~Finished(t) /\ ~BlockFull(t)
  <2>1. /\ tx' = [tx EXCEPT ![slot[w]] = t]
        /\ cf' = [cf EXCEPT ![w] = [msg |-> t.msg, sn |-> t.sn, off |-> t.off, n |-> CfLen(t)]]
        /\ Goto(w, "cf") /\ UNCHANGED <<slot, call, dl, res>>
    BY <1>6 DEF BurstHead
  <2>2. /\ pc'[w] = "cf" /\ slot'[w] = slot[w] /\ call'[w] = call[w] /\ res'[w] = res[w]
        /\ cf'[w].n = CfLen(t)
    BY <2>1 DEF Goto, TypeOK
  <2>3. tx'[slot[w]] = t
    BY <1>0, <2>1
  <2>4. t.off + CfLen(t) <= t.len
    <3>1. t.off \in Nat /\ t.len \in Nat
      BY DEF TxType
    <3> QED
      BY <3>1 DEF CfLen
  <2>5. res[w] = "pending"
    BY <1>0 DEF TxInv
  <2>6. t.bs > 0 => t.bsSent < t.bs
    BY <1>6 DEF BlockFull, TxType
  <2> QED
    BY <1>6, <2>2, <2>3, <2>4, <2>5, <2>6 DEF Owns
<1> QED
  BY <1>3, <1>4, <1>5, <1>6

\* A step of w that only moves its program counter within the call.
LEMMA MoveOwns ==
    ASSUME TypeOK, TxInv, NEW w \in Writers, pc[w] # "idle",
           NEW l, Goto(w, l), UNCHANGED <<tx, slot, call, cf, res, forced>>,
           l \in InTx => /\ pc[w] \in InTx
                         /\ l \in {"cf", "sent"} => pc[w] \in {"cf", "sent"}
                         /\ l \in InBurst \cup {"abort"} =>
                               \/ pc[w] \in InBurst
                               \/ tx[slot[w]].state = "SENDING_CF"
    PROVE  TxInv'
<1>1. SUFFICES ASSUME NEW v \in Writers
               PROVE  /\ pc'[v] # "idle" => res'[v] = "pending"
                      /\ (pc'[v] \in InTx /\ forced'[slot'[v]] = "no") => Owns(v)'
  BY DEF TxInv
<1>2. CASE v # w
  <2>1. Kept(v)
    BY <1>2 DEF Kept, Goto, TypeOK
  <2> QED
    BY <2>1, KeptOwns
<1>3. CASE v = w
  <2>1. pc'[w] = l
    BY DEF Goto, TypeOK
  <2> QED
    BY <1>3, <2>1 DEF TxInv, Owns
<1> QED
  BY <1>2, <1>3

\* A step that ends w's call, having set its slot to t or left it alone.
LEMMA ReturnOwns ==
    ASSUME TypeOK, TxInv, NEW w \in Writers, pc[w] \in InTx, NEW r, Return(w, r),
           NEW t, tx' = [tx EXCEPT ![slot[w]] = t] \/ UNCHANGED tx, UNCHANGED forced
    PROVE  TxInv'
<1>1. SUFFICES ASSUME NEW v \in Writers
               PROVE  /\ pc'[v] # "idle" => res'[v] = "pending"
                      /\ (pc'[v] \in InTx /\ forced'[slot'[v]] = "no") => Owns(v)'
  BY DEF TxInv
<1>2. CASE v # w
  <2>1. UNCHANGED <<pc[v], slot[v], call[v], cf[v], res[v]>>
    BY <1>2, ReturnFrame
  <2> QED
    BY <1>2, <2>1, OthersKept
<1>3. CASE v = w
  <2>1. pc'[w] = "idle"
    BY ReturnFrame
  <2> QED
    BY <1>3, <2>1 DEF InTx, InBurst
<1> QED
  BY <1>2, <1>3

LEMMA FirstOwns ==
    ASSUME TypeOK, TxInv, NEW w \in Writers, TransmitFirst(w)
    PROVE  TxInv'
<1> DEFINE s == slot[w]
           wait == IF call[w].timeout > 0 THEN call[w].timeout ELSE NBs
<1>0. /\ pc[w] = "found" /\ s \in Slots /\ Available(s) /\ call[w].len > 7
      /\ tx \in [Slots -> TxType] /\ forced \in [Slots -> {"no", "overflow", "reuse"}]
      /\ call[w].len \in Nat
  BY DEF TypeOK, TransmitFirst, CallType
<1>1. SUFFICES ASSUME NEW v \in Writers
               PROVE  /\ pc'[v] # "idle" => res'[v] = "pending"
                      /\ (pc'[v] \in InTx /\ forced'[slot'[v]] = "no") => Owns(v)'
  BY DEF TxInv
<1>2. \E t : tx' = [tx EXCEPT ![s] = t]
  BY DEF TransmitFirst
<1>3. CASE v # w
  <2>1. UNCHANGED <<pc[v], slot[v], call[v], cf[v], res[v]>>
    BY <1>3, ReturnFrame DEF TransmitFirst, Goto, TypeOK
  <2>2. ASSUME pc[v] \in InTx, forced'[slot[v]] = "no" PROVE slot[v] # s
    <3>1. SUFFICES ASSUME slot[v] = s PROVE FALSE
      OBVIOUS
    <3>2. v \in Inside(s)
      BY <2>2, <3>1 DEF Inside
    <3>3. UNCHANGED forced
      BY <3>2 DEF TransmitFirst
    <3> QED
      BY <1>0, <1>3, <2>2, <3>1, <3>3, Alone
  <2>3. ASSUME pc[v] \in InTx, forced'[slot[v]] = "no" PROVE Kept(v)
    <3>1. slot[v] # s /\ slot[v] \in Slots
      BY <2>2, <2>3 DEF TypeOK, InTx, InBurst
    <3>2. tx'[slot[v]] = tx[slot[v]]
      BY <1>0, <1>2, <3>1
    <3>3. forced'[slot[v]] = "no" => forced[slot[v]] = "no"
      BY <1>0, <3>1 DEF TransmitFirst
    <3> QED
      BY <2>1, <3>2, <3>3 DEF Kept
  <2> QED
    BY <2>1, <2>3, KeptOwns DEF TxInv
<1>4. CASE v = w
  <2>1. CASE Return(w, "ERR_FAILED")
    <3>1. pc'[w] = "idle"
      BY <2>1, ReturnFrame
    <3> QED
      BY <1>4, <3>1 DEF InTx, InBurst
  <2>2. CASE /\ tx' = [tx EXCEPT ![s] = [Loaded(w, @) EXCEPT !.state = "WAIT_FC", !.dl = wait]]
             /\ Goto(w, "poll") /\ UNCHANGED <<slot, call, cf, res>>
    <3>1. pc'[w] = "poll" /\ slot'[w] = s /\ call'[w] = call[w] /\ res'[w] = res[w]
      BY <2>2 DEF Goto, TypeOK
    <3>2. /\ tx'[s].msg = w /\ tx'[s].len = call[w].len /\ tx'[s].off = 6
          /\ tx'[s].state = "WAIT_FC"
      BY <1>0, <2>2 DEF Loaded, TxType
    <3>3. res[w] = "pending"
      BY <1>0 DEF TxInv
    <3> QED
      BY <1>0, <1>4, <3>1, <3>2, <3>3 DEF Owns, InBurst
  <2> QED
    BY <2>1, <2>2 DEF TransmitFirst
<1> QED
  BY <1>3, <1>4


LEMMA WriterOwns ==
    ASSUME TypeOK, TxInv, NEW w \in Writers, WriterStep(w)
    PROVE  TxInv'
<1> USE DEF writerVars, sessVars
<1>1. CASE TransmitBusy(w)
  <2>1. ASSUME NEW v \in Writers, v # w PROVE Kept(v)
    BY <1>1, <2>1, ReturnFrame DEF TransmitBusy, Kept
  <2>2. pc'[w] = "idle"
    BY <1>1, ReturnFrame DEF TransmitBusy
  <2> QED
    BY <2>1, <2>2, KeptOwns DEF TxInv, InTx, InBurst
<1>2. CASE TransmitSingle(w)
  BY <1>2, MoveOwns DEF TransmitSingle, InTx, InBurst
<1>3. CASE WriteSingle(w)
  <2>1. ASSUME NEW v \in Writers, v # w PROVE Kept(v)
    BY <1>3, <2>1, ReturnFrame DEF WriteSingle, Kept
  <2>2. pc'[w] = "idle"
    BY <1>3, ReturnFrame DEF WriteSingle
  <2> QED
    BY <2>1, <2>2, KeptOwns DEF TxInv, InTx, InBurst
<1>4. CASE TransmitFirst(w)
  BY <1>4, FirstOwns
<1>5. CASE PollTurn(w)
  BY <1>5, MoveOwns DEF PollTurn, InTx, InBurst
<1>6. CASE PollWaiting(w)
  BY <1>6, MoveOwns DEF PollWaiting, InTx, InBurst
<1>7. CASE PollIdle(w)
  <2>1. pc[w] \in InTx /\ Return(w, "NOERROR") /\ UNCHANGED <<tx, forced>>
    BY <1>7 DEF PollIdle, InTx
  <2> QED
    BY <2>1, ReturnOwns
<1>8. CASE PollSending(w)
  BY <1>8, MoveOwns DEF PollSending, InTx, InBurst
<1>9. CASE PollExpired(w)
  BY <1>9, MoveOwns DEF PollExpired, InTx, InBurst
<1>10. CASE StartBurst(w)
  <2>1. /\ pc[w] = "burst" /\ pc[w] \in InBurst /\ pc[w] \in InTx /\ tx[slot[w]] \in TxType
        /\ BurstHead(w, tx[slot[w]]) /\ UNCHANGED forced
    BY <1>10 DEF StartBurst, TypeOK, InBurst, InTx
  <2>2. forced[slot[w]] = "no" =>
           /\ tx[slot[w]].msg = w /\ tx[slot[w]].len = call[w].len
           /\ tx[slot[w]].off <= tx[slot[w]].len /\ tx[slot[w]].state = "SENDING_CF"
    BY <2>1 DEF TxInv, Owns
  <2>3. \A t \in TxType : (t = tx[slot[w]]) => TxInv'
    <3> SUFFICES ASSUME NEW t \in TxType, t = tx[slot[w]] PROVE TxInv'
      OBVIOUS
    <3>1. BurstHead(w, t)
      BY <2>1
    <3>2. forced[slot[w]] = "no" =>
             /\ t.msg = w /\ t.len = call[w].len /\ t.off <= t.len /\ t.state = "SENDING_CF"
      BY <2>2
    <3> QED
      BY <2>1, <3>1, <3>2, BurstOwns
  <2> QED
    BY <2>1, <2>3
<1>11. CASE WriteConsecutive(w)
  <2>1. forced[slot[w]] = "no" => tx[slot[w]].state = "SENDING_CF"
    BY <1>11 DEF WriteConsecutive, TxInv, Owns, InTx, InBurst
  <2>2. \/ Goto(w, "sent")
        \/ Goto(w, "abort")
    BY <1>11 DEF WriteConsecutive
  <2>3. pc[w] = "cf" /\ UNCHANGED <<tx, slot, call, cf, res, forced>>
    BY <1>11 DEF WriteConsecutive
  <2> QED
    BY <2>2, <2>3, MoveOwns DEF InTx, InBurst
<1>12. CASE ContinueBurst(w)
  <2> DEFINE u == AfterConsecutive(w, tx[slot[w]])
  <2>1. /\ pc[w] = "sent" /\ pc[w] \in InBurst /\ pc[w] \in InTx /\ pc[w] # "idle"
        /\ BurstHead(w, u) /\ UNCHANGED forced
    BY <1>12 DEF ContinueBurst, InBurst, InTx
  <2>2. u \in TxType
    BY <2>1, AfterType
  <2>3. forced[slot[w]] = "no" =>
           /\ u.msg = w /\ u.len = call[w].len /\ u.off <= u.len /\ u.state = "SENDING_CF"
    <3>1. tx[slot[w]] \in TxType /\ cf[w].n \in 0..7
      BY <2>1 DEF TypeOK, CfType
    <3>2. /\ u.msg = tx[slot[w]].msg /\ u.len = tx[slot[w]].len
          /\ u.state = tx[slot[w]].state /\ u.off = tx[slot[w]].off + cf[w].n
      BY <3>1 DEF AfterConsecutive, TxType
    <3> QED
      BY <2>1, <3>2 DEF TxInv, Owns
  <2> HIDE DEF u
  <2> QED
    BY <2>1, <2>2, <2>3, BurstOwns
<1>13. CASE RenewDeadline(w)
  BY <1>13, MoveOwns DEF RenewDeadline, InTx, InBurst
<1>14. CASE GiveUp(w)
  <2>1. pc[w] \in InTx /\ UNCHANGED forced
    BY <1>14 DEF GiveUp, InTx
  <2>2. \E r : Return(w, r)
    BY <1>14 DEF GiveUp
  <2>3. \E t : tx' = [tx EXCEPT ![slot[w]] = t]
    BY <1>14 DEF GiveUp
  <2> QED
    BY <2>1, <2>2, <2>3, ReturnOwns
<1> QED
  BY <1>1, <1>2, <1>3, <1>4, <1>5, <1>6, <1>7, <1>8, <1>9, <1>10, <1>11, <1>12,
     <1>13, <1>14 DEF WriterStep

\* A slot is taken from its owner only with the history saying so.
LEMMA RequestOwns ==
    ASSUME TypeOK, TxInv, Request
    PROVE  TxInv'
<1> USE DEF writerVars, sessVars
<1>1. ASSUME NEW f \in Filters, NEW a \in Addresses, AddSession(f, a) PROVE TxInv'
  <2> DEFINE s == Least({x \in Slots : ~sess[x].active})
  <2>1. s \in Slots /\ tx' = [tx EXCEPT ![s] = ZeroTx] /\ Disturb(s, "reuse")
        /\ UNCHANGED <<pc, slot, call, cf, res>>
    BY <1>1, LeastIn DEF AddSession
  <2> HIDE DEF s
  <2>2. SUFFICES ASSUME NEW v \in Writers
                 PROVE  /\ pc'[v] # "idle" => res'[v] = "pending"
                        /\ (pc'[v] \in InTx /\ forced'[slot'[v]] = "no") => Owns(v)'
    BY DEF TxInv
  <2>3. ASSUME pc[v] \in InTx, forced'[slot[v]] = "no" PROVE Kept(v)
    <3>1. slot[v] # s
      <4>1. SUFFICES ASSUME slot[v] = s PROVE FALSE
        OBVIOUS
      <4>2. v \in Inside(s)
        BY <2>3, <4>1 DEF Inside
      <4>3. forced' = [forced EXCEPT ![s] = "reuse"]
        BY <2>1, <4>2 DEF Disturb
      <4>4. forced'[s] = "reuse"
        BY <2>1, <4>3 DEF TypeOK
      <4> QED
        BY <2>3, <4>1, <4>4
    <3>2. slot[v] \in Slots
      BY <2>3 DEF TypeOK, InTx, InBurst
    <3>3. tx'[slot[v]] = tx[slot[v]]
      BY <2>1, <3>1, <3>2 DEF TypeOK
    <3>4. forced'[slot[v]] = forced[slot[v]]
      BY <2>1, <3>1, <3>2 DEF TypeOK, Disturb
    <3> QED
      BY <2>1, <3>3, <3>4 DEF Kept
  <2> QED
    BY <2>1, <2>3, KeptOwns DEF TxInv
<1>2. ASSUME UNCHANGED <<tx, pc, slot, call, cf, res, forced>> PROVE TxInv'
  BY <1>2 DEF TxInv, Owns
<1>3. ASSUME NEW f \in Filters, RemoveSession(f) PROVE TxInv'
  BY <1>2, <1>3 DEF RemoveSession
<1>4. ASSUME NEW bs \in BlockSizes, SetConfig(bs) PROVE TxInv'
  BY <1>2, <1>4 DEF SetConfig
<1>5. CASE Shutdown
  BY <1>2, <1>5 DEF Shutdown
<1>6. ASSUME NEW r \in Readers, NEW want \in Wants, NEW t \in Timeouts,
             StartReceive(r, want, t)
      PROVE  TxInv'
  BY <1>2, <1>6 DEF StartReceive
<1>7. ASSUME NEW w \in Writers, NEW a \in Addresses, NEW len \in Lens,
             TransmitRejected(w, a[1], len)
      PROVE  TxInv'
  <2>1. /\ pc[w] = "idle" /\ UNCHANGED <<tx, pc, slot, call, cf, forced>>
        /\ \A v \in Writers \ {w} : res'[v] = res[v]
    BY <1>7 DEF TransmitRejected, TypeOK
  <2> QED
    BY <2>1 DEF TxInv, Owns, InTx, InBurst
<1>8. ASSUME NEW w \in Writers, NEW a \in Addresses, NEW len \in Lens,
             NEW t \in Timeouts, TransmitCall(w, a[1], len, t)
      PROVE  TxInv'
  <2>1. pc'[w] = "found"
    BY <1>8 DEF TransmitCall, Goto, TypeOK
  <2>2. ASSUME NEW v \in Writers, v # w PROVE Kept(v)
    BY <1>8, <2>2 DEF TransmitCall, Goto, Kept, TypeOK
  <2>3. res'[w] = "pending"
    BY <1>8 DEF TransmitCall, TypeOK
  <2> QED
    BY <2>1, <2>2, <2>3, KeptOwns DEF TxInv, InTx, InBurst
<1> QED
  BY <1>1, <1>3, <1>4, <1>5, <1>6, <1>7, <1>8 DEF Request


\* Flow control moves a slot only out of WAIT_FC, where its owner is polling.
LEMMA EnvironmentOwns ==
    ASSUME TypeOK, TxInv, Environment
    PROVE  TxInv'
<1> USE DEF writerVars, sessVars
<1>1. ASSUME UNCHANGED <<tx, pc, slot, call, cf, res, forced>> PROVE TxInv'
  BY <1>1 DEF TxInv, Owns
<1>2. ASSUME NEW a \in Addresses, NEW fs \in FlowStatuses, NEW bs \in PeerBlockSizes,
             ReceiveFlowControl(a[2], fs, bs)
      PROVE  TxInv'
  <2> DEFINE s == Least(SessionsByRxId(a[2]))
  <2>1. /\ s \in Slots /\ tx[s].state = "WAIT_FC" /\ UNCHANGED <<pc, slot, call, cf, res>>
        /\ \/ tx' = [tx EXCEPT ![s].bs = bs, ![s].bsSent = 0, ![s].state = "SENDING_CF"]
              /\ UNCHANGED forced
           \/ tx' = [tx EXCEPT ![s].dl = NBs] /\ UNCHANGED forced
           \/ tx' = [tx EXCEPT ![s].state = "IDLE"] /\ Disturb(s, "overflow")
    BY <1>2, LeastIn DEF ReceiveFlowControl, SessionsByRxId
  <2> HIDE DEF s
  <2>2. SUFFICES ASSUME NEW v \in Writers, pc[v] \in InTx, forced'[slot[v]] = "no"
                 PROVE  Owns(v)'
    BY <2>1 DEF TxInv
  <2>3. slot[v] \in Slots /\ tx \in [Slots -> TxType]
        /\ forced \in [Slots -> {"no", "overflow", "reuse"}]
    BY <2>2 DEF TypeOK, InTx, InBurst
  <2>4. CASE slot[v] # s
    <3>1. tx'[slot[v]] = tx[slot[v]] /\ forced'[slot[v]] = forced[slot[v]]
      BY <2>1, <2>3, <2>4 DEF Disturb
    <3>2. Owns(v)
      BY <2>2, <3>1 DEF TxInv
    <3> QED
      BY <2>1, <3>1, <3>2 DEF Owns
  <2>5. CASE slot[v] = s
    <3>1. v \in Inside(s)
      BY <2>2, <2>5 DEF Inside
    <3>2. ~Disturb(s, "overflow")
      <4>1. SUFFICES ASSUME Disturb(s, "overflow") PROVE FALSE
        OBVIOUS
      <4>2. forced' = [forced EXCEPT ![s] = "overflow"]
        BY <3>1, <4>1 DEF Disturb
      <4>3. forced'[s] = "overflow"
        BY <2>1, <2>3, <4>2
      <4> QED
        BY <2>2, <2>5, <4>3
    <3>3. UNCHANGED forced
      BY <2>1, <3>2
    <3>4. Owns(v)
      BY <2>2, <3>3 DEF TxInv
    <3>5. pc[v] \notin InBurst \cup {"abort"}
      BY <2>1, <2>5, <3>4 DEF Owns
    <3>6. /\ tx'[s].msg = tx[s].msg /\ tx'[s].len = tx[s].len /\ tx'[s].off = tx[s].off
          /\ tx'[s].state # "IDLE"
      <4>1. CASE tx' = [tx EXCEPT ![s].bs = bs, ![s].bsSent = 0, ![s].state = "SENDING_CF"]
        BY <2>1, <2>3, <4>1 DEF TxType
      <4>2. CASE tx' = [tx EXCEPT ![s].dl = NBs]
        BY <2>1, <2>3, <4>2 DEF TxType
      <4> QED
        BY <2>1, <3>2, <4>1, <4>2
    <3> QED
      BY <2>1, <2>5, <3>4, <3>5, <3>6 DEF Owns, InBurst
  <2> QED
    BY <2>4, <2>5
<1>3. ASSUME NEW a \in Addresses, ReceiveSingle(a[2], "data")
      PROVE  TxInv'
  BY <1>1, <1>3 DEF ReceiveSingle
<1>4. ASSUME NEW a \in Addresses, NEW len, NEW n, ReceiveFirst(a[2], len, n, "data")
      PROVE  TxInv'
  BY <1>1, <1>4 DEF ReceiveFirst
<1>5. ASSUME NEW a \in Addresses, NEW sn, NEW n, ReceiveConsecutive(a[2], sn, n, "data")
      PROVE  TxInv'
  BY <1>1, <1>5 DEF ReceiveConsecutive
<1>6. CASE /\ txq # <<>> /\ txq' = Tail(txq)
           /\ UNCHANGED <<sessVars, rxq, writerVars, rd, forced>>
  BY <1>1, <1>6
<1> QED
  BY <1>2, <1>3, <1>4, <1>5, <1>6 DEF Environment

LEMMA TickOwns ==
    ASSUME TypeOK, TxInv, Tick
    PROVE  TxInv'
<1>1. SUFFICES ASSUME NEW v \in Writers PROVE Kept(v) \/ pc[v] = "idle"
  BY KeptOwns DEF TxInv, Tick, InTx, InBurst
<1>2. CASE pc[v] # "idle"
  <2>1. slot[v] \in Slots /\ tx[slot[v]] \in TxType
    BY <1>2 DEF TypeOK
  <2>2. tx'[slot[v]] = [tx[slot[v]] EXCEPT !.dl = Less(@)]
    BY <2>1 DEF Tick
  <2> QED
    BY <2>1, <2>2 DEF Tick, Kept, TxType
<1> QED
  BY <1>2

LEMMA TxInvStep == TypeOK /\ TxInv /\ [EngineNext]_vars => TxInv'
<1> SUFFICES ASSUME TypeOK, TxInv, [EngineNext]_vars PROVE TxInv'
  OBVIOUS
<1>1. ASSUME NEW r \in Readers, ReaderStep(r) PROVE TxInv'
  BY <1>1 DEF TxInv, Owns, ReaderStep, ReceiveOne, FinishReceive, writerVars, sessVars
<1>2. CASE UNCHANGED vars
  BY <1>2 DEF TxInv, Owns, vars
<1> QED
  BY <1>1, <1>2, RequestOwns, WriterOwns, EnvironmentOwns, TickOwns
     DEF EngineNext, EngineStep

\* The ownership invariant, from which the next two theorems follow.
THEOREM TxInvariant == EngineSpec => [](TypeOK /\ TxInv)
<1>1. Init => TypeOK /\ TxInv
  BY TypeInit, TxInvInit
<1>2. TypeOK /\ TxInv /\ [EngineNext]_vars => (TypeOK /\ TxInv)'
  BY TypeStep, TxInvStep
<1> QED
  BY <1>1, <1>2, PTL DEF EngineSpec

\* Two threads inside a transmission of one session that nothing reset are one
\* thread: both would own the slot, and it holds one message.
THEOREM Exclusive == EngineSpec => []TxExclusive
<1>1. TypeOK /\ TxInv => TxExclusive
  BY Alone DEF TxExclusive
<1> QED
  BY <1>1, TxInvariant, PTL

----------------------------------------------------------------------------
\* Success

\* The only steps that end a transmission with STATUS_NOERROR are those of the
\* burst loop that find the whole message sent.
LEMMA SuccessStep ==
    ASSUME TypeOK, TxInv, [EngineNext]_vars, NEW w \in Writers,
           pc[w] \in InTx, forced[slot[w]] = "no", res'[w] = "NOERROR"
    PROVE  tx[slot[w]].msg = w /\ tx'[slot[w]].off = call[w].len
<1> USE DEF writerVars, sessVars
<1>0. /\ Owns(w) /\ res[w] = "pending" /\ slot[w] \in Slots /\ tx \in [Slots -> TxType]
      /\ pc[w] \notin {"idle", "found", "single"}
  BY DEF TxInv, TypeOK, InTx, InBurst
<1>1. ASSUME NEW t \in TxType, BurstHead(w, t), t.off <= t.len, t.len = call[w].len
      PROVE  tx'[slot[w]].off = call[w].len
  <2>1. Finished(t)
    BY <1>0, <1>1 DEF BurstHead
  <2>2. tx' = [tx EXCEPT ![slot[w]] = [t EXCEPT !.state = "IDLE"]]
    BY <1>1, <2>1 DEF BurstHead
  <2>3. tx'[slot[w]].off = t.off
    BY <1>0, <2>2 DEF TxType
  <2> QED
    BY <1>1, <2>1, <2>3 DEF Finished, TxType
<1>2. CASE StartBurst(w)
  <2>1. /\ tx[slot[w]] \in TxType /\ tx[slot[w]].off <= tx[slot[w]].len
        /\ tx[slot[w]].len = call[w].len /\ BurstHead(w, tx[slot[w]])
    BY <1>0, <1>2 DEF Owns, StartBurst
  <2>2. tx'[slot[w]].off = call[w].len
    BY <1>1, <2>1
  <2> QED
    BY <1>0, <2>2 DEF Owns
<1>3. CASE ContinueBurst(w)
  <2> DEFINE u == AfterConsecutive(w, tx[slot[w]])
  <2>1. u \in TxType /\ BurstHead(w, u) /\ pc[w] = "sent"
    BY <1>0, <1>3, AfterType DEF ContinueBurst
  <2>2. u.len = call[w].len /\ u.off <= u.len
    <3>1. cf[w].n \in 0..7 /\ tx[slot[w]] \in TxType
      BY <1>0 DEF TypeOK, CfType
    <3>2. u.len = tx[slot[w]].len /\ u.off = tx[slot[w]].off + cf[w].n
      BY <3>1 DEF AfterConsecutive, TxType
    <3> QED
      BY <1>0, <2>1, <3>2 DEF Owns
  <2> HIDE DEF u
  <2>3. tx'[slot[w]].off = call[w].len
    BY <1>1, <2>1, <2>2
  <2> QED
    BY <1>0, <2>3 DEF Owns
<1>4. CASE PollIdle(w)
  BY <1>0, <1>4 DEF PollIdle, Owns
<1>5. CASE GiveUp(w)
  <2>1. res'[w] \in {"ERR_FAILED", "ERR_TIMEOUT"}
    BY <1>5 DEF GiveUp, Return, TypeOK
  <2> QED
    BY <2>1
<1>6. ASSUME UNCHANGED res PROVE FALSE
  BY <1>0, <1>6
<1>7. ASSUME NEW v \in Writers, v # w, \A x \in Writers : x # v => res'[x] = res[x] PROVE FALSE
  BY <1>0, <1>7
<1>8. ASSUME WriterStep(w)
      PROVE  StartBurst(w) \/ ContinueBurst(w) \/ PollIdle(w) \/ GiveUp(w)
  <2>1. ~(TransmitBusy(w) \/ TransmitSingle(w) \/ WriteSingle(w) \/ TransmitFirst(w))
    BY <1>0 DEF TransmitBusy, TransmitSingle, WriteSingle, TransmitFirst
  <2>2. ~(PollTurn(w) \/ PollWaiting(w) \/ PollSending(w) \/ PollExpired(w)
            \/ WriteConsecutive(w) \/ RenewDeadline(w))
    BY <1>6 DEF PollTurn, PollWaiting, PollSending, PollExpired, WriteConsecutive, RenewDeadline
  <2> QED
    BY <1>8, <2>1, <2>2 DEF WriterStep
<1>9. ASSUME NEW v \in Writers, v # w, WriterStep(v) PROVE FALSE
  <2>1. \A x \in Writers : x # v => res'[x] = res[x]
    <3>1. ASSUME NEW r, Return(v, r) PROVE \A x \in Writers : x # v => res'[x] = res[x]
      BY <3>1, ReturnFrame
    <3>2. ASSUME NEW t, BurstHead(v, t) PROVE \A x \in Writers : x # v => res'[x] = res[x]
      BY <3>1, <3>2 DEF BurstHead
    <3>3. CASE StartBurst(v) \/ ContinueBurst(v)
      BY <3>2, <3>3 DEF StartBurst, ContinueBurst
    <3>4. CASE TransmitBusy(v) \/ WriteSingle(v) \/ TransmitFirst(v) \/ PollIdle(v) \/ GiveUp(v)
      BY <3>1, <3>4 DEF TransmitBusy, WriteSingle, TransmitFirst, PollIdle, GiveUp
    <3>5. CASE TransmitSingle(v) \/ PollTurn(v) \/ PollWaiting(v) \/ PollSending(v)
               \/ PollExpired(v) \/ WriteConsecutive(v) \/ RenewDeadline(v)
      BY <3>5 DEF TransmitSingle, PollTurn, PollWaiting, PollSending, PollExpired,
                  WriteConsecutive, RenewDeadline
    <3> QED
      BY <1>9, <3>3, <3>4, <3>5 DEF WriterStep
  <2> QED
    BY <1>7, <1>9, <2>1
<1>10. CASE Request
  <2>1. ASSUME NEW v \in Writers, NEW a \in Addresses, NEW len \in Lens,
               \/ TransmitRejected(v, a[1], len)
               \/ \E t \in Timeouts : TransmitCall(v, a[1], len, t)
        PROVE  FALSE
    <3>1. pc[v] = "idle" /\ \A x \in Writers : x # v => res'[x] = res[x]
      BY <2>1 DEF TransmitRejected, TransmitCall, TypeOK
    <3> QED
      BY <1>0, <1>7, <3>1
  <2>2. ASSUME UNCHANGED writerVars PROVE FALSE
    BY <1>6, <2>2
  <2> QED
    BY <1>10, <2>1, <2>2
       DEF Request, AddSession, RemoveSession, SetConfig, Shutdown, StartReceive
<1>11. CASE Environment
  <2>1. \A id, fs, bs : ReceiveFlowControl(id, fs, bs) => UNCHANGED res
    BY DEF ReceiveFlowControl
  <2>2. \A id, data : ReceiveSingle(id, data) => UNCHANGED res
    BY DEF ReceiveSingle
  <2>3. \A id, len, n, data : ReceiveFirst(id, len, n, data) => UNCHANGED res
    BY DEF ReceiveFirst
  <2>4. \A id, sn, n, data : ReceiveConsecutive(id, sn, n, data) => UNCHANGED res
    BY DEF ReceiveConsecutive
  <2> QED
    BY <1>6, <1>11, <2>1, <2>2, <2>3, <2>4 DEF Environment
<1>12. CASE Tick \/ UNCHANGED vars
  BY <1>6, <1>12 DEF Tick, vars
<1>13. ASSUME NEW r \in Readers, ReaderStep(r) PROVE FALSE
  BY <1>6, <1>13 DEF ReaderStep, ReceiveOne, FinishReceive
<1> QED
  BY <1>2, <1>3, <1>4, <1>5, <1>8, <1>9, <1>10, <1>11, <1>12, <1>13 DEF EngineNext, EngineStep

\* A transmission that reports success has sent the whole of its own message.
THEOREM Honest == EngineSpec => HonestSuccess
<1> DEFINE Good == \A w \in Writers :
              (pc[w] \in InTx /\ forced[slot[w]] = "no" /\ res'[w] = "NOERROR")
                  => /\ tx[slot[w]].msg = w
                     /\ tx'[slot[w]].off = call[w].len
<1>1. TypeOK /\ TxInv /\ [EngineNext]_vars => Good
  BY SuccessStep
<1>2. TypeOK /\ TxInv /\ [EngineNext]_vars => [Good]_vars
  BY <1>1
<1> QED
  BY <1>2, TxInvariant, PTL DEF EngineSpec, HonestSuccess

----------------------------------------------------------------------------
\* Blocks

\* A frame that is being written fits in the block the ECU granted: its writer
\* owns the slot, and no flow control is taken while it does.
THEOREM Blocks == EngineSpec => []BlockRespected
<1>1. TypeOK /\ TxInv => BlockRespected
  BY DEF TxInv, Owns, BlockRespected, InTx, InBurst
<1> QED
  BY <1>1, TxInvariant, PTL

----------------------------------------------------------------------------
\* What is received

Message == [id : Nat, buf : Seq({"data"})]
RxType == [state : {"IDLE", "RECEIVING"}, len : Nat, off : Nat, sn : 0..15,
           bsCount : Nat, buf : Seq({"data"})]
Fits(r) == r.off <= r.len /\ r.len <= MaxMsgLen

\* RxBounded with the types it needs: the offset of an assembly grows by what
\* is left of its message at most, which is a number only if it never passed it.
RxInv ==
    /\ rx \in [Slots -> RxType]
    /\ \A s \in Slots : Fits(rx[s])
    /\ rxq \in Seq(Message) /\ Len(rxq) <= RxqCap

LEMMA RxInit == Init => RxInv
<1> SUFFICES ASSUME Init PROVE RxInv
  OBVIOUS
<1>1. ZeroRx \in RxType /\ Fits(ZeroRx)
  BY DEF ZeroRx, RxType, Fits, MaxMsgLen
<1>2. rxq \in Seq(Message) /\ Len(rxq) <= RxqCap
  BY EngineAssumption DEF Init
<1> QED
  BY <1>1, <1>2 DEF Init, RxInv

\* enqueueRx() drops the oldest message of a full ring before it adds one.
LEMMA EnqueueFits ==
    ASSUME RxInv, NEW m \in Message
    PROVE  Enqueue(rxq, m) \in Seq(Message) /\ Len(Enqueue(rxq, m)) <= RxqCap
<1>1. RxqCap \in Nat \ {0} /\ rxq \in Seq(Message) /\ Len(rxq) <= RxqCap /\ Len(rxq) \in Nat
  BY EngineAssumption DEF RxInv
<1>2. CASE Len(rxq) >= RxqCap
  <2>1. rxq # <<>>
    BY <1>1, <1>2
  <2>2. Tail(rxq) \in Seq(Message) /\ Len(Tail(rxq)) = Len(rxq) - 1
    BY <1>1, <2>1
  <2>3. Enqueue(rxq, m) = Append(Tail(rxq), m)
    BY <1>2 DEF Enqueue
  <2>4. Append(Tail(rxq), m) \in Seq(Message) /\ Len(Append(Tail(rxq), m)) = Len(Tail(rxq)) + 1
    BY <2>2
  <2> QED
    BY <1>1, <2>2, <2>3, <2>4
<1>3. CASE ~(Len(rxq) >= RxqCap)
  <2>1. Enqueue(rxq, m) = Append(rxq, m)
    BY <1>3 DEF Enqueue
  <2>2. Append(rxq, m) \in Seq(Message) /\ Len(Append(rxq, m)) = Len(rxq) + 1
    BY <1>1
  <2> QED
    BY <1>1, <1>3, <2>1, <2>2
<1> QED
  BY <1>2, <1>3

\* A first frame announces at most MaxMsgLen bytes and brings at most those.
LEMMA RestartedFits ==
    ASSUME NEW r, NEW len \in 1..MaxMsgLen, NEW n \in 0..6
    PROVE  Restarted(r, len, n, "data") \in RxType /\ Fits(Restarted(r, len, n, "data"))
<1> DEFINE buf == <<"data">>
<1>1. buf \in Seq({"data"})
  OBVIOUS
<1>2. MaxMsgLen = 4095
  BY DEF MaxMsgLen
<1>3. len \in Nat /\ len <= 4095 /\ n \in Nat
  BY <1>2
<1> DEFINE off == IF n > len THEN len ELSE n
<1>4. off \in Nat /\ off <= len
  BY <1>3
<1>5. Restarted(r, len, n, "data") = [state |-> "RECEIVING", len |-> len, off |-> off,
                                      sn |-> 1, bsCount |-> 0, buf |-> buf]
  BY DEF Restarted
<1> HIDE DEF off, buf
<1>6. Restarted(r, len, n, "data") \in RxType
  BY <1>1, <1>3, <1>4, <1>5 DEF RxType
<1>7. Fits(Restarted(r, len, n, "data"))
  BY <1>2, <1>3, <1>4, <1>5 DEF Fits
<1> QED
  BY <1>6, <1>7

\* A consecutive frame brings at most what is left.
LEMMA ExtendedFits ==
    ASSUME NEW r \in RxType, Fits(r), NEW n \in 0..7
    PROVE  Extended(r, n, "data") \in RxType /\ Fits(Extended(r, n, "data"))
<1>1. r.off \in Nat /\ r.len \in Nat /\ r.off <= r.len /\ r.len <= MaxMsgLen /\ n \in Nat
  BY DEF RxType, Fits
<1>2. Taken(r, n) \in Nat /\ r.off + Taken(r, n) \in Nat /\ r.off + Taken(r, n) <= r.len
  BY <1>1 DEF Taken
<1>3. (r.sn + 1) % 16 \in 0..15 /\ r.bsCount + 1 \in Nat
  BY DEF RxType
<1>4. Append(r.buf, "data") \in Seq({"data"})
  BY DEF RxType
<1>5. Extended(r, n, "data") \in RxType
  BY <1>2, <1>3, <1>4 DEF Extended, RxType
<1>6. /\ Extended(r, n, "data").off = r.off + Taken(r, n)
      /\ Extended(r, n, "data").len = r.len
  BY DEF Extended, RxType
<1> QED
  BY <1>1, <1>2, <1>5, <1>6 DEF Fits

\* What the steps that receive a frame store.
LEMMA StoredFits ==
    ASSUME RxInv, NEW s \in Slots, NEW r \in RxType, Fits(r),
           rx' = [rx EXCEPT ![s] = r], rxq' \in Seq(Message), Len(rxq') <= RxqCap
    PROVE  RxInv'
  BY DEF RxInv, Fits

LEMMA RxFrames == TypeOK /\ RxInv /\ Environment => RxInv'
<1> SUFFICES ASSUME TypeOK, RxInv, Environment PROVE RxInv'
  OBVIOUS
<1> USE DEF sessVars
<1>1. CASE txq # <<>> /\ txq' = Tail(txq) /\ UNCHANGED <<sessVars, rxq>>
  BY <1>1 DEF RxInv, Fits
<1>2. ASSUME NEW a \in Addresses, NEW fs \in FlowStatuses, NEW bs \in PeerBlockSizes,
             ReceiveFlowControl(a[2], fs, bs)
      PROVE  RxInv'
  BY <1>2 DEF ReceiveFlowControl, RxInv, Fits
<1>3. ASSUME NEW a \in Addresses, ReceiveSingle(a[2], "data")
      PROVE  RxInv'
  <2>1. [id |-> a[2], buf |-> <<"data">>] \in Message
    BY EngineAssumption DEF Message
  <2> QED
    BY <1>3, <2>1, EnqueueFits DEF ReceiveSingle, RxInv, Fits
<1>4. ASSUME NEW a \in Addresses, NEW len \in PeerLens, NEW n \in PeerChunks,
             ReceiveFirst(a[2], len, n, "data")
      PROVE  RxInv'
  <2> DEFINE s == Least(SessionsByRxId(a[2]))
  <2>1. s \in Slots
    BY <1>4, LeastIn DEF ReceiveFirst, SessionsByRxId
  <2>2. rx' = [rx EXCEPT ![s] = Restarted(rx[s], len, n, "data")] /\ rxq' = rxq
    BY <1>4, <2>1 DEF ReceiveFirst
  <2>3. len \in 1..MaxMsgLen /\ n \in 0..6
    BY <1>4 DEF ReceiveFirst
  <2>4. rxq' \in Seq(Message) /\ Len(rxq') <= RxqCap
    BY <2>2 DEF RxInv
  <2> QED
    BY <2>1, <2>2, <2>3, <2>4, RestartedFits, StoredFits
<1>5. ASSUME NEW a \in Addresses, NEW sn \in 0..15, NEW n \in PeerChunks,
             ReceiveConsecutive(a[2], sn, n, "data")
      PROVE  RxInv'
  <2> DEFINE s == Least(SessionsByRxId(a[2]))
             r == rx[s]
             t == Extended(r, n, "data")
  <2>1. s \in Slots
    BY <1>5, LeastIn DEF ReceiveConsecutive, SessionsByRxId
  <2>2. r \in RxType /\ Fits(r) /\ n \in 0..7
    BY <1>5, <2>1 DEF ReceiveConsecutive, RxInv
  <2>3. t \in RxType /\ Fits(t)
    BY <2>2, ExtendedFits
  <2>4. rxq \in Seq(Message) /\ Len(rxq) <= RxqCap
    BY DEF RxInv
  <2> HIDE DEF t
  <2>5. CASE rx' = [rx EXCEPT ![s].state = "IDLE"] /\ UNCHANGED rxq
    <3>1. rx' = [rx EXCEPT ![s] = [r EXCEPT !.state = "IDLE"]]
      BY <2>5
    <3>2. [r EXCEPT !.state = "IDLE"] \in RxType /\ Fits([r EXCEPT !.state = "IDLE"])
      BY <2>2 DEF RxType, Fits
    <3> QED
      BY <2>1, <2>4, <2>5, <3>1, <3>2, StoredFits
  <2>6. CASE /\ rx' = [rx EXCEPT ![s] = [t EXCEPT !.state = "IDLE"]]
             /\ rxq' = Enqueue(rxq, [id |-> a[2], buf |-> t.buf])
    <3>1. [t EXCEPT !.state = "IDLE"] \in RxType /\ Fits([t EXCEPT !.state = "IDLE"])
      BY <2>3 DEF RxType, Fits
    <3>2. [id |-> a[2], buf |-> t.buf] \in Message
      BY <2>3, EngineAssumption DEF Message, RxType
    <3> QED
      BY <2>1, <2>6, <3>1, <3>2, EnqueueFits, StoredFits
  <2>7. CASE rx' = [rx EXCEPT ![s] = [t EXCEPT !.bsCount = 0]] /\ UNCHANGED rxq
    <3>1. [t EXCEPT !.bsCount = 0] \in RxType /\ Fits([t EXCEPT !.bsCount = 0])
      BY <2>3 DEF RxType, Fits
    <3> QED
      BY <2>1, <2>4, <2>7, <3>1, StoredFits
  <2>8. CASE rx' = [rx EXCEPT ![s] = t] /\ UNCHANGED rxq
    BY <2>1, <2>3, <2>4, <2>8, StoredFits
  <2> QED
    BY <1>5, <2>5, <2>6, <2>7, <2>8 DEF ReceiveConsecutive, t
<1> QED
  BY <1>1, <1>2, <1>3, <1>4, <1>5 DEF Environment

\* Applications and threads clear assemblies and take messages.
LEMMA RxCalls == TypeOK /\ RxInv /\ (Request \/ EngineStep) => RxInv'
<1> SUFFICES ASSUME TypeOK, RxInv, Request \/ EngineStep PROVE RxInv'
  OBVIOUS
<1> USE DEF sessVars
<1>1. ASSUME UNCHANGED <<rx, rxq>> PROVE RxInv'
  BY <1>1 DEF RxInv, Fits
<1>2. ASSUME NEW f \in Filters, NEW a \in Addresses, AddSession(f, a)
      PROVE  RxInv'
  <2> DEFINE s == Least({t \in Slots : ~sess[t].active})
  <2>1. s \in Slots
    BY <1>2, LeastIn DEF AddSession
  <2>2. ZeroRx \in RxType /\ Fits(ZeroRx)
    BY DEF ZeroRx, RxType, Fits, MaxMsgLen
  <2>3. rx' = [rx EXCEPT ![s] = ZeroRx] /\ rxq' = rxq
    BY <1>2 DEF AddSession
  <2>4. rxq' \in Seq(Message) /\ Len(rxq') <= RxqCap
    BY <2>3 DEF RxInv
  <2> QED
    BY <2>1, <2>2, <2>3, <2>4, StoredFits
<1>3. CASE Shutdown
  BY <1>3, EngineAssumption DEF Shutdown, RxInv, Fits
<1>4. ASSUME Request PROVE RxInv'
  BY <1>1, <1>2, <1>3, <1>4
     DEF Request, RemoveSession, SetConfig, TransmitRejected, TransmitCall, StartReceive
<1>5. ASSUME NEW w \in Writers, WriterStep(w) PROVE UNCHANGED <<rx, rxq>>
  BY <1>5 DEF WriterStep, TransmitBusy, TransmitSingle, WriteSingle, TransmitFirst, PollTurn,
              PollWaiting, PollIdle, PollSending, PollExpired, StartBurst, WriteConsecutive,
              ContinueBurst, RenewDeadline, GiveUp
<1>6. ASSUME NEW r \in Readers, ReceiveOne(r) PROVE RxInv'
  <2>1. rxq # <<>> /\ rxq' = Tail(rxq) /\ rx' = rx
    BY <1>6 DEF ReceiveOne
  <2>2. rxq \in Seq(Message) /\ Len(rxq) <= RxqCap /\ RxqCap \in Nat
    BY EngineAssumption DEF RxInv
  <2>3. rxq' \in Seq(Message) /\ Len(rxq') = Len(rxq) - 1
    BY <2>1, <2>2
  <2>4. Len(rxq') <= RxqCap
    BY <2>2, <2>3
  <2> QED
    BY <2>1, <2>3, <2>4 DEF RxInv, Fits
<1>7. ASSUME NEW r \in Readers, FinishReceive(r) PROVE UNCHANGED <<rx, rxq>>
  BY <1>7 DEF FinishReceive
<1>8. CASE Tick
  BY <1>1, <1>8 DEF Tick
<1> QED
  BY <1>1, <1>4, <1>5, <1>6, <1>7, <1>8 DEF EngineStep, ReaderStep

\* Whatever frames arrive, in whatever order, while sessions come and go and
\* threads read: processFrame() copies nothing past the length it was
\* announced, which fits rxBuf, and the queue stays within rxQueue_.
THEOREM Bounded == EngineSpec => []RxBounded
<1>1. Init => TypeOK /\ RxInv
  BY TypeInit, RxInit
<1>2. TypeOK /\ RxInv /\ [EngineNext]_vars => (TypeOK /\ RxInv)'
  <2> SUFFICES ASSUME TypeOK, RxInv, [EngineNext]_vars PROVE (TypeOK /\ RxInv)'
    OBVIOUS
  <2>1. CASE UNCHANGED vars
    BY <2>1, TypeStep DEF RxInv, Fits, vars
  <2> QED
    BY <2>1, TypeStep, RxFrames, RxCalls DEF EngineNext
<1>3. TypeOK /\ RxInv => RxBounded
  BY DEF RxInv, Fits, RxBounded
<1> QED
  BY <1>1, <1>2, <1>3, PTL DEF EngineSpec

-----------------------------------------------------------------------------
\* The engine with its ECUs: types

Tag == Nat \X Nat \X Nat
Got == [id : Nat, buf : Seq(Tag)]
Assembly == [state : {"IDLE", "RECEIVING"}, len : Nat, off : Nat, sn : 0..15,
             bsCount : Nat, buf : Seq(Tag)]
Reading == [pc : {"idle", "loop"}, want : Nat, got : Seq(Got), dl : Nat,
            res : {"none", "pending", "ERR_BUFFER_EMPTY", "ERR_TIMEOUT", "NOERROR"}]
Mouth == [st : {"idle", "wait", "sending"}, k : Nat, len : Nat, off : Nat, sn : 0..15,
          left : Nat]
Frame == [kind : {"SF", "FF"}, id : Nat, msg : Writers \cup {"none"}, len : Nat]
         \cup [kind : {"CF"}, id : Nat, msg : Writers \cup {"none"}, sn : 0..15,
               off : Nat, n : 0..7]
         \cup [kind : {"FC"}, id : Nat, bs : Nat]

LinkTypes ==
    /\ \A s \in Slots : sess[s].active => <<sess[s].txId, sess[s].rxId>> \in Addresses
    /\ rx \in [Slots -> Assembly]
    /\ rxq \in Seq(Got)
    /\ rd \in [Readers -> Reading]
    /\ mouth \in [Addresses -> Mouth]
    /\ txq \in Seq(Frame)

LEMMA LinkTypesInit == LinkInit => TypeOK /\ LinkTypes
<1> SUFFICES ASSUME LinkInit PROVE TypeOK /\ LinkTypes
  OBVIOUS
<1>1. Init /\ mouth = [a \in Addresses |-> IdleMouth]
  BY DEF LinkInit
<1>2. ZeroRx \in Assembly /\ NoRecv \in Reading /\ IdleMouth \in Mouth
  BY DEF ZeroRx, Assembly, NoRecv, Reading, IdleMouth, Mouth
<1>3. rxq \in Seq(Got) /\ txq \in Seq(Frame)
  BY <1>1 DEF Init
<1> QED
  BY <1>1, <1>2, <1>3, TypeInit DEF Init, LinkTypes, ZeroSess

\* What Append and Tail do to the elements of a sequence.
LEMMA Appended ==
    ASSUME NEW S, NEW q \in Seq(S), NEW m \in S
    PROVE  /\ Append(q, m) \in Seq(S) /\ Len(Append(q, m)) = Len(q) + 1 /\ Len(q) \in Nat
           /\ \A i \in 1..Len(q) : Append(q, m)[i] = q[i]
           /\ Append(q, m)[Len(q) + 1] = m
  OBVIOUS

LEMMA Shortened ==
    ASSUME NEW S, NEW q \in Seq(S), q # <<>>
    PROVE  /\ Tail(q) \in Seq(S) /\ Len(Tail(q)) = Len(q) - 1 /\ Len(q) \in Nat
           /\ \A i \in 1..(Len(q) - 1) : Tail(q)[i] = q[i + 1]
           /\ Head(q) = q[1] /\ Head(q) \in S
  OBVIOUS

LEMMA EnqueueType ==
    ASSUME NEW q \in Seq(Got), NEW m \in Got
    PROVE  Enqueue(q, m) \in Seq(Got)
<1>1. RxqCap \in Nat \ {0} /\ Len(q) \in Nat
  BY EngineAssumption
<1>2. CASE Len(q) >= RxqCap
  <2>1. q # <<>>
    BY <1>1, <1>2
  <2>2. Tail(q) \in Seq(Got)
    BY <2>1, Shortened
  <2> QED
    BY <1>2, <2>2, Appended DEF Enqueue
<1>3. CASE ~(Len(q) >= RxqCap)
  BY <1>3, Appended DEF Enqueue
<1> QED
  BY <1>2, <1>3

----------------------------------------------------------------------------
\* What the steps do to the receive side

\* The session that a frame of ECU a finds is the one session with its id.
LEMMA TheSession ==
    ASSUME OneSession, NEW a \in Addresses, Matched(a) # {}
    PROVE  /\ Least(Matched(a)) \in Slots /\ sess[Least(Matched(a))].active
           /\ sess[Least(Matched(a))].rxId = a[2]
           /\ \A s \in Slots :
                 sess[s].active /\ sess[s].rxId = a[2] => s = Least(Matched(a))
<1>1. Least(Matched(a)) \in Matched(a)
  BY LeastIn DEF Matched, SessionsByRxId
<1> QED
  BY <1>1 DEF Matched, SessionsByRxId, OneSession

\* A transmit() call writes its own frames and touches nothing of reception.
LEMMA WriterFrames ==
    ASSUME TypeOK, NEW w \in Writers, WriterStep(w)
    PROVE  /\ UNCHANGED <<sess, rx, bsTx, rxq, rd>>
           /\ \/ txq' = txq
              \/ \E f \in Frame : f.kind # "FC" /\ txq' = Append(txq, f)
<1> USE DEF sessVars
<1>1. UNCHANGED <<sess, rx, bsTx, rxq, rd>>
  BY DEF WriterStep, TransmitBusy, TransmitSingle, WriteSingle, TransmitFirst, PollTurn,
         PollWaiting, PollIdle, PollSending, PollExpired, StartBurst, WriteConsecutive,
         ContinueBurst, RenewDeadline, GiveUp
<1>2. call[w].id \in Nat /\ call[w].len \in Nat /\ w \in Writers \cup {"none"}
  BY DEF TypeOK, CallType
<1>3. CASE WriteSingle(w)
  <2>1. /\ SingleFrame(call[w].id, w, call[w].len) \in Frame
        /\ SingleFrame(call[w].id, w, call[w].len).kind # "FC"
    BY <1>2 DEF SingleFrame, Frame
  <2> QED
    BY <1>1, <1>3, <2>1 DEF WriteSingle, CanWriteOk, CanWriteFails
<1>4. CASE TransmitFirst(w)
  <2>1. /\ FirstFrame(call[w].id, w, call[w].len) \in Frame
        /\ FirstFrame(call[w].id, w, call[w].len).kind # "FC"
    BY <1>2 DEF FirstFrame, Frame
  <2> QED
    BY <1>1, <1>4, <2>1 DEF TransmitFirst, CanWriteOk, CanWriteFails
<1>5. CASE WriteConsecutive(w)
  <2>1. sess[slot[w]].txId \in Nat /\ cf[w] \in CfType
    BY <1>5 DEF TypeOK, WriteConsecutive, SessType
  <2>2. /\ ConsecutiveFrame(sess[slot[w]].txId, cf[w]) \in Frame
        /\ ConsecutiveFrame(sess[slot[w]].txId, cf[w]).kind # "FC"
    BY <2>1 DEF ConsecutiveFrame, Frame, CfType
  <2> QED
    BY <1>1, <1>5, <2>2 DEF WriteConsecutive, CanWriteOk, CanWriteFails
<1> QED
  BY <1>1, <1>3, <1>4, <1>5
     DEF WriterStep, TransmitBusy, TransmitSingle, PollTurn, PollWaiting, PollIdle,
         PollSending, PollExpired, StartBurst, ContinueBurst, RenewDeadline, GiveUp

LEMMA FlowQueued ==
    ASSUME TypeOK, LinkTypes, NEW s \in Slots, SendFC(s)
    PROVE  \/ Len(txq) >= TxqCap /\ txq' = txq
           \/ \E f \in Frame : /\ f.kind = "FC" /\ f.id = sess[s].txId
                               /\ f.bs = bsTx % 256 /\ txq' = Append(txq, f)
<1>1. sess[s].txId \in Nat /\ bsTx \in Nat /\ TxqCap \in Nat /\ Len(txq) \in Nat
  BY EngineAssumption DEF TypeOK, SessType, LinkTypes
<1>2. PICK b : b = bsTx % 256
  OBVIOUS
<1>3. b \in Nat
  BY <1>1, <1>2
<1>4. /\ FlowControl(sess[s].txId, b) \in Frame
      /\ FlowControl(sess[s].txId, b).kind = "FC"
      /\ FlowControl(sess[s].txId, b).id = sess[s].txId
      /\ FlowControl(sess[s].txId, b).bs = b
  BY <1>1, <1>3 DEF FlowControl, Frame
<1> QED
  BY <1>1, <1>2, <1>4 DEF SendFC

\* A first frame of ECU a.
FirstSpoken(m, len) ==
    [st |-> "wait", k |-> m.k + 1, len |-> len, off |-> 6, sn |-> 1, left |-> 0]

FirstHeard(a, len, s, r) ==
    /\ s = Least(Matched(a)) /\ Matched(a) # {} /\ SendFC(s)
    /\ rx' = [rx EXCEPT ![s] = r]
    /\ r.state = "RECEIVING" /\ r.len = len /\ r.off = 6 /\ r.sn = 1
    /\ r.bsCount = 0 /\ r.buf = <<<<mouth[a].k + 1, 0, len>>>>

LEMMA FirstFrameStep ==
    ASSUME TypeOK, LinkTypes, NEW a \in Addresses, NEW len \in PeerLens, EcuFirst(a, len)
    PROVE  /\ len \in Nat /\ len > 7 /\ UNCHANGED <<sess, bsTx, rxq, rd>>
           /\ FirstSpoken(mouth[a], len) \in Mouth
           /\ mouth' = [mouth EXCEPT ![a] = FirstSpoken(mouth[a], len)]
           /\ full' = (full \/ Len(txq) >= TxqCap)
           /\ \/ Matched(a) = {} /\ UNCHANGED <<rx, txq>>
              \/ \E s \in Slots, r \in Assembly : FirstHeard(a, len, s, r)
<1>1. len \in Nat /\ len > 7 /\ mouth[a] \in Mouth
  BY EngineAssumption DEF EcuFirst, LinkTypes
<1>2. mouth[a].k + 1 \in Nat
  BY <1>1 DEF Mouth
<1>3. FirstSpoken(mouth[a], len) \in Mouth
  BY <1>1, <1>2 DEF Mouth, FirstSpoken
<1>4. /\ mouth' = [mouth EXCEPT ![a] = FirstSpoken(mouth[a], len)]
      /\ full' = (full \/ Len(txq) >= TxqCap)
  BY DEF EcuFirst, FirstSpoken
<1>5. CASE Matched(a) = {}
  BY <1>1, <1>3, <1>4, <1>5 DEF EcuFirst, vars
<1>6. CASE Matched(a) # {}
  <2> DEFINE s == Least(Matched(a))
             r == Restarted(rx[s], len, 6, <<mouth[a].k + 1, 0, len>>)
  <2>1. s \in Slots
    BY <1>6, LeastIn DEF Matched, SessionsByRxId
  <2>2. ReceiveFirst(a[2], len, 6, <<mouth[a].k + 1, 0, len>>)
    BY <1>6 DEF EcuFirst
  <2>3. SendFC(s) /\ rx' = [rx EXCEPT ![s] = r] /\ UNCHANGED <<sess, bsTx, rxq, rd>>
    BY <2>1, <2>2 DEF ReceiveFirst, Matched
  <2>4. <<mouth[a].k + 1, 0, len>> \in Tag
    BY <1>1, <1>2 DEF Tag
  <2>5. <<<<mouth[a].k + 1, 0, len>>>> \in Seq(Tag)
    BY <2>4
  <2>6. ~(6 > len)
    BY <1>1
  <2>7. r \in Assembly /\ r.state = "RECEIVING" /\ r.len = len /\ r.off = 6 /\ r.sn = 1
        /\ r.bsCount = 0 /\ r.buf = <<<<mouth[a].k + 1, 0, len>>>>
    BY <1>1, <2>5, <2>6 DEF Restarted, Assembly
  <2> HIDE DEF r
  <2>8. FirstHeard(a, len, s, r)
    BY <1>6, <2>3, <2>7 DEF FirstHeard
  <2> QED
    BY <1>1, <1>3, <1>4, <2>1, <2>3, <2>7, <2>8
<1> QED
  BY <1>5, <1>6

\* A single frame of ECU a.
LEMMA SingleFrameStep ==
    ASSUME TypeOK, LinkTypes, NEW a \in Addresses, EcuSingle(a)
    PROVE  /\ UNCHANGED <<sess, bsTx, rx, rd, txq>> /\ mouth[a].st = "idle"
           /\ [mouth[a] EXCEPT !.k = mouth[a].k + 1] \in Mouth
           /\ mouth' = [mouth EXCEPT ![a] = [mouth[a] EXCEPT !.k = mouth[a].k + 1]]
           /\ full' = (full \/ Len(txq) >= TxqCap)
           /\ \/ UNCHANGED rxq
              \/ \E m \in Got : /\ rxq' = Enqueue(rxq, m) /\ m.id = a[2]
                                /\ m.buf = <<<<mouth[a].k + 1, 0, 1>>>>
<1>1. mouth[a] \in Mouth /\ mouth[a].k + 1 \in Nat /\ a[2] \in Nat
  BY EngineAssumption DEF LinkTypes, Mouth
<1>2. [mouth[a] EXCEPT !.k = mouth[a].k + 1] \in Mouth
  BY <1>1 DEF Mouth
<1>3. /\ mouth' = [mouth EXCEPT ![a] = [mouth[a] EXCEPT !.k = mouth[a].k + 1]]
      /\ full' = (full \/ Len(txq) >= TxqCap) /\ mouth[a].st = "idle"
  BY DEF EcuSingle, LinkTypes
<1>4. CASE Matched(a) = {}
  BY <1>2, <1>3, <1>4 DEF EcuSingle, vars
<1>5. CASE Matched(a) # {}
  <2>1. ReceiveSingle(a[2], <<mouth[a].k + 1, 0, 1>>)
    BY <1>5 DEF EcuSingle
  <2>2. <<mouth[a].k + 1, 0, 1>> \in Tag
    BY <1>1 DEF Tag
  <2>3. <<<<mouth[a].k + 1, 0, 1>>>> \in Seq(Tag)
    BY <2>2
  <2>4. PICK m \in Got : m = [id |-> a[2], buf |-> <<<<mouth[a].k + 1, 0, 1>>>>]
    BY <1>1, <2>3 DEF Got
  <2>5. rxq' = Enqueue(rxq, m) /\ UNCHANGED <<sess, bsTx, rx, rd, txq>>
    BY <2>1, <2>4 DEF ReceiveSingle, sessVars
  <2> QED
    BY <1>2, <1>3, <2>4, <2>5
<1> QED
  BY <1>4, <1>5

\* A consecutive frame of ECU a: what the ECU becomes, and what the assembly that
\* the frame fits becomes.
CfSpoken(m, p) ==
    /\ p.k = m.k /\ p.len = m.len
    /\ m.len - m.off <= 7 => p.st = "idle"
    /\ m.len - m.off > 7 =>
          /\ p.off = m.off + 7 /\ p.sn = (m.sn + 1) % 16 /\ p.left = Less(m.left)
          /\ p.st = IF m.left = 1 THEN "wait" ELSE "sending"

CfTaken(r, m, t) ==
    /\ t.state = "RECEIVING" /\ t.len = r.len /\ t.sn = (r.sn + 1) % 16
    /\ t.bsCount = r.bsCount + 1 /\ t.buf = Append(r.buf, <<m.k, m.off, m.len>>)
    /\ t.off = IF 7 > r.len - r.off THEN r.len ELSE r.off + 7

CfHeard(a, s, t) ==
    /\ CfTaken(rx[s], mouth[a], t)
    /\ \/ /\ t.off >= t.len /\ rx' = [rx EXCEPT ![s] = [t EXCEPT !.state = "IDLE"]]
          /\ \E g \in Got : g.id = a[2] /\ g.buf = t.buf /\ rxq' = Enqueue(rxq, g)
          /\ txq' = txq
       \/ /\ t.off < t.len /\ BlockReceived(t)
          /\ rx' = [rx EXCEPT ![s] = [t EXCEPT !.bsCount = 0]]
          /\ SendFC(s) /\ rxq' = rxq
       \/ /\ t.off < t.len /\ ~BlockReceived(t)
          /\ rx' = [rx EXCEPT ![s] = t] /\ UNCHANGED <<rxq, txq>>

LEMMA CfTakenType ==
    ASSUME NEW r \in Assembly, NEW m \in Mouth, r.state = "RECEIVING"
    PROVE  /\ Extended(r, 7, <<m.k, m.off, m.len>>) \in Assembly
           /\ CfTaken(r, m, Extended(r, 7, <<m.k, m.off, m.len>>))
<1> DEFINE c == <<m.k, m.off, m.len>>
<1>1. c \in Tag
  BY DEF Tag, Mouth
<1>2. r.len \in Nat /\ r.off \in Nat /\ r.sn \in 0..15 /\ r.bsCount \in Nat /\ r.buf \in Seq(Tag)
  BY DEF Assembly
<1>3. Append(r.buf, c) \in Seq(Tag)
  BY <1>1, <1>2, Appended
<1>4. (r.sn + 1) % 16 \in 0..15 /\ r.bsCount + 1 \in Nat
  BY <1>2
<1>5. /\ r.off + Taken(r, 7) = (IF 7 > r.len - r.off THEN r.len ELSE r.off + 7)
      /\ r.off + Taken(r, 7) \in Nat
  <2>1. CASE 7 > r.len - r.off
    BY <1>2, <2>1 DEF Taken
  <2>2. CASE ~(7 > r.len - r.off)
    BY <1>2, <2>2 DEF Taken
  <2> QED
    BY <2>1, <2>2
<1> HIDE DEF c
<1>6. Extended(r, 7, c) \in Assembly
  BY <1>3, <1>4, <1>5 DEF Extended, Assembly
<1>7. Extended(r, 7, c) = [r EXCEPT !.off = r.off + Taken(r, 7), !.sn = (r.sn + 1) % 16,
                                    !.bsCount = r.bsCount + 1, !.buf = Append(r.buf, c)]
  BY DEF Extended
<1>8. /\ Extended(r, 7, c).state = "RECEIVING" /\ Extended(r, 7, c).len = r.len
      /\ Extended(r, 7, c).off = r.off + Taken(r, 7)
      /\ Extended(r, 7, c).sn = (r.sn + 1) % 16 /\ Extended(r, 7, c).bsCount = r.bsCount + 1
      /\ Extended(r, 7, c).buf = Append(r.buf, c)
  BY <1>7 DEF Assembly
<1> QED
  BY <1>5, <1>6, <1>8 DEF CfTaken, c

LEMMA CfSpokenType ==
    ASSUME LinkTypes, NEW a \in Addresses, NEW arrives \in BOOLEAN, EcuConsecutive(a, arrives)
    PROVE  /\ mouth[a].st = "sending" /\ mouth[a] \in Mouth
           /\ \E p \in Mouth : CfSpoken(mouth[a], p) /\ mouth' = [mouth EXCEPT ![a] = p]
<1> DEFINE m == mouth[a]
           n == IF m.len - m.off > 7 THEN 7 ELSE m.len - m.off
           l == IF m.off + n >= m.len THEN "idle" ELSE IF m.left = 1 THEN "wait" ELSE m.st
           p == [m EXCEPT !.off = m.off + n, !.sn = (m.sn + 1) % 16, !.left = Less(m.left),
                          !.st = l]
<1>1. m \in Mouth /\ m.st = "sending"
  BY DEF LinkTypes, EcuConsecutive
<1>2. m.len \in Nat /\ m.off \in Nat /\ m.sn \in 0..15 /\ m.left \in Nat
  BY <1>1 DEF Mouth
<1>3. m.off + n \in Nat /\ (m.sn + 1) % 16 \in 0..15 /\ Less(m.left) \in Nat
  BY <1>2 DEF Less
<1>4. mouth' = [mouth EXCEPT ![a] = p]
  BY DEF EcuConsecutive
<1>5. l \in {"idle", "wait", "sending"}
  BY <1>1
<1>6. p \in Mouth
  BY <1>1, <1>3, <1>5 DEF Mouth
<1>7. /\ p.k = m.k /\ p.len = m.len /\ p.off = m.off + n /\ p.sn = (m.sn + 1) % 16
      /\ p.left = Less(m.left) /\ p.st = l
  BY <1>1 DEF Mouth
<1>8. /\ m.len - m.off <= 7 => l = "idle"
      /\ m.len - m.off > 7 => n = 7 /\ l = IF m.left = 1 THEN "wait" ELSE "sending"
  BY <1>1, <1>2
<1>9. CfSpoken(m, p)
  BY <1>7, <1>8 DEF CfSpoken
<1> QED
  BY <1>1, <1>4, <1>6, <1>9

LEMMA ConsecutiveStep ==
    ASSUME TypeOK, LinkTypes, NEW a \in Addresses, NEW arrives \in BOOLEAN,
           EcuConsecutive(a, arrives)
    PROVE  /\ UNCHANGED <<sess, bsTx, rd>> /\ full' = (full \/ Len(txq) >= TxqCap)
           /\ \/ UNCHANGED <<rx, rxq, txq>>
              \/ \E s \in Slots :
                    /\ s = Least(Matched(a)) /\ Matched(a) # {} /\ rx[s].state = "RECEIVING"
                    /\ \/ /\ rx' = [rx EXCEPT ![s] = [rx[s] EXCEPT !.state = "IDLE"]]
                          /\ UNCHANGED <<rxq, txq>> /\ mouth[a].sn # rx[s].sn
                       \/ \E t \in Assembly : CfHeard(a, s, t) /\ mouth[a].sn = rx[s].sn
<1>1. mouth[a] \in Mouth /\ a[2] \in Nat
  BY EngineAssumption DEF LinkTypes
<1>2. full' = (full \/ Len(txq) >= TxqCap)
  BY DEF EcuConsecutive
<1>3. CASE UNCHANGED vars
  BY <1>2, <1>3 DEF vars
<1>4. CASE /\ Assembles(a)
           /\ ReceiveConsecutive(a[2], mouth[a].sn, 7, <<mouth[a].k, mouth[a].off, mouth[a].len>>)
  <2> DEFINE s == Least(Matched(a))
             x == Extended(rx[s], 7, <<mouth[a].k, mouth[a].off, mouth[a].len>>)
  <2>1. s \in Slots /\ Matched(a) # {} /\ rx[s].state = "RECEIVING" /\ rx[s] \in Assembly
    BY <1>4, LeastIn DEF Matched, SessionsByRxId, Assembles, LinkTypes
  <2>2. PICK t \in Assembly : t = x /\ CfTaken(rx[s], mouth[a], t)
    BY <1>1, <2>1, CfTakenType
  <2>3. /\ UNCHANGED <<sess, bsTx, rd>>
        /\ \/ /\ mouth[a].sn # rx[s].sn
              /\ rx' = [rx EXCEPT ![s].state = "IDLE"]
              /\ UNCHANGED <<rxq, txq>>
           \/ /\ mouth[a].sn = rx[s].sn /\ t.off >= t.len
              /\ rx' = [rx EXCEPT ![s] = [t EXCEPT !.state = "IDLE"]]
              /\ rxq' = Enqueue(rxq, [id |-> a[2], buf |-> t.buf])
              /\ UNCHANGED txq
           \/ /\ mouth[a].sn = rx[s].sn /\ t.off < t.len /\ BlockReceived(t)
              /\ rx' = [rx EXCEPT ![s] = [t EXCEPT !.bsCount = 0]]
              /\ SendFC(s)
              /\ UNCHANGED rxq
           \/ /\ mouth[a].sn = rx[s].sn /\ t.off < t.len /\ ~BlockReceived(t)
              /\ rx' = [rx EXCEPT ![s] = t]
              /\ UNCHANGED <<rxq, txq>>
    BY <1>4, <2>2 DEF ReceiveConsecutive, Matched
  <2>4. [id |-> a[2], buf |-> t.buf] \in Got
    BY <1>1, <2>2 DEF Got, Assembly
  <2>5. \/ /\ rx' = [rx EXCEPT ![s] = [rx[s] EXCEPT !.state = "IDLE"]]
           /\ UNCHANGED <<rxq, txq>> /\ mouth[a].sn # rx[s].sn
        \/ CfHeard(a, s, t) /\ mouth[a].sn = rx[s].sn
    BY <2>2, <2>3, <2>4 DEF CfHeard
  <2> HIDE DEF s, x
  <2> QED
    BY <1>2, <2>1, <2>3, <2>5 DEF s
<1> QED
  BY <1>3, <1>4 DEF EcuConsecutive

\* An ECU takes a frame from the bus: a flow control frame lets it go on.
Allowed(b, f) == f.kind = "FC" /\ f.id = b[1] /\ mouth[b].st = "wait"

LEMMA TakesStep ==
    ASSUME TypeOK, LinkTypes, EcuTakes
    PROVE  /\ txq # <<>> /\ txq' = Tail(txq) /\ Head(txq) \in Frame
           /\ UNCHANGED <<sess, bsTx, rx, rxq, rd, full>>
           /\ mouth' \in [Addresses -> Mouth]
           /\ \A b \in Addresses :
                 /\ Allowed(b, Head(txq)) =>
                       /\ mouth'[b].k = mouth[b].k /\ mouth'[b].len = mouth[b].len
                       /\ mouth'[b].off = mouth[b].off /\ mouth'[b].sn = mouth[b].sn
                       /\ mouth'[b].st = "sending" /\ mouth'[b].left = Head(txq).bs
                 /\ ~Allowed(b, Head(txq)) => mouth'[b] = mouth[b]
<1>1. PICK f \in Frame : f = Head(txq)
  BY Shortened DEF EcuTakes, LinkTypes
<1>2. /\ txq # <<>> /\ txq' = Tail(txq) /\ UNCHANGED <<sess, bsTx, rx, rxq, rd, full>>
      /\ mouth' = [b \in Addresses |-> IF b[1] = f.id THEN Allow(mouth[b], f) ELSE mouth[b]]
  BY <1>1 DEF EcuTakes, sessVars
<1>3. f.kind = "FC" => f.bs \in Nat
  BY DEF Frame
<1>4. ASSUME NEW b \in Addresses
      PROVE  /\ mouth'[b] \in Mouth
             /\ Allowed(b, f) =>
                   /\ mouth'[b].k = mouth[b].k /\ mouth'[b].len = mouth[b].len
                   /\ mouth'[b].off = mouth[b].off /\ mouth'[b].sn = mouth[b].sn
                   /\ mouth'[b].st = "sending" /\ mouth'[b].left = f.bs
             /\ ~Allowed(b, f) => mouth'[b] = mouth[b]
  <2>1. PICK m \in Mouth : m = mouth[b]
    BY DEF LinkTypes
  <2>2. CASE Allowed(b, f)
    <3>1. mouth'[b] = [m EXCEPT !.st = "sending", !.left = f.bs]
      BY <1>2, <2>1, <2>2 DEF Allowed, Allow
    <3> QED
      BY <1>3, <2>1, <2>2, <3>1 DEF Allowed, Mouth
  <2>3. CASE ~Allowed(b, f)
    <3>1. mouth'[b] = m
      BY <1>2, <2>1, <2>3 DEF Allowed, Allow
    <3> QED
      BY <2>1, <2>3, <3>1
  <2> QED
    BY <2>2, <2>3
<1>5. mouth' \in [Addresses -> Mouth]
  BY <1>2, <1>4
<1> QED
  BY <1>1, <1>2, <1>4, <1>5

\* A flow control frame of ECU a is for the transmit side.
LEMMA FlowStep ==
    ASSUME TypeOK, LinkTypes, NEW a \in Addresses, NEW fs \in FlowStatuses,
           NEW bs \in PeerBlockSizes, EcuFlow(a, fs, bs)
    PROVE  UNCHANGED <<sess, bsTx, rx, rxq, rd, txq, mouth, full>> /\ TypeOK'
<1>1. CASE UNCHANGED vars
  BY <1>1, TypeStep DEF EcuFlow, vars
<1>2. CASE ReceiveFlowControl(a[2], fs, bs)
  <2>1. TypeOK'
    BY <1>2, EnvironmentType DEF Environment
  <2> QED
    BY <1>2, <2>1 DEF ReceiveFlowControl, EcuFlow
<1> QED
  BY <1>1, <1>2 DEF EcuFlow

LEMMA LinkTypeOK == TypeOK /\ LinkTypes /\ Next => TypeOK'
<1> SUFFICES ASSUME TypeOK, LinkTypes, Next PROVE TypeOK'
  OBVIOUS
<1> USE DEF sessVars, writerVars
<1>1. CASE Request \/ EngineStep
  BY <1>1, TypeStep DEF EngineNext
<1>2. CASE EcuTakes
  BY <1>2 DEF EcuTakes, TypeOK
<1>3. ASSUME UNCHANGED <<sess, tx, bsTx, pc, slot, call, dl, cf, res, forced>> PROVE TypeOK'
  BY <1>3 DEF TypeOK
<1>4. ASSUME NEW a \in Addresses, Ecu(a) PROVE TypeOK'
  <2>1. CASE \E fs \in FlowStatuses, bs \in PeerBlockSizes : EcuFlow(a, fs, bs)
    BY <2>1, FlowStep
  <2>2. CASE \E len \in PeerLens : EcuFirst(a, len)
    BY <1>3, <2>2 DEF EcuFirst, ReceiveFirst, vars
  <2>3. CASE EcuSingle(a)
    BY <1>3, <2>3 DEF EcuSingle, ReceiveSingle, vars
  <2>4. CASE \E arrives \in BOOLEAN : EcuConsecutive(a, arrives)
    BY <1>3, <2>4 DEF EcuConsecutive, ReceiveConsecutive, vars
  <2> QED
    BY <1>4, <2>1, <2>2, <2>3, <2>4 DEF Ecu
<1> QED
  BY <1>1, <1>2, <1>4 DEF Next

\* What a step of the engine that no frame of an ECU causes does to reception.
Adds ==
    /\ \E s \in Slots, a \in Addresses, f \in Filters :
          /\ sess' = [sess EXCEPT ![s] = [active |-> TRUE, filter |-> f,
                                          txId |-> a[1], rxId |-> a[2]]]
          /\ rx' = [rx EXCEPT ![s] = ZeroRx]
    /\ UNCHANGED <<bsTx, rxq, txq, rd>>
Drops ==
    /\ \A s \in Slots : sess'[s].active => sess'[s] = sess[s]
    /\ rxq' \in {rxq, <<>>}
    /\ UNCHANGED <<rx, bsTx, txq, rd>>
Writes ==
    /\ UNCHANGED <<sess, rx, rxq, rd>>
    /\ bsTx' = bsTx \/ bsTx' \in BlockSizes
    /\ txq' = txq \/ \E f \in Frame : f.kind # "FC" /\ txq' = Append(txq, f)
Reads ==
    /\ UNCHANGED <<sess, rx, bsTx, txq>>
    /\ rd' \in [Readers -> Reading]
    /\ \/ /\ rxq' = rxq
          /\ \A r \in Readers : rd'[r].got \in {rd[r].got, <<>>}
       \/ /\ rxq # <<>> /\ rxq' = Tail(rxq)
          /\ \E r \in Readers :
                /\ rd'[r].got = Append(rd[r].got, Head(rxq))
                /\ \A u \in Readers : u # r => rd'[u].got = rd[u].got

LEMMA ReadsStep ==
    ASSUME TypeOK, LinkTypes, NEW r \in Readers,
           \/ ReaderStep(r)
           \/ \E want \in Wants, t \in Timeouts : StartReceive(r, want, t)
    PROVE  Reads
<1> USE DEF sessVars
<1>1. rd \in [Readers -> Reading] /\ rd[r] \in Reading
  BY DEF LinkTypes
<1>2. CASE ReceiveOne(r)
  <2>1. rxq # <<>> /\ rxq' = Tail(rxq) /\ Head(rxq) \in Got /\ UNCHANGED <<sess, rx, bsTx, txq>>
    BY <1>2, Shortened DEF ReceiveOne, LinkTypes
  <2>2. PICK g \in Seq(Got) : g = Append(rd[r].got, Head(rxq))
    BY <1>1, <2>1, Appended DEF Reading
  <2>3. rd' = [rd EXCEPT ![r] = [rd[r] EXCEPT !.got = g]]
    BY <1>1, <1>2, <2>2 DEF ReceiveOne
  <2>4. [rd[r] EXCEPT !.got = g] \in Reading /\ [rd[r] EXCEPT !.got = g].got = g
    BY <1>1 DEF Reading
  <2> QED
    BY <1>1, <2>1, <2>2, <2>3, <2>4 DEF Reads
<1>3. CASE FinishReceive(r)
  <2>1. PICK e \in {"ERR_BUFFER_EMPTY", "ERR_TIMEOUT", "NOERROR"} :
            rd' = [rd EXCEPT ![r].pc = "idle", ![r].dl = 0, ![r].res = e]
    BY <1>3 DEF FinishReceive
  <2>2. rd' = [rd EXCEPT ![r] = [rd[r] EXCEPT !.pc = "idle", !.dl = 0, !.res = e]]
    BY <1>1, <2>1
  <2>3. /\ [rd[r] EXCEPT !.pc = "idle", !.dl = 0, !.res = e] \in Reading
        /\ [rd[r] EXCEPT !.pc = "idle", !.dl = 0, !.res = e].got = rd[r].got
    BY <1>1 DEF Reading
  <2>4. UNCHANGED <<sess, rx, bsTx, txq, rxq>>
    BY <1>3 DEF FinishReceive
  <2> QED
    BY <1>1, <2>2, <2>3, <2>4 DEF Reads
<1>4. ASSUME NEW want \in Wants, NEW t \in Timeouts, StartReceive(r, want, t)
      PROVE  Reads
  <2>1. want \in Nat /\ t \in Nat
    BY EngineAssumption
  <2>2. PICK e \in Reading : /\ e.got = <<>>
                             /\ e = [pc |-> "loop", want |-> want, got |-> <<>>, dl |-> t,
                                     res |-> "pending"]
    <3> DEFINE e == [pc |-> "loop", want |-> want, got |-> <<>>, dl |-> t, res |-> "pending"]
    <3>1. <<>> \in Seq(Got)
      OBVIOUS
    <3>2. e \in Reading
      BY <2>1, <3>1 DEF Reading
    <3>3. e.got = <<>>
      OBVIOUS
    <3> HIDE DEF e
    <3> QED
      BY <3>2, <3>3 DEF e
  <2>3. rd' = [rd EXCEPT ![r] = e] /\ UNCHANGED <<sess, rx, bsTx, txq, rxq>>
    BY <1>4, <2>2 DEF StartReceive
  <2> QED
    BY <1>1, <2>2, <2>3 DEF Reads
<1> QED
  BY <1>2, <1>3, <1>4 DEF ReaderStep

LEMMA EngineEffect ==
    ASSUME TypeOK, LinkTypes, Request \/ EngineStep
    PROVE  Adds \/ Drops \/ Writes \/ Reads
<1> USE DEF sessVars, writerVars
<1>1. ASSUME NEW f \in Filters, NEW a \in Addresses, AddSession(f, a)
      PROVE  Adds
  <2>1. Least({t \in Slots : ~sess[t].active}) \in Slots
    BY <1>1, LeastIn DEF AddSession
  <2> QED
    BY <1>1, <2>1 DEF AddSession, Adds
<1>2. ASSUME NEW f \in Filters, RemoveSession(f)
      PROVE  Drops
  <2>1. PICK s \in Slots : sess' = [sess EXCEPT ![s].active = FALSE]
    BY <1>2, LeastIn DEF RemoveSession
  <2>2. \A t \in Slots : sess'[t].active => sess'[t] = sess[t]
    BY <2>1 DEF TypeOK, SessType
  <2> QED
    BY <1>2, <2>2 DEF RemoveSession, Drops
<1>3. CASE Shutdown
  BY <1>3 DEF Shutdown, Drops, TypeOK, SessType
<1>4. ASSUME NEW bs \in BlockSizes, SetConfig(bs)
      PROVE  Writes
  BY <1>4 DEF SetConfig, Writes
<1>5. ASSUME NEW w \in Writers, NEW a \in Addresses, NEW len \in Lens,
             TransmitRejected(w, a[1], len)
             \/ \E t \in Timeouts : TransmitCall(w, a[1], len, t)
      PROVE  Writes
  BY <1>5 DEF TransmitRejected, TransmitCall, Writes
<1>6. CASE Request
  BY <1>1, <1>2, <1>3, <1>4, <1>5, <1>6, ReadsStep DEF Request
<1>7. ASSUME NEW w \in Writers, WriterStep(w)
      PROVE  Writes
  BY <1>7, WriterFrames DEF Writes
<1>8. CASE Tick
  <2>1. rd' = [r \in Readers |-> [rd[r] EXCEPT !.dl = Less(rd[r].dl)]]
    BY <1>8 DEF Tick
  <2>2. ASSUME NEW r \in Readers
        PROVE  rd'[r] \in Reading /\ rd'[r].got = rd[r].got
    <3>1. rd[r] \in Reading /\ Less(rd[r].dl) \in Nat
      BY DEF LinkTypes, Reading, Less
    <3>2. rd'[r] = [rd[r] EXCEPT !.dl = Less(rd[r].dl)]
      BY <2>1
    <3> QED
      BY <3>1, <3>2 DEF Reading
  <2>3. UNCHANGED <<sess, rx, bsTx, rxq, txq>>
    BY <1>8 DEF Tick
  <2>4. rd' \in [Readers -> Reading]
    BY <2>1, <2>2
  <2> QED
    BY <2>2, <2>3, <2>4 DEF Reads
<1> QED
  BY <1>6, <1>7, <1>8, ReadsStep DEF EngineStep

LEMMA LinkTypesEngine ==
    ASSUME TypeOK, LinkTypes, Adds \/ Drops \/ Writes \/ Reads, mouth' = mouth
    PROVE  LinkTypes'
<1>1. CASE Adds
  <2>1. PICK s \in Slots, a \in Addresses, f \in Filters :
            /\ sess' = [sess EXCEPT ![s] = [active |-> TRUE, filter |-> f,
                                            txId |-> a[1], rxId |-> a[2]]]
            /\ rx' = [rx EXCEPT ![s] = ZeroRx]
    BY <1>1 DEF Adds
  <2>2. ZeroRx \in Assembly /\ a = <<a[1], a[2]>>
    BY EngineAssumption DEF ZeroRx, Assembly
  <2>3. \A t \in Slots : sess'[t].active => <<sess'[t].txId, sess'[t].rxId>> \in Addresses
    BY <2>1, <2>2 DEF LinkTypes, TypeOK
  <2>4. rx' \in [Slots -> Assembly]
    BY <2>1, <2>2 DEF LinkTypes
  <2> QED
    BY <1>1, <2>3, <2>4 DEF Adds, LinkTypes
<1>2. CASE Drops
  <2>0. rxq \in Seq(Got) /\ <<>> \in Seq(Got)
    BY DEF LinkTypes
  <2>1. rxq' \in Seq(Got)
    BY <1>2, <2>0 DEF Drops
  <2> QED
    BY <1>2, <2>1 DEF Drops, LinkTypes
<1>3. CASE Writes
  <2>1. txq' \in Seq(Frame)
    BY <1>3, Appended DEF Writes, LinkTypes
  <2> QED
    BY <1>3, <2>1 DEF Writes, LinkTypes
<1>4. CASE Reads
  <2>0. rxq \in Seq(Got)
    BY DEF LinkTypes
  <2>1. CASE rxq' = rxq
    BY <1>4, <2>0, <2>1 DEF Reads, LinkTypes
  <2>2. CASE rxq # <<>> /\ rxq' = Tail(rxq)
    <3>1. Tail(rxq) \in Seq(Got)
      BY <2>0, <2>2, Shortened
    <3> QED
      BY <1>4, <2>2, <3>1 DEF Reads, LinkTypes
  <2> QED
    BY <1>4, <2>1, <2>2 DEF Reads
<1> QED
  BY <1>1, <1>2, <1>3, <1>4

LEMMA LinkTypesKept ==
    ASSUME LinkTypes, sess' = sess, rx' \in [Slots -> Assembly], rxq' \in Seq(Got),
           rd' = rd, mouth' \in [Addresses -> Mouth], txq' \in Seq(Frame)
    PROVE  LinkTypes'
  BY DEF LinkTypes

LEMMA LinkTypesEcu ==
    ASSUME TypeOK, LinkTypes, NEW a \in Addresses, Ecu(a)
    PROVE  LinkTypes'
<1>0. /\ rx \in [Slots -> Assembly] /\ rxq \in Seq(Got) /\ rd \in [Readers -> Reading]
      /\ mouth \in [Addresses -> Mouth] /\ txq \in Seq(Frame)
  BY DEF LinkTypes
<1>1. ASSUME NEW s \in Slots, SendFC(s) PROVE txq' \in Seq(Frame)
  BY <1>0, <1>1, FlowQueued, Appended
<1>2. ASSUME NEW fs \in FlowStatuses, NEW bs \in PeerBlockSizes, EcuFlow(a, fs, bs)
      PROVE  LinkTypes'
  BY <1>0, <1>2, FlowStep, LinkTypesKept
<1>3. ASSUME NEW len \in PeerLens, EcuFirst(a, len)
      PROVE  LinkTypes'
  <2>1. mouth' \in [Addresses -> Mouth] /\ UNCHANGED <<sess, rxq, rd>>
    BY <1>0, <1>3, FirstFrameStep
  <2>2. rx' \in [Slots -> Assembly] /\ txq' \in Seq(Frame)
    <3>1. CASE UNCHANGED <<rx, txq>>
      BY <1>0, <3>1
    <3>2. ASSUME NEW s \in Slots, NEW r \in Assembly, FirstHeard(a, len, s, r)
          PROVE  rx' \in [Slots -> Assembly] /\ txq' \in Seq(Frame)
      BY <1>0, <1>1, <3>2 DEF FirstHeard
    <3> QED
      BY <1>3, <3>1, <3>2, FirstFrameStep
  <2> QED
    BY <1>0, <2>1, <2>2, LinkTypesKept
<1>4. CASE EcuSingle(a)
  <2>1. mouth' \in [Addresses -> Mouth] /\ UNCHANGED <<sess, rx, rd, txq>>
    BY <1>0, <1>4, SingleFrameStep
  <2>2. rxq' \in Seq(Got)
    <3>1. rxq' = rxq \/ \E g \in Got : rxq' = Enqueue(rxq, g)
      BY <1>4, SingleFrameStep
    <3> QED
      BY <1>0, <3>1, EnqueueType
  <2> QED
    BY <1>0, <2>1, <2>2, LinkTypesKept
<1>5. ASSUME NEW arrives \in BOOLEAN, EcuConsecutive(a, arrives)
      PROVE  LinkTypes'
  <2>1. mouth' \in [Addresses -> Mouth]
    BY <1>0, <1>5, CfSpokenType
  <2>2. sess' = sess /\ rd' = rd
    BY <1>5, ConsecutiveStep
  <2>3. CASE UNCHANGED <<rx, rxq, txq>>
    BY <1>0, <2>1, <2>2, <2>3, LinkTypesKept
  <2>4. ASSUME NEW s \in Slots, rx' = [rx EXCEPT ![s] = [rx[s] EXCEPT !.state = "IDLE"]],
               UNCHANGED <<rxq, txq>>
        PROVE  LinkTypes'
    <3>1. [rx[s] EXCEPT !.state = "IDLE"] \in Assembly
      BY <1>0 DEF Assembly
    <3>2. rx' \in [Slots -> Assembly]
      BY <1>0, <2>4, <3>1
    <3> QED
      BY <1>0, <2>1, <2>2, <2>4, <3>2, LinkTypesKept
  <2>5. ASSUME NEW s \in Slots, NEW t \in Assembly, CfHeard(a, s, t)
        PROVE  LinkTypes'
    <3>1. [t EXCEPT !.state = "IDLE"] \in Assembly /\ [t EXCEPT !.bsCount = 0] \in Assembly
      BY DEF Assembly
    <3>2. rx' \in [Slots -> Assembly]
      BY <1>0, <2>5, <3>1 DEF CfHeard
    <3>3. rxq' \in Seq(Got)
      <4>1. rxq' = rxq \/ \E g \in Got : rxq' = Enqueue(rxq, g)
        BY <2>5 DEF CfHeard
      <4> QED
        BY <1>0, <4>1, EnqueueType
    <3>4. txq' \in Seq(Frame)
      BY <1>0, <1>1, <2>5 DEF CfHeard
    <3> QED
      BY <2>1, <2>2, <3>2, <3>3, <3>4, LinkTypesKept
  <2> QED
    BY <1>5, <2>3, <2>4, <2>5, ConsecutiveStep
<1> QED
  BY <1>2, <1>3, <1>4, <1>5 DEF Ecu

LEMMA LinkTypesStep ==
    ASSUME TypeOK, LinkTypes, Next
    PROVE  LinkTypes'
<1>1. CASE (Request \/ EngineStep) /\ UNCHANGED <<ear, mouth, lost, full>>
  BY <1>1, EngineEffect, LinkTypesEngine
<1>2. CASE EcuTakes
  <2>1. /\ UNCHANGED <<sess, rx, rxq>> /\ mouth' \in [Addresses -> Mouth]
        /\ txq # <<>> /\ txq' = Tail(txq) /\ rd' = rd
    BY <1>2, TakesStep DEF EcuTakes
  <2>2. txq' \in Seq(Frame)
    BY <2>1, Shortened DEF LinkTypes
  <2> QED
    BY <2>1, <2>2, LinkTypesKept DEF LinkTypes
<1> QED
  BY <1>1, <1>2, LinkTypesEcu DEF Next

----------------------------------------------------------------------------
\* What waits in the queue and what readers hold: whole messages, in order, and
\* of each ECU none younger than the last it has finished.

MsgNo(g) == g.buf[1][1]
Fine(g) == Len(g.buf) >= 1 /\ Whole(g.buf)
Past(g, m) == MsgNo(g) <= m.k /\ (m.st # "idle" => MsgNo(g) < m.k)
Later(m, p) == p.k >= m.k /\ (p.st # "idle" => m.st # "idle" \/ p.k > m.k)

Clean(q, mo) ==
    /\ \A i \in 1..Len(q) : Fine(q[i])
    /\ \A i, j \in 1..Len(q) : i < j /\ q[i].id = q[j].id => MsgNo(q[i]) < MsgNo(q[j])
    /\ \A i \in 1..Len(q), a \in Addresses : q[i].id = a[2] => Past(q[i], mo[a])
Before(p, q) ==
    \A i \in 1..Len(p), j \in 1..Len(q) : p[i].id = q[j].id => MsgNo(p[i]) < MsgNo(q[j])
Queues(q, d, mo) ==
    /\ Clean(q, mo)
    /\ \A r \in Readers : Clean(d[r].got, mo) /\ Before(d[r].got, q)

LEMMA MsgNoType == ASSUME NEW g \in Got, Fine(g) PROVE MsgNo(g) \in Nat
<1>1. g.buf \in Seq(Tag) /\ Len(g.buf) >= 1
  BY DEF Got, Fine
<1>2. g.buf[1] \in Tag
  BY <1>1
<1> QED
  BY <1>2 DEF Tag, MsgNo

LEMMA CleanLater ==
    ASSUME NEW q \in Seq(Got), NEW mo \in [Addresses -> Mouth],
           NEW mp \in [Addresses -> Mouth], Clean(q, mo),
           \A a \in Addresses : Later(mo[a], mp[a])
    PROVE  Clean(q, mp)
<1>1. ASSUME NEW i \in 1..Len(q), NEW a \in Addresses, q[i].id = a[2]
      PROVE  Past(q[i], mp[a])
  <2>1. q[i] \in Got /\ Fine(q[i]) /\ Past(q[i], mo[a])
    BY <1>1 DEF Clean
  <2>2. MsgNo(q[i]) \in Nat
    BY <2>1, MsgNoType
  <2>3. mo[a].k \in Nat /\ mp[a].k \in Nat /\ Later(mo[a], mp[a])
    BY DEF Mouth
  <2> QED
    BY <2>1, <2>2, <2>3 DEF Past, Later
<1> QED
  BY <1>1 DEF Clean

LEMMA CleanTail ==
    ASSUME NEW q \in Seq(Got), NEW mo, Clean(q, mo), q # <<>>
    PROVE  /\ Clean(Tail(q), mo)
           /\ \A p \in Seq(Got) : Before(p, q) => Before(p, Tail(q))
<1>1. /\ Tail(q) \in Seq(Got) /\ Len(Tail(q)) = Len(q) - 1 /\ Len(q) \in Nat
      /\ \A i \in 1..(Len(q) - 1) : Tail(q)[i] = q[i + 1]
  BY Shortened
<1>2. \A i \in 1..Len(Tail(q)) : i + 1 \in 1..Len(q) /\ Tail(q)[i] = q[i + 1]
  BY <1>1
<1>3. Clean(Tail(q), mo)
  <2>1. \A i \in 1..Len(Tail(q)) : Fine(Tail(q)[i])
    BY <1>2 DEF Clean
  <2>2. ASSUME NEW i \in 1..Len(Tail(q)), NEW j \in 1..Len(Tail(q)), i < j,
               Tail(q)[i].id = Tail(q)[j].id
        PROVE  MsgNo(Tail(q)[i]) < MsgNo(Tail(q)[j])
    <3>1. i + 1 < j + 1
      BY <1>1, <2>2
    <3> QED
      BY <1>2, <2>2, <3>1 DEF Clean
  <2>3. ASSUME NEW i \in 1..Len(Tail(q)), NEW a \in Addresses, Tail(q)[i].id = a[2]
        PROVE  Past(Tail(q)[i], mo[a])
    BY <1>2, <2>3 DEF Clean
  <2> QED
    BY <2>1, <2>2, <2>3 DEF Clean
<1>4. ASSUME NEW p \in Seq(Got), Before(p, q) PROVE Before(p, Tail(q))
  BY <1>2, <1>4 DEF Before
<1> QED
  BY <1>3, <1>4

LEMMA CleanAppend ==
    ASSUME NEW q \in Seq(Got), NEW mo, NEW g \in Got, Clean(q, mo), Fine(g),
           \A i \in 1..Len(q) : q[i].id = g.id => MsgNo(q[i]) < MsgNo(g),
           \A a \in Addresses : g.id = a[2] => Past(g, mo[a])
    PROVE  Clean(Append(q, g), mo)
<1>1. PICK z \in Seq(Got) : z = Append(q, g)
  BY Appended
<1>2. /\ Len(z) = Len(q) + 1 /\ Len(q) \in Nat /\ z[Len(q) + 1] = g
      /\ \A i \in 1..Len(q) : z[i] = q[i]
  BY <1>1, Appended
<1>3. \A i \in 1..Len(z) : \/ i \in 1..Len(q) /\ z[i] = q[i]
                           \/ i = Len(q) + 1 /\ z[i] = g
  BY <1>2
<1>4. \A i \in 1..Len(z) : Fine(z[i])
  BY <1>3 DEF Clean
<1>5. ASSUME NEW i \in 1..Len(z), NEW j \in 1..Len(z), i < j, z[i].id = z[j].id
      PROVE  MsgNo(z[i]) < MsgNo(z[j])
  <2>1. i \in 1..Len(q) /\ z[i] = q[i]
    BY <1>2, <1>5
  <2>2. CASE j \in 1..Len(q) /\ z[j] = q[j]
    BY <1>5, <2>1, <2>2 DEF Clean
  <2>3. CASE z[j] = g
    BY <1>5, <2>1, <2>3
  <2> QED
    BY <1>3, <2>2, <2>3
<1>6. \A i \in 1..Len(z), a \in Addresses : z[i].id = a[2] => Past(z[i], mo[a])
  BY <1>3 DEF Clean
<1>7. Clean(z, mo)
  BY <1>4, <1>5, <1>6 DEF Clean
<1> QED
  BY <1>1, <1>7

LEMMA BeforeAppend ==
    ASSUME NEW p \in Seq(Got), NEW q \in Seq(Got), NEW g \in Got, Before(p, q)
    PROVE  /\ (\A i \in 1..Len(p) : p[i].id = g.id => MsgNo(p[i]) < MsgNo(g))
                 => Before(p, Append(q, g))
           /\ (\A j \in 1..Len(q) : g.id = q[j].id => MsgNo(g) < MsgNo(q[j]))
                 => Before(Append(p, g), q)
<1>1. \A i \in 1..Len(Append(q, g)) :
         \/ i \in 1..Len(q) /\ Append(q, g)[i] = q[i]
         \/ Append(q, g)[i] = g
  BY Appended
<1>2. \A i \in 1..Len(Append(p, g)) :
         \/ i \in 1..Len(p) /\ Append(p, g)[i] = p[i]
         \/ Append(p, g)[i] = g
  BY Appended
<1>3. (\A i \in 1..Len(p) : p[i].id = g.id => MsgNo(p[i]) < MsgNo(g)) => Before(p, Append(q, g))
  BY <1>1 DEF Before
<1>4. (\A j \in 1..Len(q) : g.id = q[j].id => MsgNo(g) < MsgNo(q[j])) => Before(Append(p, g), q)
  BY <1>2 DEF Before
<1> QED
  BY <1>3, <1>4

LEMMA QueuesLater ==
    ASSUME LinkTypes, LinkTypes', Queues(rxq, rd, mouth), rxq' = rxq, rd' = rd,
           \A a \in Addresses : Later(mouth[a], mouth'[a])
    PROVE  Queues(rxq', rd', mouth')
<1>1. /\ mouth \in [Addresses -> Mouth] /\ mouth' \in [Addresses -> Mouth]
      /\ rxq \in Seq(Got) /\ \A r \in Readers : rd[r].got \in Seq(Got)
  BY DEF LinkTypes, Reading
<1>2. Clean(rxq, mouth')
  BY <1>1, CleanLater DEF Queues
<1>3. \A r \in Readers : Clean(rd[r].got, mouth')
  BY <1>1, CleanLater DEF Queues
<1> QED
  BY <1>2, <1>3 DEF Queues

LEMMA QueuesRead ==
    ASSUME LinkTypes, Queues(rxq, rd, mouth), Reads, mouth' = mouth
    PROVE  Queues(rxq', rd', mouth')
<1>1. rxq \in Seq(Got) /\ \A r \in Readers : rd[r].got \in Seq(Got)
  BY DEF LinkTypes, Reading
<1>2. Clean(<<>>, mouth) /\ Before(<<>>, rxq)
  BY DEF Clean, Before
<1>3. CASE rxq' = rxq /\ \A r \in Readers : rd'[r].got \in {rd[r].got, <<>>}
  BY <1>2, <1>3 DEF Queues
<1>4. ASSUME rxq # <<>>, rxq' = Tail(rxq), NEW r \in Readers,
             rd'[r].got = Append(rd[r].got, Head(rxq)),
             \A u \in Readers : u # r => rd'[u].got = rd[u].got
      PROVE  Queues(rxq', rd', mouth')
  <2>1. PICK g \in Got : g = Head(rxq) /\ g = rxq[1]
    BY <1>1, <1>4, Shortened
  <2>2. /\ Len(Tail(rxq)) = Len(rxq) - 1 /\ Len(rxq) \in Nat /\ Tail(rxq) \in Seq(Got)
        /\ \A i \in 1..(Len(rxq) - 1) : Tail(rxq)[i] = rxq[i + 1]
    BY <1>1, <1>4, Shortened
  <2>3. 1 \in 1..Len(rxq)
    BY <1>1, <1>4, <2>2
  <2>4. Clean(rxq, mouth) /\ Clean(rd[r].got, mouth) /\ Before(rd[r].got, rxq)
    BY DEF Queues
  <2>5. Fine(g) /\ \A a \in Addresses : g.id = a[2] => Past(g, mouth[a])
    BY <2>1, <2>3, <2>4 DEF Clean
  <2>6. \A i \in 1..Len(rd[r].got) : rd[r].got[i].id = g.id => MsgNo(rd[r].got[i]) < MsgNo(g)
    BY <2>1, <2>3, <2>4 DEF Before
  <2>7. Clean(Append(rd[r].got, g), mouth)
    BY <1>1, <2>4, <2>5, <2>6, CleanAppend
  <2>8. ASSUME NEW j \in 1..Len(Tail(rxq)), g.id = Tail(rxq)[j].id
        PROVE  MsgNo(g) < MsgNo(Tail(rxq)[j])
    <3>1. j + 1 \in 1..Len(rxq) /\ 1 < j + 1 /\ Tail(rxq)[j] = rxq[j + 1]
      BY <2>2
    <3> QED
      BY <2>1, <2>3, <2>4, <2>8, <3>1 DEF Clean
  <2>9. Clean(Tail(rxq), mouth) /\ \A u \in Readers : Before(rd[u].got, Tail(rxq))
    BY <1>1, <1>4, <2>4, CleanTail DEF Queues
  <2>10. Before(Append(rd[r].got, g), Tail(rxq))
    BY <1>1, <2>2, <2>8, <2>9, BeforeAppend
  <2>11. \A u \in Readers : Clean(rd'[u].got, mouth) /\ Before(rd'[u].got, Tail(rxq))
    BY <1>4, <2>1, <2>7, <2>9, <2>10 DEF Queues
  <2> QED
    BY <1>4, <2>9, <2>11 DEF Queues
<1> QED
  BY <1>3, <1>4 DEF Reads

\* A message that is younger than all of its ECU's joins the queue.
LEMMA QueuesEnqueue ==
    ASSUME LinkTypes, LinkTypes', Queues(rxq, rd, mouth), OwnIds, rd' = rd,
           \A b \in Addresses : Later(mouth[b], mouth'[b]),
           NEW a \in Addresses, NEW g \in Got, g.id = a[2], Fine(g), rxq' = Enqueue(rxq, g),
           MsgNo(g) = mouth'[a].k, mouth'[a].st = "idle",
           mouth[a].st # "idle" \/ mouth'[a].k > mouth[a].k
    PROVE  Queues(rxq', rd', mouth')
<1>1. /\ mouth \in [Addresses -> Mouth] /\ mouth' \in [Addresses -> Mouth]
      /\ rxq \in Seq(Got) /\ \A r \in Readers : rd[r].got \in Seq(Got)
  BY DEF LinkTypes, Reading
<1>2. mouth[a].k \in Nat /\ mouth'[a].k \in Nat /\ Later(mouth[a], mouth'[a])
  BY <1>1 DEF Mouth
<1>3. ASSUME NEW h \in Got, Fine(h), h.id = a[2], Past(h, mouth[a])
      PROVE  MsgNo(h) < MsgNo(g)
  <2>1. MsgNo(h) \in Nat
    BY <1>3, MsgNoType
  <2> QED
    BY <1>2, <1>3, <2>1 DEF Past, Later
<1>4. ASSUME NEW q \in Seq(Got), Clean(q, mouth)
      PROVE  /\ \A i \in 1..Len(q) : q[i].id = g.id => MsgNo(q[i]) < MsgNo(g)
             /\ Clean(q, mouth')
  <2>1. Clean(q, mouth')
    BY <1>1, <1>4, CleanLater
  <2>2. ASSUME NEW i \in 1..Len(q), q[i].id = g.id
        PROVE  MsgNo(q[i]) < MsgNo(g)
    <3>1. q[i] \in Got /\ Fine(q[i]) /\ Past(q[i], mouth[a])
      BY <1>4, <2>2 DEF Clean
    <3> QED
      BY <1>3, <2>2, <3>1
  <2> QED
    BY <2>1, <2>2
<1>5. \A b \in Addresses : g.id = b[2] => Past(g, mouth'[b])
  <2>1. \A b \in Addresses : g.id = b[2] => b = a
    BY DEF OwnIds
  <2> QED
    BY <1>2, <2>1 DEF Past
<1>6. PICK q \in Seq(Got) :
          /\ Clean(q, mouth) /\ (\A r \in Readers : Before(rd[r].got, q))
          /\ rxq' = Append(q, g)
  <2>0. Clean(rxq, mouth) /\ \A r \in Readers : Before(rd[r].got, rxq)
    BY DEF Queues
  <2>1. CASE Len(rxq) >= RxqCap
    <3>1. rxq # <<>>
      BY <1>1, <2>1, EngineAssumption
    <3>2. /\ Tail(rxq) \in Seq(Got) /\ Clean(Tail(rxq), mouth)
          /\ \A r \in Readers : Before(rd[r].got, Tail(rxq))
      BY <1>1, <2>0, <3>1, CleanTail, Shortened
    <3> QED
      BY <2>1, <3>2 DEF Enqueue
  <2>2. CASE ~(Len(rxq) >= RxqCap)
    BY <1>1, <2>0, <2>2 DEF Enqueue
  <2> QED
    BY <2>1, <2>2
<1>7. Clean(rxq', mouth')
  BY <1>4, <1>5, <1>6, CleanAppend
<1>8. ASSUME NEW r \in Readers
      PROVE  Clean(rd[r].got, mouth') /\ Before(rd[r].got, rxq')
  <2>1. Clean(rd[r].got, mouth) /\ rd[r].got \in Seq(Got)
    BY <1>1 DEF Queues
  <2> QED
    BY <1>4, <1>6, <2>1, BeforeAppend
<1> QED
  BY <1>7, <1>8 DEF Queues

----------------------------------------------------------------------------
\* The assembly of a message that its ECU is still sending.  A session never has
\* more frames than the ECU has sent; one that has them all holds the message's
\* chunks in order.  One that missed a frame can only fall further behind, so it
\* is never complete when the ECU is: neither lost frames nor a sequence number
\* that wraps around let a message through with a hole in it.

Sent(m) == (m.off + 1) \div 7
Chunk(k, i, len) == <<k, IF i = 1 THEN 0 ELSE 7 * i - 8, len>>

Speaks(m) ==
    m.st # "idle" => /\ m.off >= 6 /\ (m.off + 1) % 7 = 0 /\ m.off < m.len
                     /\ m.sn = Sent(m) % 16

Follows(r, m) ==
    m.st # "idle" =>
        /\ Len(r.buf) >= 1 /\ r.len = m.len /\ r.off = 7 * Len(r.buf) - 1
        /\ Len(r.buf) <= Sent(m)
        /\ Len(r.buf) = Sent(m) =>
              /\ r.sn = m.sn
              /\ \A i \in 1..Len(r.buf) : r.buf[i] = Chunk(m.k, i, m.len)

Assembled(se, x, mo) ==
    \A s \in Slots, a \in Addresses :
        (se[s].active /\ se[s].rxId = a[2] /\ x[s].state = "RECEIVING") => Follows(x[s], mo[a])

ReceiveInv ==
    /\ Queues(rxq, rd, mouth)
    /\ \A a \in Addresses : Speaks(mouth[a])
    /\ Assembled(sess, rx, mouth)

LEMMA SentSpoken ==
    ASSUME NEW m \in Mouth, m.st = "sending", Speaks(m)
    PROVE  /\ Sent(m) \in Nat /\ Sent(m) >= 1 /\ m.off = 7 * Sent(m) - 1
           /\ m.len \in Nat /\ m.off < m.len
<1>1. m.off \in Nat /\ m.len \in Nat /\ m.off >= 6 /\ (m.off + 1) % 7 = 0 /\ m.off < m.len
  BY DEF Mouth, Speaks
<1> QED
  BY <1>1 DEF Sent

LEMMA SpeaksOn ==
    ASSUME NEW m \in Mouth, NEW p \in Mouth, m.st = "sending", Speaks(m), CfSpoken(m, p),
           p.st # "idle"
    PROVE  Speaks(p) /\ Sent(p) = Sent(m) + 1 /\ p.sn = (m.sn + 1) % 16
<1>1. /\ Sent(m) \in Nat /\ m.off = 7 * Sent(m) - 1 /\ m.len \in Nat /\ Sent(m) >= 1
      /\ m.sn = Sent(m) % 16
  BY SentSpoken DEF Speaks
<1>2. m.len - m.off > 7
  BY <1>1 DEF CfSpoken
<1>3. p.off = m.off + 7 /\ p.sn = (m.sn + 1) % 16 /\ p.len = m.len
  BY <1>2 DEF CfSpoken
<1>4. Sent(p) = Sent(m) + 1 /\ p.off >= 6 /\ (p.off + 1) % 7 = 0 /\ p.off < p.len
  BY <1>1, <1>2, <1>3 DEF Sent
<1>5. p.sn = Sent(p) % 16
  BY <1>1, <1>3, <1>4
<1> QED
  BY <1>3, <1>4, <1>5 DEF Speaks

\* A frame that does not reach the assembly leaves it behind.
LEMMA FollowsMissed ==
    ASSUME NEW r \in Assembly, NEW m \in Mouth, NEW p \in Mouth, m.st = "sending",
           Speaks(m), Follows(r, m), CfSpoken(m, p)
    PROVE  Follows(r, p)
<1> SUFFICES ASSUME p.st # "idle" PROVE Follows(r, p)
  BY DEF Follows
<1>1. Sent(p) = Sent(m) + 1 /\ Sent(m) \in Nat /\ p.len = m.len
  BY SpeaksOn, SentSpoken DEF CfSpoken
<1>2. Len(r.buf) \in Nat
  BY DEF Assembly
<1> QED
  BY <1>1, <1>2 DEF Follows

LEMMA FollowsTaken ==
    ASSUME NEW r \in Assembly, NEW t \in Assembly, NEW m \in Mouth, NEW p \in Mouth,
           m.st = "sending", Speaks(m), Follows(r, m), CfSpoken(m, p), CfTaken(r, m, t)
    PROVE  /\ t.off < t.len => Follows(t, p)
           /\ t.off >= t.len => /\ p.st = "idle" /\ t.buf[1][1] = m.k
                                /\ Len(t.buf) >= 1 /\ Whole(t.buf)
<1>1. /\ Sent(m) \in Nat /\ Sent(m) >= 1 /\ m.off = 7 * Sent(m) - 1
      /\ m.len \in Nat /\ m.off < m.len
  BY SentSpoken
<1>2. /\ Len(r.buf) \in Nat /\ r.buf \in Seq(Tag) /\ Len(r.buf) >= 1 /\ r.len = m.len
      /\ r.off = 7 * Len(r.buf) - 1 /\ Len(r.buf) <= Sent(m)
  BY DEF Assembly, Follows
<1>3. <<m.k, m.off, m.len>> \in Tag
  BY DEF Tag, Mouth
<1>4. PICK b \in Seq(Tag) : b = t.buf
  BY DEF Assembly
<1>5. /\ Len(b) = Len(r.buf) + 1 /\ \A i \in 1..Len(r.buf) : b[i] = r.buf[i]
      /\ b[Len(r.buf) + 1] = <<m.k, m.off, m.len>>
  BY <1>2, <1>3, <1>4, Appended DEF CfTaken
<1>6. ASSUME Len(r.buf) = Sent(m)
      PROVE  \A i \in 1..Len(b) : b[i] = Chunk(m.k, i, m.len)
  <2>1. \A i \in 1..Len(r.buf) : b[i] = Chunk(m.k, i, m.len)
    BY <1>5, <1>6 DEF Follows
  <2>2. m.off = 7 * (Len(r.buf) + 1) - 8 /\ Len(r.buf) + 1 # 1
    BY <1>1, <1>2, <1>6
  <2>3. b[Len(r.buf) + 1] = Chunk(m.k, Len(r.buf) + 1, m.len)
    BY <1>5, <2>2 DEF Chunk
  <2>4. \A i \in 1..Len(b) : i \in 1..Len(r.buf) \/ i = Len(r.buf) + 1
    BY <1>2, <1>5
  <2> QED
    BY <2>1, <2>3, <2>4
<1>7. t.len = m.len /\ t.off = (IF 7 > m.len - r.off THEN m.len ELSE r.off + 7)
  BY <1>2 DEF CfTaken
<1>8. ASSUME t.off < t.len, p.st # "idle"
      PROVE  Follows(t, p)
  <2>1. t.off = 7 * Len(b) - 1
    BY <1>1, <1>2, <1>5, <1>7, <1>8
  <2>2. Sent(p) = Sent(m) + 1 /\ p.sn = (m.sn + 1) % 16 /\ p.len = m.len /\ p.k = m.k
    BY <1>8, SpeaksOn DEF CfSpoken
  <2>3. Len(b) <= Sent(p) /\ (Len(b) = Sent(p) => Len(r.buf) = Sent(m)) /\ Len(b) >= 1
    BY <1>1, <1>2, <1>5, <2>2
  <2>4. Len(r.buf) = Sent(m) => t.sn = p.sn
    BY <2>2 DEF CfTaken, Follows
  <2> QED
    BY <1>4, <1>6, <1>7, <2>1, <2>2, <2>3, <2>4 DEF Follows
<1>9. ASSUME t.off >= t.len
      PROVE  p.st = "idle" /\ t.buf[1][1] = m.k /\ Len(t.buf) >= 1 /\ Whole(t.buf)
  <2>1. ~(Len(r.buf) < Sent(m))
    BY <1>1, <1>2, <1>7, <1>9
  <2>2. Len(r.buf) = Sent(m) /\ r.off = m.off
    BY <1>1, <1>2, <2>1
  <2>3. m.len - m.off <= 7
    BY <1>1, <1>2, <1>7, <1>9, <2>2
  <2>4. Len(b) = 1 + m.len \div 7
    BY <1>1, <1>5, <2>2, <2>3
  <2>5. 1 \in 1..Len(b) /\ b[1] = <<m.k, 0, m.len>>
    BY <1>1, <1>5, <1>6, <2>2 DEF Chunk
  <2>6. b[1][1] = m.k /\ b[1][3] = m.len
    BY <2>5
  <2>7. \A i \in 1..Len(b) : b[i] = <<m.k, IF i = 1 THEN 0 ELSE 7 * i - 8, m.len>>
    BY <1>6, <2>2 DEF Chunk
  <2>8. Whole(b)
    BY <2>4, <2>6, <2>7 DEF Whole
  <2> QED
    BY <1>4, <2>3, <2>5, <2>6, <2>8 DEF CfSpoken
<1> QED
  BY <1>8, <1>9 DEF Follows

LEMMA ReceiveEngine ==
    ASSUME TypeOK, LinkTypes, ReceiveInv, Adds \/ Drops \/ Writes \/ Reads, mouth' = mouth
    PROVE  ReceiveInv'
<1>1. CASE Adds
  <2>1. PICK s \in Slots : /\ \A t \in Slots : t # s => sess'[t] = sess[t] /\ rx'[t] = rx[t]
                           /\ rx'[s].state = "IDLE"
    BY <1>1 DEF Adds, LinkTypes, TypeOK, ZeroRx
  <2>2. Assembled(sess', rx', mouth)
    BY <2>1 DEF Assembled, ReceiveInv
  <2> QED
    BY <1>1, <2>2 DEF Adds, ReceiveInv
<1>2. CASE Drops
  <2>1. Assembled(sess', rx', mouth)
    BY <1>2 DEF Drops, Assembled, ReceiveInv
  <2>2. Queues(rxq, rd, mouth) /\ Queues(<<>>, rd, mouth)
    BY DEF ReceiveInv, Queues, Clean, Before
  <2>3. Queues(rxq', rd, mouth)
    <3>1. rxq' = rxq \/ rxq' = <<>>
      BY <1>2 DEF Drops
    <3> QED
      BY <2>2, <3>1
  <2> QED
    BY <1>2, <2>1, <2>3 DEF Drops, ReceiveInv
<1>3. CASE Writes
  BY <1>3 DEF Writes, ReceiveInv
<1>4. CASE Reads
  <2>1. Queues(rxq', rd', mouth')
    BY <1>4, QueuesRead DEF ReceiveInv
  <2> QED
    BY <1>4, <2>1 DEF Reads, ReceiveInv
<1> QED
  BY <1>1, <1>2, <1>3, <1>4

LEMMA ReceiveTakes ==
    ASSUME TypeOK, LinkTypes, LinkTypes', ReceiveInv, EcuTakes
    PROVE  ReceiveInv'
<1>1. UNCHANGED <<sess, rx, rxq, rd>>
  BY TakesStep
<1>2. ASSUME NEW b \in Addresses
      PROVE  /\ Later(mouth[b], mouth'[b]) /\ Speaks(mouth'[b])
             /\ \A s \in Slots : Follows(rx[s], mouth[b]) => Follows(rx[s], mouth'[b])
  <2>1. mouth[b] \in Mouth /\ mouth'[b] \in Mouth /\ Speaks(mouth[b])
    BY DEF LinkTypes, ReceiveInv
  <2>2. \/ mouth'[b] = mouth[b]
        \/ /\ mouth'[b].k = mouth[b].k /\ mouth'[b].len = mouth[b].len
           /\ mouth'[b].off = mouth[b].off /\ mouth'[b].sn = mouth[b].sn
           /\ mouth[b].st = "wait" /\ mouth'[b].st = "sending"
    BY TakesStep DEF Allowed
  <2>3. Later(mouth[b], mouth'[b])
    <3>1. mouth[b].k \in Nat /\ mouth'[b].k \in Nat
      BY <2>1 DEF Mouth
    <3> QED
      BY <2>2, <3>1 DEF Later
  <2>4. CASE mouth'[b] = mouth[b]
    BY <2>1, <2>3, <2>4
  <2>5. CASE mouth'[b] # mouth[b]
    <3>1. Sent(mouth'[b]) = Sent(mouth[b])
      BY <2>2, <2>5 DEF Sent
    <3>2. Speaks(mouth'[b])
      BY <2>1, <2>2, <2>5, <3>1 DEF Speaks
    <3>3. \A s \in Slots : Follows(rx[s], mouth[b]) => Follows(rx[s], mouth'[b])
      BY <2>2, <2>5, <3>1 DEF Follows
    <3> QED
      BY <2>3, <3>2, <3>3
  <2> QED
    BY <2>4, <2>5
<1>3. Queues(rxq', rd', mouth')
  BY <1>1, <1>2, QueuesLater DEF ReceiveInv
<1>4. Assembled(sess', rx', mouth')
  BY <1>1, <1>2 DEF Assembled, ReceiveInv
<1> QED
  BY <1>2, <1>3, <1>4 DEF ReceiveInv

\* What is left to show of a step of ECU a, which changes mouth[a] alone and the
\* assembly of at most the one session that its frames find.
LEMMA OneEcu ==
    ASSUME LinkTypes, ReceiveInv, OwnIds, OneSession, NEW a \in Addresses,
           sess' = sess, NEW p \in Mouth, mouth' = [mouth EXCEPT ![a] = p], Speaks(p),
           rx' \in [Slots -> Assembly],
           \A s \in Slots : rx'[s] # rx[s] => Matched(a) # {} /\ s = Least(Matched(a)),
           \A s \in Slots :
               (sess[s].active /\ sess[s].rxId = a[2] /\ rx'[s].state = "RECEIVING")
                   => Follows(rx'[s], p)
    PROVE  (\A b \in Addresses : Speaks(mouth'[b])) /\ Assembled(sess', rx', mouth')
<1>1. \A b \in Addresses : mouth'[b] = IF b = a THEN p ELSE mouth[b]
  BY DEF LinkTypes
<1>2. \A b \in Addresses : Speaks(mouth'[b])
  BY <1>1 DEF ReceiveInv
<1>3. ASSUME NEW s \in Slots, NEW b \in Addresses, sess[s].active, sess[s].rxId = b[2],
             rx'[s].state = "RECEIVING"
      PROVE  Follows(rx'[s], mouth'[b])
  <2>1. CASE b = a
    BY <1>1, <1>3, <2>1
  <2>2. CASE b # a
    <3>1. sess[s].rxId # a[2]
      BY <1>3, <2>2 DEF OwnIds
    <3>2. rx'[s] = rx[s]
      BY <3>1, TheSession
    <3> QED
      BY <1>1, <1>3, <2>2, <3>2 DEF ReceiveInv, Assembled
  <2> QED
    BY <2>1, <2>2
<1> QED
  BY <1>2, <1>3 DEF Assembled

LEMMA ReceiveFirstFrame ==
    ASSUME TypeOK, LinkTypes, LinkTypes', ReceiveInv, OwnIds, OneSession,
           NEW a \in Addresses, NEW len \in PeerLens, EcuFirst(a, len)
    PROVE  ReceiveInv'
<1>1. PICK p \in Mouth : p = FirstSpoken(mouth[a], len)
  BY FirstFrameStep
<1>2. /\ len \in Nat /\ len > 7 /\ UNCHANGED <<sess, rxq, rd>>
      /\ mouth' = [mouth EXCEPT ![a] = p]
  BY <1>1, FirstFrameStep
<1>3. /\ p.st = "wait" /\ p.k = mouth[a].k + 1 /\ p.len = len /\ p.off = 6 /\ p.sn = 1
  BY <1>1 DEF FirstSpoken
<1>4. Sent(p) = 1 /\ Speaks(p)
  BY <1>2, <1>3 DEF Sent, Speaks
<1>5. mouth \in [Addresses -> Mouth] /\ rx' \in [Slots -> Assembly] /\ mouth[a].k \in Nat
  BY DEF LinkTypes, Mouth
<1>6. \A b \in Addresses : Later(mouth[b], mouth'[b])
  BY <1>2, <1>3, <1>5 DEF Later, Mouth
<1>7. CASE Matched(a) = {} /\ rx' = rx
  <2>1. \A s \in Slots : ~(sess[s].active /\ sess[s].rxId = a[2])
    BY <1>7 DEF Matched, SessionsByRxId
  <2>2. (\A b \in Addresses : Speaks(mouth'[b])) /\ Assembled(sess', rx', mouth')
    BY <1>2, <1>4, <1>5, <1>7, <2>1, OneEcu
  <2> QED
    BY <1>2, <1>6, <2>2, QueuesLater DEF ReceiveInv
<1>8. ASSUME NEW s \in Slots, NEW r \in Assembly, FirstHeard(a, len, s, r)
      PROVE  ReceiveInv'
  <2>0. /\ s = Least(Matched(a)) /\ Matched(a) # {} /\ rx' = [rx EXCEPT ![s] = r]
        /\ r.len = len /\ r.off = 6 /\ r.sn = 1 /\ r.buf = <<<<mouth[a].k + 1, 0, len>>>>
    BY <1>8 DEF FirstHeard
  <2>1. rx \in [Slots -> Assembly]
    BY DEF LinkTypes
  <2>2. \A t \in Slots : rx'[t] = IF t = s THEN r ELSE rx[t]
    BY <2>0, <2>1
  <2>3. Len(r.buf) = 1 /\ r.buf[1] = Chunk(p.k, 1, p.len)
    BY <1>3, <2>0 DEF Chunk
  <2>4. Follows(r, p)
    BY <1>3, <1>4, <2>0, <2>3 DEF Follows
  <2>5. \A t \in Slots : sess[t].active /\ sess[t].rxId = a[2] => t = s
    BY <2>0, TheSession
  <2>6. (\A b \in Addresses : Speaks(mouth'[b])) /\ Assembled(sess', rx', mouth')
    BY <1>2, <1>4, <1>5, <2>0, <2>2, <2>4, <2>5, OneEcu
  <2> QED
    BY <1>2, <1>6, <2>6, QueuesLater DEF ReceiveInv
<1> QED
  BY <1>7, <1>8, FirstFrameStep

LEMMA ReceiveSingleFrame ==
    ASSUME TypeOK, LinkTypes, LinkTypes', ReceiveInv, OwnIds, OneSession,
           NEW a \in Addresses, EcuSingle(a)
    PROVE  ReceiveInv'
<1>1. PICK p \in Mouth : p = [mouth[a] EXCEPT !.k = mouth[a].k + 1]
  BY SingleFrameStep
<1>2. UNCHANGED <<sess, rx, rd>> /\ mouth' = [mouth EXCEPT ![a] = p] /\ mouth[a].st = "idle"
  BY <1>1, SingleFrameStep
<1>3. mouth \in [Addresses -> Mouth] /\ mouth[a] \in Mouth /\ rx' \in [Slots -> Assembly]
  BY DEF LinkTypes
<1>4. p.st = "idle" /\ p.k = mouth[a].k + 1 /\ mouth[a].k \in Nat
  BY <1>1, <1>2, <1>3 DEF Mouth
<1>5. (\A b \in Addresses : Speaks(mouth'[b])) /\ Assembled(sess', rx', mouth')
  <2>1. Speaks(p) /\ \A s \in Slots : Follows(rx'[s], p)
    BY <1>4 DEF Speaks, Follows
  <2> QED
    BY <1>2, <1>3, <2>1, OneEcu
<1>6. \A b \in Addresses : Later(mouth[b], mouth'[b])
  BY <1>2, <1>3, <1>4 DEF Later, Mouth
<1>7. CASE rxq' = rxq
  BY <1>2, <1>5, <1>6, <1>7, QueuesLater DEF ReceiveInv
<1>8. ASSUME NEW g \in Got, rxq' = Enqueue(rxq, g), g.id = a[2],
             g.buf = <<<<mouth[a].k + 1, 0, 1>>>>
      PROVE  ReceiveInv'
  <2>1. Len(g.buf) = 1 /\ g.buf[1] = <<mouth[a].k + 1, 0, 1>>
    BY <1>8
  <2>2. g.buf[1][1] = mouth[a].k + 1 /\ g.buf[1][3] = 1
    BY <2>1
  <2>3. 1 + 1 \div 7 = 1
    OBVIOUS
  <2>4. Fine(g) /\ MsgNo(g) = mouth'[a].k /\ mouth'[a].st = "idle" /\ mouth'[a].k > mouth[a].k
    BY <1>2, <1>3, <1>4, <2>1, <2>2, <2>3 DEF Fine, Whole, MsgNo
  <2>5. Queues(rxq', rd', mouth')
    BY <1>2, <1>6, <1>8, <2>4, QueuesEnqueue DEF ReceiveInv
  <2> QED
    BY <1>5, <2>5 DEF ReceiveInv
<1> QED
  BY <1>7, <1>8, SingleFrameStep

LEMMA ReceiveConsecutiveFrame ==
    ASSUME TypeOK, LinkTypes, LinkTypes', ReceiveInv, OwnIds, OneSession,
           NEW a \in Addresses, NEW arrives \in BOOLEAN, EcuConsecutive(a, arrives)
    PROVE  ReceiveInv'
<1>1. PICK p \in Mouth : CfSpoken(mouth[a], p) /\ mouth' = [mouth EXCEPT ![a] = p]
  BY CfSpokenType
<1>2. /\ mouth[a].st = "sending" /\ mouth[a] \in Mouth /\ Speaks(mouth[a])
      /\ sess' = sess /\ rd' = rd
  BY CfSpokenType, ConsecutiveStep DEF ReceiveInv
<1>3. /\ mouth \in [Addresses -> Mouth] /\ rx \in [Slots -> Assembly]
      /\ rx' \in [Slots -> Assembly] /\ p.k = mouth[a].k /\ mouth[a].k \in Nat
  BY <1>1 DEF LinkTypes, Mouth, CfSpoken
<1>4. Speaks(p)
  <2>1. CASE p.st = "idle"
    BY <2>1 DEF Speaks
  <2>2. CASE p.st # "idle"
    BY <1>1, <1>2, <2>2, SpeaksOn
  <2> QED
    BY <2>1, <2>2
<1>5. \A b \in Addresses : Later(mouth[b], mouth'[b])
  BY <1>1, <1>2, <1>3 DEF Later, Mouth
<1>6. ASSUME NEW s \in Slots, sess[s].active, sess[s].rxId = a[2], rx[s].state = "RECEIVING"
      PROVE  Follows(rx[s], mouth[a]) /\ Follows(rx[s], p)
  <2>1. Follows(rx[s], mouth[a]) /\ rx[s] \in Assembly
    BY <1>3, <1>6 DEF ReceiveInv, Assembled
  <2> QED
    BY <1>1, <1>2, <2>1, FollowsMissed
<1>7. CASE UNCHANGED <<rx, rxq, txq>>
  <2>1. (\A b \in Addresses : Speaks(mouth'[b])) /\ Assembled(sess', rx', mouth')
    BY <1>1, <1>2, <1>3, <1>4, <1>6, <1>7, OneEcu
  <2> QED
    BY <1>2, <1>5, <1>7, <2>1, QueuesLater DEF ReceiveInv
<1>8. ASSUME NEW s \in Slots, s = Least(Matched(a)), Matched(a) # {},
             NEW r \in Assembly, rx' = [rx EXCEPT ![s] = r],
             r.state = "RECEIVING" => Follows(r, p)
      PROVE  (\A b \in Addresses : Speaks(mouth'[b])) /\ Assembled(sess', rx', mouth')
  <2>1. \A t \in Slots : rx'[t] = IF t = s THEN r ELSE rx[t]
    BY <1>3, <1>8
  <2>2. \A t \in Slots : sess[t].active /\ sess[t].rxId = a[2] => t = s
    BY <1>8, TheSession
  <2> QED
    BY <1>1, <1>2, <1>3, <1>4, <1>8, <2>1, <2>2, OneEcu
<1>9. ASSUME NEW s \in Slots, s = Least(Matched(a)), Matched(a) # {},
             rx' = [rx EXCEPT ![s] = [rx[s] EXCEPT !.state = "IDLE"]], rxq' = rxq
      PROVE  ReceiveInv'
  <2>1. /\ [rx[s] EXCEPT !.state = "IDLE"] \in Assembly
        /\ [rx[s] EXCEPT !.state = "IDLE"].state = "IDLE"
    BY <1>3 DEF Assembly
  <2>2. (\A b \in Addresses : Speaks(mouth'[b])) /\ Assembled(sess', rx', mouth')
    BY <1>8, <1>9, <2>1
  <2> QED
    BY <1>2, <1>5, <1>9, <2>2, QueuesLater DEF ReceiveInv
<1>10. ASSUME NEW s \in Slots, s = Least(Matched(a)), Matched(a) # {},
              rx[s].state = "RECEIVING", NEW t \in Assembly, CfHeard(a, s, t)
       PROVE  ReceiveInv'
  <2>1. rx[s] \in Assembly /\ Follows(rx[s], mouth[a]) /\ CfTaken(rx[s], mouth[a], t)
    BY <1>3, <1>6, <1>10, TheSession DEF CfHeard
  <2>2. /\ t.off < t.len => Follows(t, p)
        /\ t.off >= t.len => /\ p.st = "idle" /\ t.buf[1][1] = mouth[a].k
                             /\ Len(t.buf) >= 1 /\ Whole(t.buf)
    BY <1>1, <1>2, <2>1, FollowsTaken
  <2>3. ASSUME NEW g \in Got, g.id = a[2], g.buf = t.buf, rxq' = Enqueue(rxq, g),
               t.off >= t.len, rx' = [rx EXCEPT ![s] = [t EXCEPT !.state = "IDLE"]]
        PROVE  ReceiveInv'
    <3>1. [t EXCEPT !.state = "IDLE"] \in Assembly /\ [t EXCEPT !.state = "IDLE"].state = "IDLE"
      BY DEF Assembly
    <3>2. (\A b \in Addresses : Speaks(mouth'[b])) /\ Assembled(sess', rx', mouth')
      BY <1>8, <1>10, <2>3, <3>1
    <3>3. mouth'[a] = p
      BY <1>1, <1>3
    <3>4. Fine(g) /\ MsgNo(g) = mouth'[a].k /\ mouth'[a].st = "idle" /\ mouth[a].st # "idle"
      BY <1>2, <1>3, <2>2, <2>3, <3>3 DEF Fine, MsgNo
    <3>5. Queues(rxq', rd', mouth')
      BY <1>2, <1>5, <2>3, <3>4, QueuesEnqueue DEF ReceiveInv
    <3> QED
      BY <3>2, <3>5 DEF ReceiveInv
  <2>4. ASSUME rxq' = rxq, NEW r \in Assembly, rx' = [rx EXCEPT ![s] = r], Follows(r, p)
        PROVE  ReceiveInv'
    <3>1. (\A b \in Addresses : Speaks(mouth'[b])) /\ Assembled(sess', rx', mouth')
      BY <1>8, <1>10, <2>4
    <3> QED
      BY <1>2, <1>5, <2>4, <3>1, QueuesLater DEF ReceiveInv
  <2>5. /\ [t EXCEPT !.bsCount = 0] \in Assembly
        /\ Follows(t, p) => Follows([t EXCEPT !.bsCount = 0], p)
    BY DEF Assembly, Follows
  <2> QED
    BY <1>10, <2>2, <2>3, <2>4, <2>5 DEF CfHeard
<1> QED
  BY <1>7, <1>9, <1>10, ConsecutiveStep

LEMMA ReceiveStep ==
    ASSUME TypeOK, LinkTypes, ReceiveInv, OwnIds, OneSession, Next
    PROVE  ReceiveInv'
<1>1. LinkTypes'
  BY LinkTypesStep
<1>2. CASE (Request \/ EngineStep) /\ UNCHANGED <<ear, mouth, lost, full>>
  BY <1>2, EngineEffect, ReceiveEngine
<1>3. CASE EcuTakes
  BY <1>1, <1>3, ReceiveTakes
<1>4. ASSUME NEW a \in Addresses, NEW fs \in FlowStatuses, NEW bs \in PeerBlockSizes,
             EcuFlow(a, fs, bs)
      PROVE  ReceiveInv'
  BY <1>4, FlowStep DEF ReceiveInv
<1> QED
  BY <1>1, <1>2, <1>3, <1>4, ReceiveFirstFrame, ReceiveSingleFrame, ReceiveConsecutiveFrame
     DEF Next, Ecu

LEMMA ReceiveInit == LinkInit => ReceiveInv
<1> SUFFICES ASSUME LinkInit PROVE ReceiveInv
  OBVIOUS
<1>1. /\ rxq = <<>> /\ \A r \in Readers : rd[r].got = <<>>
      /\ \A a \in Addresses : mouth[a].st = "idle"
      /\ \A s \in Slots : ~sess[s].active
  BY DEF LinkInit, Init, NoRecv, IdleMouth, ZeroSess
<1>2. Queues(rxq, rd, mouth)
  BY <1>1 DEF Queues, Clean, Before
<1> QED
  BY <1>1, <1>2 DEF ReceiveInv, Speaks, Assembled

LEMMA QueuesAreReceived ==
    ASSUME LinkTypes, ReceiveInv
    PROVE  Received
<1>1. rxq \in Seq(Got) /\ Clean(rxq, mouth)
  BY DEF LinkTypes, ReceiveInv, Queues
<1>2. ASSUME NEW r \in Readers
      PROVE  rd[r].got \in Seq(Got) /\ Clean(rd[r].got, mouth) /\ Before(rd[r].got, rxq)
  BY DEF LinkTypes, Reading, ReceiveInv, Queues
<1>3. ReceivedIntact
  BY <1>1, <1>2 DEF ReceivedIntact, Clean, Fine
<1>4. ASSUME NEW r \in Readers, NEW seen, seen = rd[r].got \o rxq,
             NEW i \in 1..Len(seen), NEW j \in 1..Len(seen), i < j, seen[i].id = seen[j].id
      PROVE  MsgNo(seen[i]) < MsgNo(seen[j])
  <2>1. PICK g \in Seq(Got) : g = rd[r].got /\ Clean(g, mouth) /\ Before(g, rxq)
    BY <1>2
  <2>2. Len(seen) = Len(g) + Len(rxq) /\ Len(g) \in Nat /\ Len(rxq) \in Nat
    BY <1>1, <1>4, <2>1
  <2>3. /\ \A n \in 1..Len(g) : seen[n] = g[n]
        /\ \A n \in (Len(g) + 1)..Len(seen) : seen[n] = rxq[n - Len(g)]
    BY <1>1, <1>4, <2>1, <2>2
  <2>4. CASE j <= Len(g)
    BY <1>4, <2>1, <2>2, <2>3, <2>4 DEF Clean
  <2>5. CASE i <= Len(g) /\ j > Len(g)
    <3>1. i \in 1..Len(g) /\ seen[i] = g[i]
      BY <1>4, <2>2, <2>3, <2>5
    <3>2. j - Len(g) \in 1..Len(rxq) /\ seen[j] = rxq[j - Len(g)]
      BY <1>4, <2>2, <2>3, <2>5
    <3> QED
      BY <1>4, <2>1, <3>1, <3>2 DEF Before
  <2>6. CASE i > Len(g)
    <3>1. i - Len(g) \in 1..Len(rxq) /\ seen[i] = rxq[i - Len(g)]
      BY <1>4, <2>2, <2>3, <2>6
    <3>2. j - Len(g) \in 1..Len(rxq) /\ seen[j] = rxq[j - Len(g)]
      BY <1>4, <2>2, <2>3, <2>6
    <3>3. i - Len(g) < j - Len(g)
      BY <1>4, <2>2
    <3> QED
      BY <1>1, <1>4, <3>1, <3>2, <3>3 DEF Clean
  <2> QED
    BY <1>4, <2>2, <2>4, <2>5, <2>6
<1>5. ReceivedInOrder
  BY <1>4 DEF ReceivedInOrder, MsgNo
<1> QED
  BY <1>3, <1>5 DEF Received

LEMMA UnchangedLink ==
    ASSUME TypeOK, LinkTypes, ReceiveInv, UNCHANGED linkVars
    PROVE  TypeOK' /\ LinkTypes' /\ ReceiveInv'
<1>1. UNCHANGED <<sess, tx, rx, bsTx, rxq, txq, pc, slot, call, dl, cf, res, rd, forced, mouth>>
  BY DEF linkVars, vars
<1>2. TypeOK'
  BY <1>1 DEF TypeOK
<1>3. LinkTypes'
  BY <1>1 DEF LinkTypes
<1>4. ReceiveInv'
  BY <1>1 DEF ReceiveInv
<1> QED
  BY <1>2, <1>3, <1>4

\* With ECUs that answer on ids of their own and no two filters for one id at once:
\* what a reader takes from receive(), and what waits for it, are whole messages of
\* the ECU, in the order they were sent and none twice, however many frames the bus
\* loses and however sessions come and go (processFrame, enqueueRx, receive).
THEOREM Reception == OwnIds => (Spec /\ []OneSession => []Received)
<1> SUFFICES ASSUME OwnIds PROVE Spec /\ []OneSession => []Received
  OBVIOUS
<1> DEFINE Inv == TypeOK /\ LinkTypes /\ ReceiveInv
<1>1. LinkInit => Inv
  BY LinkTypesInit, ReceiveInit
<1>2. Inv /\ OneSession /\ [Next]_linkVars => Inv'
  <2>1. Inv /\ OneSession /\ Next => Inv'
    BY LinkTypeOK, LinkTypesStep, ReceiveStep
  <2>2. Inv /\ UNCHANGED linkVars => Inv'
    BY UnchangedLink
  <2> QED
    BY <2>1, <2>2
<1>3. Inv => Received
  BY QueuesAreReceived
<1> QED
  BY <1>1, <1>2, <1>3, PTL DEF Spec

----------------------------------------------------------------------------
\* Flow control: as long as no frame of an ECU has found the transmit queue full,
\* an assembly that has every frame its ECU has sent counts its block as the ECU
\* does, and the ECU that waits has a flow control frame on its way.

Promised(q, a) == \E i \in 1..Len(q) : q[i].kind = "FC" /\ q[i].id = a[1]

InStep(r, m, q, a, b) ==
    (m.st # "idle" /\ Len(r.buf) = Sent(m)) =>
        /\ m.st = "wait" => r.bsCount = 0 /\ Promised(q, a)
        /\ m.st = "sending" /\ b = 0 => m.left = 0
        /\ m.st = "sending" /\ b > 0 => m.left >= 1 /\ m.left + r.bsCount = b

AllInStep(se, x, mo, q, b) ==
    \A s \in Slots, a \in Addresses :
        (se[s].active /\ se[s].rxId = a[2] /\ x[s].state = "RECEIVING")
            => InStep(x[s], mo[a], q, a, b)

FlowsAgree(q, b) == \A i \in 1..Len(q) : q[i].kind = "FC" => q[i].bs = b

GrantInv ==
    /\ bsTx \in BlockSizes /\ FlowsAgree(txq, bsTx)
    /\ ~full => AllInStep(sess, rx, mouth, txq, bsTx)

LEMMA PromisedOn ==
    ASSUME NEW q \in Seq(Frame), NEW f \in Frame, NEW a, NEW b
    PROVE  /\ Promised(q, a) => Promised(Append(q, f), a)
           /\ f.kind = "FC" /\ f.id = a[1] => Promised(Append(q, f), a)
           /\ FlowsAgree(q, b) /\ (f.kind = "FC" => f.bs = b) => FlowsAgree(Append(q, f), b)
<1>1. PICK z \in Seq(Frame) : z = Append(q, f)
  BY Appended
<1>2. /\ Len(z) = Len(q) + 1 /\ Len(q) \in Nat /\ z[Len(q) + 1] = f
      /\ \A i \in 1..Len(q) : z[i] = q[i]
  BY <1>1, Appended
<1>3. \A i \in 1..Len(q) : i \in 1..Len(z) /\ z[i] = q[i]
  BY <1>2
<1>4. Len(q) + 1 \in 1..Len(z)
  BY <1>2
<1>5. \A i \in 1..Len(z) : i \in 1..Len(q) \/ i = Len(q) + 1
  BY <1>2
<1>6. Promised(q, a) => Promised(z, a)
  BY <1>3 DEF Promised
<1>7. f.kind = "FC" /\ f.id = a[1] => Promised(z, a)
  BY <1>2, <1>4 DEF Promised
<1>8. FlowsAgree(q, b) /\ (f.kind = "FC" => f.bs = b) => FlowsAgree(z, b)
  BY <1>2, <1>5 DEF FlowsAgree
<1> QED
  BY <1>1, <1>6, <1>7, <1>8

LEMMA GrantEngine ==
    ASSUME TypeOK, LinkTypes, GrantInv, OneBlockSize, Adds \/ Drops \/ Writes \/ Reads,
           UNCHANGED <<mouth, full>>
    PROVE  GrantInv'
<1>1. CASE Adds
  <2>1. PICK s \in Slots : /\ \A t \in Slots : t # s => sess'[t] = sess[t] /\ rx'[t] = rx[t]
                           /\ rx'[s].state = "IDLE"
    BY <1>1 DEF Adds, LinkTypes, TypeOK, ZeroRx
  <2>2. AllInStep(sess, rx, mouth, txq, bsTx) => AllInStep(sess', rx', mouth, txq, bsTx)
    BY <2>1 DEF AllInStep
  <2> QED
    BY <1>1, <2>2 DEF Adds, GrantInv
<1>2. CASE Drops
  <2>1. AllInStep(sess, rx, mouth, txq, bsTx) => AllInStep(sess', rx', mouth, txq, bsTx)
    BY <1>2 DEF Drops, AllInStep
  <2> QED
    BY <1>2, <2>1 DEF Drops, GrantInv
<1>3. CASE Writes
  <2>1. bsTx' = bsTx /\ UNCHANGED <<sess, rx>>
    BY <1>3 DEF Writes, GrantInv, OneBlockSize
  <2>2. txq' = txq \/ \E f \in Frame : f.kind # "FC" /\ txq' = Append(txq, f)
    BY <1>3 DEF Writes
  <2>3. txq \in Seq(Frame)
    BY DEF LinkTypes
  <2>4. FlowsAgree(txq', bsTx) /\ \A a \in Addresses : Promised(txq, a) => Promised(txq', a)
    BY <2>2, <2>3, PromisedOn DEF GrantInv
  <2>5. AllInStep(sess, rx, mouth, txq, bsTx) => AllInStep(sess, rx, mouth, txq', bsTx)
    BY <2>4 DEF AllInStep, InStep
  <2> QED
    BY <2>1, <2>4, <2>5 DEF GrantInv
<1>4. CASE Reads
  BY <1>4 DEF Reads, GrantInv
<1> QED
  BY <1>1, <1>2, <1>3, <1>4

LEMMA GrantTakes ==
    ASSUME TypeOK, LinkTypes, GrantInv, EcuTakes
    PROVE  GrantInv'
<1>1. /\ UNCHANGED <<sess, bsTx, rx, full>> /\ txq # <<>> /\ txq' = Tail(txq)
      /\ Head(txq) \in Frame /\ txq \in Seq(Frame) /\ bsTx \in Nat
  BY TakesStep DEF LinkTypes, TypeOK
<1>2. /\ Len(Tail(txq)) = Len(txq) - 1 /\ Len(txq) \in Nat /\ Head(txq) = txq[1]
      /\ \A i \in 1..(Len(txq) - 1) : Tail(txq)[i] = txq[i + 1]
  BY <1>1, Shortened
<1>3. 1 \in 1..Len(txq) /\ (Head(txq).kind = "FC" => Head(txq).bs = bsTx)
  BY <1>1, <1>2 DEF GrantInv, FlowsAgree
<1>4. FlowsAgree(txq', bsTx)
  BY <1>1, <1>2 DEF GrantInv, FlowsAgree
<1>5. ASSUME NEW a \in Addresses, Promised(txq, a), mouth[a].st = "wait",
             ~Allowed(a, Head(txq))
      PROVE  Promised(txq', a)
  <2>1. PICK i \in 1..Len(txq) : txq[i].kind = "FC" /\ txq[i].id = a[1]
    BY <1>5 DEF Promised
  <2>2. i # 1
    BY <1>2, <1>5, <2>1 DEF Allowed
  <2>3. i - 1 \in 1..Len(Tail(txq)) /\ Tail(txq)[i - 1] = txq[i]
    BY <1>2, <2>2
  <2> QED
    BY <1>1, <2>1, <2>3 DEF Promised
<1>6. ASSUME NEW r \in Assembly, NEW a \in Addresses, InStep(r, mouth[a], txq, a, bsTx)
      PROVE  InStep(r, mouth'[a], txq', a, bsTx)
  <2>1. CASE Allowed(a, Head(txq))
    <3>1. /\ mouth[a].st = "wait" /\ mouth'[a].st = "sending" /\ mouth'[a].off = mouth[a].off
          /\ mouth'[a].left = bsTx
      BY <1>3, <2>1, TakesStep DEF Allowed
    <3>2. Sent(mouth'[a]) = Sent(mouth[a])
      BY <3>1 DEF Sent
    <3> QED
      BY <1>1, <1>6, <3>1, <3>2 DEF InStep
  <2>2. CASE ~Allowed(a, Head(txq))
    <3>1. mouth'[a] = mouth[a]
      BY <2>2, TakesStep
    <3> QED
      BY <1>5, <1>6, <2>2, <3>1 DEF InStep
  <2> QED
    BY <2>1, <2>2
<1>7. AllInStep(sess, rx, mouth, txq, bsTx) => AllInStep(sess, rx, mouth', txq', bsTx)
  <2>1. \A s \in Slots : rx[s] \in Assembly
    BY DEF LinkTypes
  <2> QED
    BY <1>6, <2>1 DEF AllInStep
<1> QED
  BY <1>1, <1>4, <1>7 DEF GrantInv

\* What a step of ECU a may do to the transmit queue while it is not full.
Grows(q, z, b) ==
    /\ z \in Seq(Frame) /\ FlowsAgree(z, b)
    /\ \A a \in Addresses : Promised(q, a) => Promised(z, a)

LEMMA FlowGrows ==
    ASSUME TypeOK, LinkTypes, GrantInv, ByteBlockSizes, NEW s \in Slots, SendFC(s)
    PROVE  /\ Grows(txq, txq', bsTx)
           /\ \A a \in Addresses :
                 Len(txq) < TxqCap /\ a[1] = sess[s].txId => Promised(txq', a)
<1>1. txq \in Seq(Frame) /\ Len(txq) \in Nat /\ TxqCap \in Nat /\ FlowsAgree(txq, bsTx)
  BY EngineAssumption DEF LinkTypes, GrantInv
<1>2. CASE Len(txq) >= TxqCap /\ txq' = txq
  BY <1>1, <1>2 DEF Grows
<1>3. ASSUME NEW f \in Frame, f.kind = "FC", f.id = sess[s].txId, f.bs = bsTx,
             txq' = Append(txq, f)
      PROVE  /\ Grows(txq, txq', bsTx)
             /\ \A a \in Addresses : a[1] = sess[s].txId => Promised(txq', a)
  <2>1. txq' \in Seq(Frame)
    BY <1>1, <1>3, Appended
  <2>2. FlowsAgree(txq', bsTx)
    BY <1>1, <1>3, PromisedOn
  <2>3. \A a \in Addresses : Promised(txq, a) => Promised(txq', a)
    BY <1>1, <1>3, PromisedOn
  <2>4. ASSUME NEW a \in Addresses, a[1] = sess[s].txId PROVE Promised(txq', a)
    BY <1>1, <1>3, <2>4, PromisedOn
  <2> QED
    BY <2>1, <2>2, <2>3, <2>4 DEF Grows
<1>4. bsTx % 256 = bsTx
  <2>1. \A b \in 0..255 : b % 256 = b
    OBVIOUS
  <2> QED
    BY <2>1 DEF ByteBlockSizes, GrantInv
<1> QED
  BY <1>1, <1>2, <1>3, <1>4, FlowQueued

\* The session a frame of ECU a finds answers to the id that this ECU hears.
LEMMA AnswersTo ==
    ASSUME LinkTypes, OwnIds, OneSession, NEW a \in Addresses, Matched(a) # {}
    PROVE  sess[Least(Matched(a))].txId = a[1]
<1> DEFINE s == Least(Matched(a))
<1>1. s \in Slots /\ sess[s].active /\ sess[s].rxId = a[2]
  BY TheSession
<1>2. PICK b \in Addresses : b = <<sess[s].txId, sess[s].rxId>>
  BY <1>1 DEF LinkTypes
<1>3. b = a
  BY <1>1, <1>2 DEF OwnIds
<1> QED
  BY <1>2, <1>3

LEMMA OneEcuInStep ==
    ASSUME LinkTypes, GrantInv, OwnIds, OneSession, NEW a \in Addresses,
           sess' = sess, bsTx' = bsTx, full' = (full \/ Len(txq) >= TxqCap),
           NEW p \in Mouth, mouth' = [mouth EXCEPT ![a] = p], Grows(txq, txq', bsTx),
           \A s \in Slots : rx'[s] # rx[s] => Matched(a) # {} /\ s = Least(Matched(a)),
           ~full /\ Len(txq) < TxqCap =>
               \A s \in Slots :
                   (sess[s].active /\ sess[s].rxId = a[2] /\ rx'[s].state = "RECEIVING")
                       => InStep(rx'[s], p, txq', a, bsTx)
    PROVE  GrantInv'
<1>1. \A b \in Addresses : mouth'[b] = IF b = a THEN p ELSE mouth[b]
  BY DEF LinkTypes
<1>2. ASSUME ~full', NEW s \in Slots, NEW b \in Addresses, sess[s].active,
             sess[s].rxId = b[2], rx'[s].state = "RECEIVING"
      PROVE  InStep(rx'[s], mouth'[b], txq', b, bsTx)
  <2>0. ~full /\ Len(txq) < TxqCap
    <3>1. ~(full \/ Len(txq) >= TxqCap)
      BY <1>2, Zenon
    <3>2. ~full /\ ~(Len(txq) >= TxqCap)
      BY <3>1, Zenon
    <3>3. Len(txq) \in Nat /\ TxqCap \in Nat
      BY EngineAssumption DEF LinkTypes
    <3>4. Len(txq) < TxqCap
      BY <3>2, <3>3
    <3> QED
      BY <3>2, <3>4
  <2>1. CASE b = a
    BY <1>1, <1>2, <2>0, <2>1
  <2>2. CASE b # a
    <3>1. sess[s].rxId # a[2]
      BY <1>2, <2>2 DEF OwnIds
    <3>2. rx'[s] = rx[s]
      BY <3>1, TheSession
    <3>3. InStep(rx[s], mouth[b], txq, b, bsTx) /\ mouth'[b] = mouth[b]
      BY <1>1, <1>2, <2>0, <2>2, <3>2 DEF GrantInv, AllInStep
    <3>4. Promised(txq, b) => Promised(txq', b)
      BY DEF Grows
    <3> QED
      BY <3>2, <3>3, <3>4 DEF InStep
  <2> QED
    BY <2>1, <2>2
<1>3. FlowsAgree(txq', bsTx') /\ bsTx' \in BlockSizes
  BY DEF Grows, GrantInv
<1>4. ~full' => AllInStep(sess', rx', mouth', txq', bsTx')
  BY <1>2 DEF AllInStep
<1> QED
  BY <1>3, <1>4 DEF GrantInv

LEMMA GrantFirstFrame ==
    ASSUME TypeOK, LinkTypes, GrantInv, OwnIds, OneSession, ByteBlockSizes,
           NEW a \in Addresses, NEW len \in PeerLens, EcuFirst(a, len)
    PROVE  GrantInv'
<1>1. PICK p \in Mouth : p = FirstSpoken(mouth[a], len)
  BY FirstFrameStep
<1>2. /\ UNCHANGED <<sess, bsTx>> /\ mouth' = [mouth EXCEPT ![a] = p]
      /\ full' = (full \/ Len(txq) >= TxqCap)
  BY <1>1, FirstFrameStep
<1>3. p.st = "wait"
  BY <1>1 DEF FirstSpoken
<1>4. CASE Matched(a) = {} /\ UNCHANGED <<rx, txq>>
  <2>1. \A s \in Slots : ~(sess[s].active /\ sess[s].rxId = a[2])
    BY <1>4 DEF Matched, SessionsByRxId
  <2>2. Grows(txq, txq', bsTx)
    BY <1>4 DEF Grows, GrantInv, LinkTypes
  <2> QED
    BY <1>2, <1>4, <2>1, <2>2, OneEcuInStep
<1>5. ASSUME NEW s \in Slots, NEW r \in Assembly, FirstHeard(a, len, s, r)
      PROVE  GrantInv'
  <2>1. /\ s = Least(Matched(a)) /\ Matched(a) # {} /\ SendFC(s) /\ r.bsCount = 0
        /\ rx' = [rx EXCEPT ![s] = r]
    BY <1>5 DEF FirstHeard
  <2>2. \A t \in Slots : rx'[t] = IF t = s THEN r ELSE rx[t]
    BY <2>1 DEF LinkTypes
  <2>3. Grows(txq, txq', bsTx) /\ (Len(txq) < TxqCap => Promised(txq', a))
    BY <2>1, FlowGrows, AnswersTo
  <2>4. Len(txq) < TxqCap => InStep(r, p, txq', a, bsTx)
    BY <1>3, <2>1, <2>3 DEF InStep
  <2>5. \A t \in Slots : sess[t].active /\ sess[t].rxId = a[2] => t = s
    BY <2>1, TheSession
  <2> QED
    BY <1>2, <2>1, <2>2, <2>3, <2>4, <2>5, OneEcuInStep
<1> QED
  BY <1>4, <1>5, FirstFrameStep

LEMMA GrantSingleFrame ==
    ASSUME TypeOK, LinkTypes, GrantInv, OwnIds, OneSession, NEW a \in Addresses, EcuSingle(a)
    PROVE  GrantInv'
<1>1. PICK p \in Mouth : p = [mouth[a] EXCEPT !.k = mouth[a].k + 1]
  BY SingleFrameStep
<1>2. /\ UNCHANGED <<sess, bsTx, rx, txq>> /\ mouth' = [mouth EXCEPT ![a] = p]
      /\ mouth[a].st = "idle" /\ full' = (full \/ Len(txq) >= TxqCap)
  BY <1>1, SingleFrameStep
<1>3. p.st = "idle"
  BY <1>1, <1>2 DEF LinkTypes, Mouth
<1>4. Grows(txq, txq', bsTx)
  BY <1>2 DEF Grows, GrantInv, LinkTypes
<1>5. \A s \in Slots : InStep(rx'[s], p, txq', a, bsTx)
  BY <1>3 DEF InStep
<1> QED
  BY <1>2, <1>4, <1>5, OneEcuInStep

\* A frame that completes the block lets the ECU wait and sends it a flow control
\* frame; any other leaves both sides with as many frames to go.
LEMMA InStepTaken ==
    ASSUME NEW r \in Assembly, NEW t \in Assembly, NEW m \in Mouth, NEW p \in Mouth,
           m.st = "sending", Speaks(m), Follows(r, m), CfSpoken(m, p), CfTaken(r, m, t),
           NEW q, NEW a, NEW b \in Nat, InStep(r, m, q, a, b)
    PROVE  /\ ~(b > 0 /\ t.bsCount >= b) => InStep(t, p, q, a, b)
           /\ \A z : b > 0 /\ t.bsCount >= b /\ Promised(z, a) =>
                 InStep([t EXCEPT !.bsCount = 0], p, z, a, b)
<1>1. /\ Len(r.buf) \in Nat /\ r.bsCount \in Nat /\ t.bsCount = r.bsCount + 1
      /\ t.buf = Append(r.buf, <<m.k, m.off, m.len>>) /\ r.buf \in Seq(Tag)
      /\ m.left \in Nat
  BY DEF Assembly, CfTaken, Mouth
<1>2. <<m.k, m.off, m.len>> \in Tag
  BY DEF Tag, Mouth
<1>3. Len(t.buf) = Len(r.buf) + 1
  BY <1>1, <1>2, Appended
<1>4. ASSUME p.st # "idle", Len(t.buf) = Sent(p)
      PROVE  /\ b = 0 => m.left = 0
             /\ b > 0 => m.left >= 1 /\ m.left + r.bsCount = b
             /\ p.left = Less(m.left) /\ p.st = IF m.left = 1 THEN "wait" ELSE "sending"
  <2>1. Sent(p) = Sent(m) + 1 /\ Sent(m) \in Nat
    BY <1>4, SpeaksOn, SentSpoken
  <2>2. Len(r.buf) = Sent(m)
    BY <1>1, <1>3, <1>4, <2>1
  <2>3. m.len \in Nat /\ m.off \in Nat
    BY DEF Mouth
  <2>4. p.left = Less(m.left) /\ p.st = IF m.left = 1 THEN "wait" ELSE "sending"
    BY <1>4, <2>3 DEF CfSpoken
  <2> QED
    BY <2>2, <2>4 DEF InStep
<1>5. ASSUME ~(b > 0 /\ t.bsCount >= b)
      PROVE  InStep(t, p, q, a, b)
  <2> SUFFICES ASSUME p.st # "idle", Len(t.buf) = Sent(p)
               PROVE  /\ p.st = "wait" => t.bsCount = 0 /\ Promised(q, a)
                      /\ p.st = "sending" /\ b = 0 => p.left = 0
                      /\ p.st = "sending" /\ b > 0 => p.left >= 1 /\ p.left + t.bsCount = b
    BY DEF InStep
  <2>1. CASE b = 0
    BY <1>4, <2>1 DEF Less
  <2>2. CASE b > 0
    <3>1. m.left >= 2 /\ m.left + r.bsCount = b
      BY <1>1, <1>4, <1>5, <2>2
    <3>2. p.left = m.left - 1 /\ p.st = "sending"
      BY <1>1, <1>4, <3>1 DEF Less
    <3> QED
      BY <1>1, <2>2, <3>1, <3>2
  <2> QED
    BY <2>1, <2>2
<1>6. ASSUME NEW z, b > 0, t.bsCount >= b, Promised(z, a)
      PROVE  InStep([t EXCEPT !.bsCount = 0], p, z, a, b)
  <2>1. PICK u \in Assembly : /\ u = [t EXCEPT !.bsCount = 0]
                              /\ u.bsCount = 0 /\ u.buf = t.buf
    <3>1. /\ [t EXCEPT !.bsCount = 0] \in Assembly /\ [t EXCEPT !.bsCount = 0].bsCount = 0
          /\ [t EXCEPT !.bsCount = 0].buf = t.buf
      BY DEF Assembly
    <3> QED
      BY <3>1
  <2>2. ASSUME p.st # "idle", Len(t.buf) = Sent(p)
        PROVE  p.st = "wait"
    BY <1>1, <1>4, <1>6, <2>2
  <2>3. InStep(u, p, z, a, b)
    BY <1>6, <2>1, <2>2 DEF InStep
  <2> QED
    BY <2>1, <2>3
<1> QED
  BY <1>5, <1>6

LEMMA GrantConsecutiveFrame ==
    ASSUME TypeOK, LinkTypes, LinkTypes', ReceiveInv, GrantInv, OwnIds, OneSession,
           ByteBlockSizes, NEW a \in Addresses, NEW arrives \in BOOLEAN, EcuConsecutive(a, arrives)
    PROVE  GrantInv'
<1>1. PICK p \in Mouth : CfSpoken(mouth[a], p) /\ mouth' = [mouth EXCEPT ![a] = p]
  BY CfSpokenType
<1>2. /\ mouth[a].st = "sending" /\ mouth[a] \in Mouth /\ Speaks(mouth[a])
      /\ UNCHANGED <<sess, bsTx>> /\ full' = (full \/ Len(txq) >= TxqCap)
  BY CfSpokenType, ConsecutiveStep DEF ReceiveInv
<1>3. rx \in [Slots -> Assembly] /\ bsTx \in Nat /\ txq \in Seq(Frame)
  BY DEF LinkTypes, TypeOK
<1>4. ASSUME txq' = txq PROVE Grows(txq, txq', bsTx)
  BY <1>3, <1>4 DEF Grows, GrantInv
<1>5. ASSUME NEW s \in Slots, sess[s].active, sess[s].rxId = a[2], rx[s].state = "RECEIVING"
      PROVE  Follows(rx[s], mouth[a])
  BY <1>5 DEF ReceiveInv, Assembled
<1>6. CASE UNCHANGED <<rx, rxq, txq>>
  <2>1. ASSUME NEW s \in Slots, sess[s].active, sess[s].rxId = a[2], rx[s].state = "RECEIVING"
        PROVE  InStep(rx'[s], p, txq', a, bsTx)
    <3>1. Len(rx[s].buf) \in Nat
      BY <1>3 DEF Assembly
    <3>2. Len(rx[s].buf) <= Sent(mouth[a]) /\ Sent(mouth[a]) \in Nat
      BY <1>2, <1>5, <2>1, SentSpoken DEF Follows
    <3>3. p.st # "idle" => Sent(p) = Sent(mouth[a]) + 1
      BY <1>1, <1>2, SpeaksOn
    <3>4. ~(p.st # "idle" /\ Len(rx[s].buf) = Sent(p))
      BY <3>1, <3>2, <3>3
    <3> QED
      BY <1>6, <3>4 DEF InStep
  <2> QED
    BY <1>1, <1>2, <1>4, <1>6, <2>1, OneEcuInStep
<1>7. ASSUME NEW s \in Slots, s = Least(Matched(a)), Matched(a) # {},
             NEW r \in Assembly, rx' = [rx EXCEPT ![s] = r], Grows(txq, txq', bsTx),
             ~full /\ Len(txq) < TxqCap /\ r.state = "RECEIVING"
                 => InStep(r, p, txq', a, bsTx)
      PROVE  GrantInv'
  <2>1. \A t \in Slots : rx'[t] = IF t = s THEN r ELSE rx[t]
    BY <1>3, <1>7
  <2>2. \A t \in Slots : sess[t].active /\ sess[t].rxId = a[2] => t = s
    BY <1>7, TheSession
  <2> QED
    BY <1>1, <1>2, <1>7, <2>1, <2>2, OneEcuInStep
<1>8. ASSUME NEW s \in Slots, s = Least(Matched(a)), Matched(a) # {},
             rx' = [rx EXCEPT ![s] = [rx[s] EXCEPT !.state = "IDLE"]], txq' = txq
      PROVE  GrantInv'
  <2>1. /\ [rx[s] EXCEPT !.state = "IDLE"] \in Assembly
        /\ [rx[s] EXCEPT !.state = "IDLE"].state = "IDLE"
    BY <1>3 DEF Assembly
  <2> QED
    BY <1>4, <1>7, <1>8, <2>1
<1>9. ASSUME NEW s \in Slots, s = Least(Matched(a)), Matched(a) # {},
             rx[s].state = "RECEIVING", NEW t \in Assembly, CfHeard(a, s, t)
      PROVE  GrantInv'
  <2>1. rx[s] \in Assembly /\ Follows(rx[s], mouth[a]) /\ CfTaken(rx[s], mouth[a], t)
    BY <1>3, <1>5, <1>9, TheSession DEF CfHeard
  <2>2. ~full => InStep(rx[s], mouth[a], txq, a, bsTx)
    BY <1>9, TheSession DEF GrantInv, AllInStep
  <2>3. /\ ~full /\ ~(bsTx > 0 /\ t.bsCount >= bsTx) => InStep(t, p, txq, a, bsTx)
        /\ ~full /\ bsTx > 0 /\ t.bsCount >= bsTx /\ Promised(txq', a)
              => InStep([t EXCEPT !.bsCount = 0], p, txq', a, bsTx)
    BY <1>1, <1>2, <1>3, <2>1, <2>2, InStepTaken
  <2>4. CASE rx' = [rx EXCEPT ![s] = [t EXCEPT !.state = "IDLE"]] /\ txq' = txq
    <3>1. [t EXCEPT !.state = "IDLE"] \in Assembly /\ [t EXCEPT !.state = "IDLE"].state = "IDLE"
      BY DEF Assembly
    <3> QED
      BY <1>4, <1>7, <1>9, <2>4, <3>1
  <2>5. CASE BlockReceived(t) /\ rx' = [rx EXCEPT ![s] = [t EXCEPT !.bsCount = 0]] /\ SendFC(s)
    <3>1. Grows(txq, txq', bsTx) /\ (Len(txq) < TxqCap => Promised(txq', a))
      BY <1>9, <2>5, FlowGrows, AnswersTo
    <3>2. [t EXCEPT !.bsCount = 0] \in Assembly
      BY DEF Assembly
    <3>3. ~full /\ Len(txq) < TxqCap => InStep([t EXCEPT !.bsCount = 0], p, txq', a, bsTx)
      BY <2>3, <2>5, <3>1 DEF BlockReceived
    <3> QED
      BY <1>7, <1>9, <2>5, <3>1, <3>2, <3>3
  <2>6. CASE ~BlockReceived(t) /\ rx' = [rx EXCEPT ![s] = t] /\ txq' = txq
    <3>1. ~full => InStep(t, p, txq', a, bsTx)
      BY <2>3, <2>6 DEF BlockReceived
    <3> QED
      BY <1>4, <1>7, <1>9, <2>6, <3>1
  <2> QED
    BY <1>9, <2>4, <2>5, <2>6 DEF CfHeard
<1> QED
  BY <1>6, <1>8, <1>9, ConsecutiveStep

LEMMA GrantStep ==
    ASSUME TypeOK, LinkTypes, ReceiveInv, GrantInv, OwnIds, OneSession, OneBlockSize,
           ByteBlockSizes, Next
    PROVE  GrantInv'
<1>1. LinkTypes'
  BY LinkTypesStep
<1>2. CASE (Request \/ EngineStep) /\ UNCHANGED <<ear, mouth, lost, full>>
  BY <1>2, EngineEffect, GrantEngine
<1>3. CASE EcuTakes
  BY <1>3, GrantTakes
<1>4. ASSUME NEW a \in Addresses, NEW fs \in FlowStatuses, NEW bs \in PeerBlockSizes,
             EcuFlow(a, fs, bs)
      PROVE  GrantInv'
  BY <1>4, FlowStep DEF GrantInv
<1> QED
  BY <1>1, <1>2, <1>3, <1>4, GrantFirstFrame, GrantSingleFrame, GrantConsecutiveFrame
     DEF Next, Ecu

LEMMA GrantInit == LinkInit => GrantInv
<1> SUFFICES ASSUME LinkInit PROVE GrantInv
  OBVIOUS
<1>1. bsTx \in BlockSizes /\ txq = <<>> /\ \A s \in Slots : ~sess[s].active
  BY DEF LinkInit, Init, ZeroSess
<1> QED
  BY <1>1 DEF GrantInv, FlowsAgree, AllInStep

LEMMA GrantedIsNotStalled ==
    ASSUME TypeOK, LinkTypes, ReceiveInv, GrantInv
    PROVE  ReceiveNeverStalls
<1> SUFFICES ASSUME NEW a \in Addresses, Assembles(a), ~full, mouth[a].st = "wait",
                    \A i \in 1..Len(txq) : txq[i].kind # "FC",
                    rx[Least(Matched(a))].off = mouth[a].off
             PROVE  FALSE
  BY DEF ReceiveNeverStalls
<1>1. PICK s \in Slots : s = Least(Matched(a)) /\ sess[s].active /\ sess[s].rxId = a[2]
  <2>1. Matched(a) # {}
    BY DEF Assembles
  <2>2. Least(Matched(a)) \in Matched(a)
    BY <2>1, LeastIn DEF Matched, SessionsByRxId
  <2> QED
    BY <2>2 DEF Matched, SessionsByRxId
<1>2. rx[s].state = "RECEIVING" /\ rx[s].off = mouth[a].off
  BY <1>1 DEF Assembles
<1>3. Follows(rx[s], mouth[a]) /\ Speaks(mouth[a])
  BY <1>1, <1>2 DEF ReceiveInv, Assembled
<1>4. Len(rx[s].buf) \in Nat /\ mouth[a].off \in Nat
  BY DEF LinkTypes, Assembly, Mouth
<1>5. rx[s].off = 7 * Len(rx[s].buf) - 1
  BY <1>3 DEF Follows
<1>6. Len(rx[s].buf) = Sent(mouth[a])
  <2>1. \A n, o \in Nat : o = 7 * n - 1 => n = (o + 1) \div 7
    OBVIOUS
  <2> QED
    BY <1>2, <1>4, <1>5, <2>1 DEF Sent
<1>7. Promised(txq, a)
  BY <1>1, <1>2, <1>6 DEF GrantInv, AllInStep, InStep
<1> QED
  BY <1>7 DEF Promised

\* Reception with block sizes: the ECU never waits for a flow control frame while
\* the session waits for its next frame, unless the transmit queue was once full
\* (sendFC ignores canWrite).  It takes that no frame of the message was lost, which
\* the offsets tell, and that ISO15765_BS_TX is not changed nor above 255: an ECU
\* that was granted the old size, or the low byte of a wide one, stops where the
\* count against the new or the whole one does not (IsoTpEngine.cpp 376-387, 431).
THEOREM NeverStalls ==
    OwnIds /\ OneBlockSize /\ ByteBlockSizes =>
        (Spec /\ []OneSession => []ReceiveNeverStalls)
<1> SUFFICES ASSUME OwnIds, OneBlockSize, ByteBlockSizes
             PROVE  Spec /\ []OneSession => []ReceiveNeverStalls
  OBVIOUS
<1> DEFINE Inv == TypeOK /\ LinkTypes /\ ReceiveInv /\ GrantInv
<1>1. LinkInit => Inv
  BY LinkTypesInit, ReceiveInit, GrantInit
<1>2. Inv /\ OneSession /\ [Next]_linkVars => Inv'
  <2>1. Inv /\ OneSession /\ Next => Inv'
    BY LinkTypeOK, LinkTypesStep, ReceiveStep, GrantStep
  <2>2. Inv /\ UNCHANGED linkVars => Inv'
    BY UnchangedLink DEF linkVars, vars, GrantInv
  <2> QED
    BY <2>1, <2>2
<1>3. Inv => ReceiveNeverStalls
  BY GrantedIsNotStalled
<1> QED
  BY <1>1, <1>2, <1>3, PTL DEF Spec

----------------------------------------------------------------------------
\* What ECUs hear.  A story is what there is to know of the messages sent to one
\* request id; each frame queued continues it from what the ECU knows already.

Ear == [st : {"idle", "receiving", "done", "aborted"}, msg : Writers \cup {"none"},
        len : Nat, off : Nat, sn : 0..15, left : Nat, owes : BOOLEAN, intact : BOOLEAN]

\* What there is to know of a message: an ECU that never loses patience with us
\* would know it, after what it took from the bus and what is still queued.
Story == [st : {"idle", "receiving", "done"}, msg : Writers \cup {"none"},
          len : Nat, off : Nat, sn : 0..15]

Knows(e, c) ==
    /\ e \in Ear /\ e.intact
    /\ \/ e.st = "aborted" /\ "OVFLW" \in FlowStatuses
       \/ /\ e.st = c.st /\ e.msg = c.msg /\ e.len = c.len
          /\ e.off = c.off /\ e.sn = c.sn

\* Frame f on the bus makes d of story c at request id x: consecutive frames
\* continue the message being told.
Told(x, c, f, d) ==
    /\ (f.id # x \/ f.kind = "FC") => d = c
    /\ (f.id = x /\ f.kind = "SF") =>
          d.st = "done" /\ d.msg = f.msg /\ d.len = f.len /\ d.off = f.len /\ d.sn = 0
    /\ (f.id = x /\ f.kind = "FF") =>
          d.st = "receiving" /\ d.msg = f.msg /\ d.len = f.len /\ d.off = 6 /\ d.sn = 1
    /\ (f.id = x /\ f.kind = "CF" /\ c.st = "receiving") =>
          /\ f.msg = c.msg /\ f.off = c.off /\ f.sn = c.sn
          /\ d.msg = c.msg /\ d.len = c.len
          /\ d.off = c.off + f.n /\ d.sn = (c.sn + 1) % 16
          /\ d.st = IF c.off + f.n >= c.len THEN "done" ELSE "receiving"
    /\ (f.id = x /\ f.kind = "CF" /\ c.st # "receiving") => d = c

\* After the frames in q an ECU behind x that knows what e does will know c.
Reaches(x, q, e, c) ==
    \E h \in [0..Len(q) -> Story] :
        /\ Knows(e, h[0]) /\ h[Len(q)] = c
        /\ \A i \in 1..Len(q) : Told(x, h[i - 1], q[i], h[i])

\* An ECU that hears a frame as told goes on knowing the story, and what it has
\* is intact.
LEMMA HearsTold ==
    ASSUME NEW x, NEW f \in Frame, NEW c \in Story, NEW d \in Story, NEW e \in Ear,
           Knows(e, c), Told(x, c, f, d)
    PROVE  IF f.id = x THEN Knows(Hear(e, f), d) ELSE Knows(e, d)
<1>0. PICK z \in Ear : /\ z = IdleEar /\ z.sn = 0 /\ z.intact
  <2>1. IdleEar \in Ear /\ IdleEar.sn = 0 /\ IdleEar.intact
    BY DEF IdleEar, Ear
  <2> QED
    BY <2>1
<1>1. CASE f.id # x
  BY <1>1 DEF Told
<1>2. CASE f.id = x /\ f.kind = "FC"
  <2>1. Hear(e, f) = e
    BY <1>2 DEF Hear
  <2> QED
    BY <1>2, <2>1 DEF Told
<1>3. CASE f.id = x /\ f.kind = "SF"
  <2>1. f.msg \in Writers \cup {"none"} /\ f.len \in Nat
    BY <1>3 DEF Frame
  <2>2. PICK g : g = [z EXCEPT !.st = "done", !.msg = f.msg, !.len = f.len, !.off = f.len]
    OBVIOUS
  <2>5. g \in Ear
    BY <2>1, <2>2 DEF Ear
  <2>3. g.st = "done" /\ g.msg = f.msg /\ g.len = f.len /\ g.off = f.len /\ g.sn = 0 /\ g.intact
    BY <1>0, <2>2 DEF Ear
  <2>4. Hear(e, f) = g
    BY <1>0, <1>3, <2>2 DEF Hear
  <2> QED
    BY <1>3, <2>3, <2>4, <2>5 DEF Told, Knows
<1>4. CASE f.id = x /\ f.kind = "FF"
  <2>1. f.msg \in Writers \cup {"none"} /\ f.len \in Nat
    BY <1>4 DEF Frame
  <2>2. PICK g : g = [z EXCEPT !.st = "receiving", !.msg = f.msg, !.len = f.len,
                                     !.off = 6, !.sn = 1, !.owes = TRUE]
    OBVIOUS
  <2>5. g \in Ear
    <3>1. 1 \in 0..15 /\ 6 \in Nat /\ TRUE \in BOOLEAN
      OBVIOUS
    <3> QED
      BY <2>1, <2>2, <3>1 DEF Ear
  <2>3. g.st = "receiving" /\ g.msg = f.msg /\ g.len = f.len /\ g.off = 6 /\ g.sn = 1 /\ g.intact
    BY <1>0, <2>2 DEF Ear
  <2>4. Hear(e, f) = g
    BY <1>0, <1>4, <2>2 DEF Hear
  <2> QED
    BY <1>4, <2>3, <2>4, <2>5 DEF Told, Knows
<1>5. CASE f.id = x /\ f.kind = "CF" /\ e.st # "receiving"
  <2>1. Hear(e, f) = e
    BY <1>5 DEF Hear
  <2>2. (e.st = "aborted" /\ "OVFLW" \in FlowStatuses) \/ c.st # "receiving"
    BY <1>5 DEF Knows
  <2> QED
    BY <1>5, <2>1, <2>2 DEF Told, Knows
<1>6. CASE f.id = x /\ f.kind = "CF" /\ e.st = "receiving"
  <2>1. /\ c.st = "receiving" /\ e.msg = c.msg /\ e.len = c.len /\ e.off = c.off /\ e.sn = c.sn
        /\ e.intact
    BY <1>6 DEF Knows
  <2>2. f.msg = e.msg /\ f.off = e.off /\ f.sn = e.sn
    BY <1>6, <2>1 DEF Told
  <2>3. e.off \in Nat /\ e.len \in Nat /\ e.sn \in 0..15 /\ e.left \in Nat /\ f.n \in 0..7
    BY <1>6 DEF Ear, Frame
  <2>4. e.off + f.n \in Nat /\ (e.sn + 1) % 16 \in 0..15 /\ Less(e.left) \in Nat
    BY <2>3 DEF Less
  <2>5. PICK o \in Nat, n \in 0..15, l \in Nat :
            o = e.off + f.n /\ n = (e.sn + 1) % 16 /\ l = Less(e.left)
    BY <2>4
  <2>6. PICK t \in {"done", "receiving"} : t = IF e.off + f.n >= e.len THEN "done" ELSE "receiving"
    OBVIOUS
  <2>7. PICK p \in BOOLEAN : p = (e.owes \/ (e.left = 1 /\ e.off + f.n < e.len))
    OBVIOUS
  <2>8. Hear(e, f) = [e EXCEPT !.off = o, !.sn = n, !.st = t, !.left = l, !.owes = p, !.intact = TRUE]
    BY <1>6, <2>1, <2>2, <2>5, <2>6, <2>7 DEF Hear
  <2>9. PICK g : g = [e EXCEPT !.off = o, !.sn = n, !.st = t, !.left = l, !.owes = p, !.intact = TRUE]
    OBVIOUS
  <2>10. g \in Ear
    BY <2>5, <2>6, <2>7, <2>9 DEF Ear
  <2>11. /\ g.off = o /\ g.sn = n /\ g.st = t /\ g.intact
         /\ g.msg = e.msg /\ g.len = e.len
    BY <2>9 DEF Ear
  <2> QED
    BY <1>6, <2>1, <2>2, <2>5, <2>6, <2>8, <2>9, <2>10, <2>11 DEF Told, Knows
<1>7. f.kind \in {"SF", "FF", "CF", "FC"}
  BY DEF Frame
<1> QED
  BY <1>1, <1>2, <1>3, <1>4, <1>5, <1>6, <1>7

LEMMA ReachesAppend ==
    ASSUME NEW x, NEW q \in Seq(Frame), NEW f \in Frame, NEW e, NEW c \in Story,
           NEW d \in Story, Reaches(x, q, e, c), Told(x, c, f, d)
    PROVE  Reaches(x, Append(q, f), e, d)
<1>1. PICK h \in [0..Len(q) -> Story] :
          /\ Knows(e, h[0]) /\ h[Len(q)] = c
          /\ \A i \in 1..Len(q) : Told(x, h[i - 1], q[i], h[i])
  BY DEF Reaches
<1>2. PICK p \in Seq(Frame) : /\ p = Append(q, f) /\ Len(p) = Len(q) + 1 /\ Len(q) \in Nat
                              /\ p[Len(q) + 1] = f /\ \A i \in 1..Len(q) : p[i] = q[i]
  BY Appended
<1> DEFINE g == [i \in 0..Len(p) |-> IF i <= Len(q) THEN h[i] ELSE d]
<1>3. g \in [0..Len(p) -> Story] /\ g[0] = h[0] /\ g[Len(p)] = d
  BY <1>2
<1>4. \A i \in 0..Len(q) : g[i] = h[i]
  BY <1>2
<1>5. g[Len(q) + 1] = d
  BY <1>2
<1> HIDE DEF g
<1>6. ASSUME NEW i \in 1..Len(p)
      PROVE  Told(x, g[i - 1], p[i], g[i])
  <2>1. CASE i \in 1..Len(q)
    <3>1. g[i] = h[i] /\ g[i - 1] = h[i - 1] /\ p[i] = q[i]
      BY <1>2, <1>4, <2>1
    <3> QED
      BY <1>1, <2>1, <3>1
  <2>2. CASE i = Len(q) + 1
    <3>1. g[i] = d /\ g[i - 1] = c /\ p[i] = f
      BY <1>1, <1>2, <1>4, <1>5, <2>2
    <3> QED
      BY <3>1
  <2> QED
    BY <1>2, <2>1, <2>2
<1> QED
  BY <1>1, <1>2, <1>3, <1>6 DEF Reaches

LEMMA ReachesTail ==
    ASSUME NEW x, NEW q \in Seq(Frame), q # <<>>, NEW e \in Ear, NEW c \in Story,
           Reaches(x, q, e, c)
    PROVE  Reaches(x, Tail(q), IF x = Head(q).id THEN Hear(e, Head(q)) ELSE e, c)
<1>1. PICK h \in [0..Len(q) -> Story] :
          /\ Knows(e, h[0]) /\ h[Len(q)] = c
          /\ \A i \in 1..Len(q) : Told(x, h[i - 1], q[i], h[i])
  BY DEF Reaches
<1> DEFINE p == Tail(q)
           f == Head(q)
           n == Len(p)
<1>2. /\ p \in Seq(Frame) /\ f \in Frame /\ n \in Nat /\ Len(q) = n + 1 /\ f = q[1]
      /\ \A i \in 1..n : p[i] = q[i + 1]
  <2>1. /\ Tail(q) \in Seq(Frame) /\ Len(Tail(q)) = Len(q) - 1 /\ Len(q) \in Nat
        /\ \A i \in 1..(Len(q) - 1) : Tail(q)[i] = q[i + 1]
        /\ Head(q) = q[1] /\ Head(q) \in Frame
    BY Shortened
  <2>2. Len(Tail(q)) \in Nat
    BY <2>1
  <2> QED
    BY <2>1, <2>2
<1> HIDE DEF p, f, n
<1> DEFINE g == [i \in 0..n |-> h[i + 1]]
<1>3. g \in [0..n -> Story] /\ g[0] = h[1] /\ g[n] = c
  BY <1>1, <1>2
<1>4. \A i \in 0..n : g[i] = h[i + 1]
  OBVIOUS
<1> HIDE DEF g
<1>5. \A i \in 1..n : Told(x, g[i - 1], p[i], g[i])
  <2> SUFFICES ASSUME NEW i \in 1..n PROVE Told(x, g[i - 1], p[i], g[i])
    OBVIOUS
  <2>1. g[i] = h[i + 1] /\ g[i - 1] = h[i] /\ p[i] = q[i + 1]
    BY <1>2, <1>4
  <2>2. i + 1 \in 1..Len(q) /\ (i + 1) - 1 = i
    BY <1>2
  <2> QED
    BY <1>1, <2>1, <2>2
<1>6. 1 \in 1..Len(q) /\ 1 - 1 = 0 /\ h[0] \in Story /\ h[1] \in Story
  BY <1>2
<1>7. Told(x, h[0], f, h[1])
  BY <1>1, <1>2, <1>6
<1>8. IF f.id = x THEN Knows(Hear(e, f), h[1]) ELSE Knows(e, h[1])
  BY <1>1, <1>6, <1>7, HearsTold
<1>9. Knows(IF x = f.id THEN Hear(e, f) ELSE e, h[1])
  BY <1>8
<1>10. Reaches(x, p, IF x = f.id THEN Hear(e, f) ELSE e, c)
  BY <1>3, <1>5, <1>9 DEF Reaches, n
<1> QED
  BY <1>10 DEF p, f

\* A story reached by what is known stays reached by an ECU that gave up on it or
\* only changed what it owes us.
LEMMA ReachesEar ==
    ASSUME NEW x, NEW q, NEW e, NEW u, NEW c, Reaches(x, q, e, c),
           \A d \in Story : Knows(e, d) => Knows(u, d), Len(q) \in Nat
    PROVE  Reaches(x, q, u, c)
<1>1. PICK h \in [0..Len(q) -> Story] :
          /\ Knows(e, h[0]) /\ h[Len(q)] = c
          /\ \A i \in 1..Len(q) : Told(x, h[i - 1], q[i], h[i])
  BY DEF Reaches
<1>2. h[0] \in Story
  OBVIOUS
<1> QED
  BY <1>1, <1>2 DEF Reaches

LEMMA ReachesKnown ==
    ASSUME NEW x, NEW q, NEW e, NEW c, Reaches(x, q, e, c), Len(q) \in Nat
    PROVE  /\ e \in Ear /\ e.intact
           /\ q = <<>> /\ "OVFLW" \notin FlowStatuses => e.st = c.st /\ e.msg = c.msg
<1>1. PICK h \in [0..Len(q) -> Story] : Knows(e, h[0]) /\ h[Len(q)] = c
  BY DEF Reaches
<1> QED
  BY <1>1 DEF Knows

----------------------------------------------------------------------------
\* What writers tell

Sends(w) == pc[w] \in InTx \ {"abort", "expired"}
Won(w) == pc[w] = "idle" /\ res[w] = "NOERROR"

\* Where the next consecutive frame of w continues.
NextOff(w) == IF pc[w] = "sent" THEN cf[w].off + cf[w].n ELSE tx[slot[w]].off
NextSn(w) == IF pc[w] = "sent" THEN (cf[w].sn + 1) % 16 ELSE tx[slot[w]].sn

\* The frame that w has built is the next of what is in its slot.
Built(w) ==
    pc[w] \in {"cf", "sent"} =>
        /\ cf[w].msg = w /\ cf[w].off = tx[slot[w]].off /\ cf[w].sn = tx[slot[w]].sn
        /\ tx[slot[w]].off < call[w].len

Called(w) == pc[w] # "idle" => \E a \in Addresses : call[w].id = a[1]

\* Writer w is telling story c and has come to its end.  A writer whose story was
\* interrupted by a single frame is not telling one any more.
Teller(w, c) ==
    /\ c.msg = w /\ c.len = call[w].len /\ c.off = NextOff(w) /\ c.sn = NextSn(w)
    /\ c.st = IF c.off >= c.len THEN "done" ELSE "receiving"
Tells(x, c) ==
    \A w \in Writers :
        (Sends(w) /\ call[w].id = x /\ (c.st = "receiving" \/ c.msg = w)) => Teller(w, c)
Ended(c) == \A w \in Writers : (Won(w) /\ c.msg = w) => c.st = "done"

StoryInv ==
    /\ ear \in [Addresses -> Ear]
    /\ \A w \in Writers : Built(w) /\ Called(w)
    /\ \A a \in Addresses : \E c \in Story :
          /\ Reaches(a[1], txq, ear[a], c)
          /\ Tells(a[1], c) /\ (OneAddress => Ended(c))

\* A step that writes no frame of w and tells nothing of w that was not so before.
Passive(w) ==
    /\ Sends(w)' => /\ Sends(w) /\ call'[w].id = call[w].id /\ call'[w].len = call[w].len
                    /\ NextOff(w)' = NextOff(w) /\ NextSn(w)' = NextSn(w)
    /\ Won(w)' => Won(w) \/ (Sends(w) /\ NextOff(w) >= call[w].len)

LEMMA TellsOn ==
    ASSUME NEW x, NEW c \in Story, Tells(x, c), NEW w \in Writers, Passive(w),
           Sends(w)', call'[w].id = x, c.st = "receiving" \/ c.msg = w
    PROVE  Teller(w, c)'
<1>1. Teller(w, c)
  BY DEF Tells, Passive
<1> QED
  BY <1>1 DEF Teller, Passive

LEMMA EndedOn ==
    ASSUME NEW a \in Addresses, NEW c \in Story, Tells(a[1], c), Ended(c), OneAddress,
           NEW w \in Writers, Passive(w), Called(w), Won(w)', c.msg = w
    PROVE  c.st = "done"
<1>1. CASE Won(w)
  BY <1>1 DEF Ended
<1>2. CASE Sends(w) /\ NextOff(w) >= call[w].len
  <2>1. call[w].id = a[1]
    BY <1>2 DEF Called, OneAddress, Sends, InTx, InBurst
  <2>2. Teller(w, c)
    BY <1>2, <2>1 DEF Tells
  <2> QED
    BY <1>2, <2>2 DEF Teller
<1> QED
  BY <1>1, <1>2 DEF Passive

\* No writer tells anything: frames queued are flow control frames, and an ECU
\* changes at most what it owes us, or gives up.
LEMMA StoryKept ==
    ASSUME LinkTypes, StoryInv,
           \A w \in Writers : Passive(w) /\ Built(w)' /\ Called(w)',
           txq' = txq \/ \E f \in Frame : f.kind = "FC" /\ txq' = Append(txq, f),
           ear' \in [Addresses -> Ear],
           \A a \in Addresses : \A d \in Story : Knows(ear[a], d) => Knows(ear'[a], d)
    PROVE  StoryInv'
<1>1. SUFFICES ASSUME NEW a \in Addresses
               PROVE  \E c \in Story : /\ Reaches(a[1], txq', ear'[a], c)
                                       /\ Tells(a[1], c)' /\ (OneAddress => Ended(c)')
  BY DEF StoryInv, OneAddress
<1>2. PICK c \in Story : /\ Reaches(a[1], txq, ear[a], c)
                         /\ Tells(a[1], c) /\ (OneAddress => Ended(c))
  BY DEF StoryInv
<1>3. txq \in Seq(Frame) /\ Len(txq) \in Nat
  BY DEF LinkTypes
<1>4. Reaches(a[1], txq, ear'[a], c)
  BY <1>2, <1>3, ReachesEar
<1>5. Reaches(a[1], txq', ear'[a], c)
  <2>1. ASSUME NEW f \in Frame, f.kind = "FC", txq' = Append(txq, f)
        PROVE  Reaches(a[1], txq', ear'[a], c)
    <3>1. Told(a[1], c, f, c)
      BY <2>1 DEF Told
    <3> QED
      BY <1>3, <1>4, <2>1, <3>1, ReachesAppend
  <2> QED
    BY <1>4, <2>1
<1>6. Tells(a[1], c)'
  BY <1>2, TellsOn DEF Tells
<1>7. OneAddress => Ended(c)'
  BY <1>2, EndedOn DEF Ended, StoryInv
<1> QED
  BY <1>5, <1>6, <1>7

\* Writer v queues a frame f of its own: what f makes of the story is as v says.
LEMMA StoryTold ==
    ASSUME LinkTypes, StoryInv, NEW v \in Writers, NEW f \in Frame,
           txq' = Append(txq, f), ear' = ear, f.id = call[v].id,
           Sends(v)' => call'[v].id = call[v].id, pc[v] # "idle",
           \A w \in Writers : Built(w)' /\ Called(w)',
           \A w \in Writers : w # v => Passive(w) /\ (Sends(w)' => call'[w].id # f.id \/ ~Sends(v)'),
           \A c \in Story : Tells(f.id, c) =>
              \E d \in Story : /\ Told(f.id, c, f, d) /\ (d.msg = v \/ d = c)
                               /\ (Sends(v)' /\ (d.st = "receiving" \/ d.msg = v)) => Teller(v, d)'
                               /\ ~Sends(v)' => d.st = "done" /\ d.msg = v
    PROVE  StoryInv'
<1>1. SUFFICES ASSUME NEW a \in Addresses
               PROVE  \E c \in Story : /\ Reaches(a[1], txq', ear'[a], c)
                                       /\ Tells(a[1], c)' /\ (OneAddress => Ended(c)')
  BY DEF StoryInv, OneAddress
<1>2. PICK c \in Story : /\ Reaches(a[1], txq, ear[a], c)
                         /\ Tells(a[1], c) /\ (OneAddress => Ended(c))
  BY DEF StoryInv
<1>3. txq \in Seq(Frame)
  BY DEF LinkTypes
<1>4. CASE a[1] # f.id
  <2>1. Told(a[1], c, f, c)
    BY <1>4 DEF Told
  <2>2. Reaches(a[1], txq', ear'[a], c)
    BY <1>2, <1>3, <2>1, ReachesAppend
  <2>3. Tells(a[1], c)'
    BY <1>2, <1>4, TellsOn DEF Tells
  <2>4. ~OneAddress
    BY <1>4 DEF OneAddress, StoryInv, Called
  <2> QED
    BY <2>2, <2>3, <2>4
<1>5. CASE a[1] = f.id
  <2>1. PICK d \in Story :
            /\ Told(f.id, c, f, d) /\ (d.msg = v \/ d = c)
            /\ (Sends(v)' /\ (d.st = "receiving" \/ d.msg = v)) => Teller(v, d)'
            /\ ~Sends(v)' => d.st = "done" /\ d.msg = v
    BY <1>2, <1>5
  <2>2. Reaches(a[1], txq', ear'[a], d)
    BY <1>2, <1>3, <1>5, <2>1, ReachesAppend
  <2>3. ASSUME NEW w \in Writers, Sends(w)', call'[w].id = a[1], d.st = "receiving" \/ d.msg = w
        PROVE  Teller(w, d)'
    <3>1. w = v
      BY <1>5, <2>1, <2>3
    <3> QED
      BY <2>1, <2>3, <3>1
  <2>4. Tells(a[1], d)'
    BY <2>3 DEF Tells
  <2>5. ASSUME OneAddress, NEW w \in Writers, Won(w)', d.msg = w PROVE d.st = "done"
    <3>1. CASE w = v
      <4>1. ~Sends(v)'
        BY <2>5, <3>1 DEF Won, Sends, InTx, InBurst
      <4> QED
        BY <2>1, <4>1
    <3>2. CASE w # v
      <4>1. d = c
        BY <2>1, <2>5, <3>2
      <4> QED
        BY <1>2, <2>5, <3>2, <4>1, EndedOn DEF StoryInv
    <3> QED
      BY <3>1, <3>2
  <2> QED
    BY <2>2, <2>4, <2>5 DEF Ended
<1> QED
  BY <1>4, <1>5

\* What a step of one writer leaves of another, and of all writers where the
\* offsets of their slots stay.
LEMMA SameWriter ==
    ASSUME NEW w \in Writers, Built(w), Called(w),
           UNCHANGED <<pc[w], slot[w], call[w], cf[w], res[w]>>,
           pc[w] \in InTx => /\ tx'[slot[w]].off = tx[slot[w]].off
                             /\ tx'[slot[w]].sn = tx[slot[w]].sn
    PROVE  Passive(w) /\ Built(w)' /\ Called(w)'
  BY DEF Passive, Built, Called, Sends, Won, NextOff, NextSn, InTx, InBurst

LEMMA OtherWriter ==
    ASSUME TypeOK, TxInv, Undisturbed, NEW v \in Writers, NEW w \in Writers, w # v,
           pc[v] \in InTx \/ Available(slot[v]), pc[v] # "idle",
           UNCHANGED <<pc[w], slot[w], call[w], cf[w], res[w]>>,
           UNCHANGED tx \/ \E t : tx' = [tx EXCEPT ![slot[v]] = t],
           Built(w), Called(w)
    PROVE  Passive(w) /\ Built(w)' /\ Called(w)'
<1>1. ASSUME pc[w] \in InTx PROVE tx'[slot[w]] = tx[slot[w]]
  <2>1. forced[slot[w]] = "no"
    BY <1>1 DEF Undisturbed
  <2>2. slot[v] # slot[w]
    BY <1>1, <2>1, Alone
  <2>3. slot[v] \in Slots /\ slot[w] \in Slots /\ tx \in [Slots -> TxType]
    BY <1>1 DEF TypeOK, InTx, InBurst
  <2> QED
    BY <2>2, <2>3
<1> QED
  BY <1>1, SameWriter

\* Two writers do not transmit to one id at once.
LEMMA SoleSender ==
    ASSUME TypeOK, TxInv, Undisturbed, OneSender, NEW v \in Writers, NEW w \in Writers,
           pc[v] \in InTx, pc[w] \in InTx, call[v].id = call[w].id
    PROVE  v = w
  BY Alone DEF Undisturbed, OneSender

LEMMA LinkTxInv == TypeOK /\ TxInv /\ Next => TxInv'
<1> SUFFICES ASSUME TypeOK, TxInv, Next PROVE TxInv'
  OBVIOUS
<1> USE DEF sessVars, writerVars
<1>1. CASE Request \/ EngineStep
  BY <1>1, TxInvStep DEF EngineNext
<1>2. ASSUME UNCHANGED <<tx, pc, slot, call, cf, res, forced>> PROVE TxInv'
  BY <1>2 DEF TxInv, Owns
<1>3. CASE EcuTakes
  BY <1>2, <1>3 DEF EcuTakes
<1>4. ASSUME NEW a \in Addresses, Ecu(a) PROVE TxInv'
  <2>1. ASSUME NEW fs \in FlowStatuses, NEW bs \in PeerBlockSizes, EcuFlow(a, fs, bs)
        PROVE  TxInv'
    <3>1. CASE ReceiveFlowControl(a[2], fs, bs)
      BY <3>1, EnvironmentOwns DEF Environment
    <3> QED
      BY <1>2, <2>1, <3>1 DEF EcuFlow, vars
  <2>2. ASSUME NEW len \in PeerLens, EcuFirst(a, len) PROVE TxInv'
    BY <1>2, <2>2 DEF EcuFirst, ReceiveFirst, vars
  <2>3. CASE EcuSingle(a)
    BY <1>2, <2>3 DEF EcuSingle, ReceiveSingle, vars
  <2>4. ASSUME NEW arrives \in BOOLEAN, EcuConsecutive(a, arrives) PROVE TxInv'
    BY <1>2, <2>4 DEF EcuConsecutive, ReceiveConsecutive, vars
  <2> QED
    BY <1>4, <2>1, <2>2, <2>3, <2>4 DEF Ecu
<1> QED
  BY <1>1, <1>3, <1>4 DEF Next

\* Requests take no slot from a writer that is inside its transmission.
LEMMA StoryRequest ==
    ASSUME TypeOK, LinkTypes, TxInv, StoryInv, Request, ear' = ear, Undisturbed'
    PROVE  StoryInv'
<1> USE DEF sessVars, writerVars
<1>1. SUFFICES ASSUME NEW w \in Writers PROVE Passive(w) /\ Built(w)' /\ Called(w)'
  <2>1. txq' = txq
    BY DEF Request, AddSession, RemoveSession, SetConfig, Shutdown, TransmitRejected,
           TransmitCall, StartReceive
  <2> QED
    BY <1>1, <2>1, StoryKept DEF StoryInv
<1>0. Built(w) /\ Called(w)
  BY DEF StoryInv
<1>2. ASSUME NEW f \in Filters, NEW a \in Addresses, AddSession(f, a)
      PROVE  Passive(w) /\ Built(w)' /\ Called(w)'
  <2> DEFINE s == Least({x \in Slots : ~sess[x].active})
  <2>1. s \in Slots /\ tx' = [tx EXCEPT ![s] = ZeroTx] /\ Disturb(s, "reuse")
        /\ UNCHANGED <<pc, slot, call, cf, res>>
    BY <1>2, LeastIn DEF AddSession
  <2> HIDE DEF s
  <2>2. ASSUME pc[w] \in InTx PROVE slot[w] # s
    <3>1. SUFFICES ASSUME slot[w] = s PROVE FALSE
      OBVIOUS
    <3>2. w \in Inside(s)
      BY <2>2, <3>1 DEF Inside
    <3>3. forced'[s] = "reuse"
      BY <2>1, <3>2 DEF Disturb, TypeOK
    <3> QED
      BY <2>1, <2>2, <3>1, <3>3 DEF Undisturbed
  <2>3. pc[w] \in InTx => tx'[slot[w]] = tx[slot[w]]
    BY <2>1, <2>2 DEF TypeOK, InTx, InBurst
  <2> QED
    BY <1>0, <2>1, <2>3, SameWriter
<1>3. ASSUME NEW v \in Writers, NEW a \in Addresses, NEW len \in Lens,
             TransmitRejected(v, a[1], len)
      PROVE  Passive(w) /\ Built(w)' /\ Called(w)'
  <2>1. UNCHANGED <<pc, slot, call, cf, tx>> /\ res' = [res EXCEPT ![v] = "ERR_INVALID_MSG"]
    BY <1>3 DEF TransmitRejected
  <2>2. CASE w # v
    BY <1>0, <2>1, <2>2, SameWriter
  <2>3. CASE w = v
    <3>1. res'[w] = "ERR_INVALID_MSG" /\ pc'[w] = "idle"
      BY <1>3, <2>1, <2>3 DEF TypeOK, TransmitRejected
    <3> QED
      BY <3>1 DEF Passive, Built, Called, Sends, Won, InTx, InBurst
  <2> QED
    BY <2>2, <2>3
<1>4. ASSUME NEW v \in Writers, NEW a \in Addresses, NEW len \in Lens, NEW t \in Timeouts,
             TransmitCall(v, a[1], len, t)
      PROVE  Passive(w) /\ Built(w)' /\ Called(w)'
  <2>1. UNCHANGED <<cf, tx>> /\ pc' = [pc EXCEPT ![v] = "found"]
        /\ call' = [call EXCEPT ![v] = [id |-> a[1], len |-> len, timeout |-> t]]
    BY <1>4 DEF TransmitCall, Goto
  <2>2. CASE w # v
    <3>1. UNCHANGED <<pc[w], slot[w], call[w], cf[w], res[w]>>
      BY <1>4, <2>2 DEF TransmitCall, Goto, TypeOK
    <3> QED
      BY <1>0, <2>1, <2>2, <3>1, SameWriter
  <2>3. CASE w = v
    <3>1. pc'[w] = "found" /\ call'[w].id = a[1]
      BY <2>1, <2>3 DEF TypeOK
    <3> QED
      BY <3>1 DEF Passive, Built, Called, Sends, Won, InTx, InBurst
  <2> QED
    BY <2>2, <2>3
<1>5. ASSUME UNCHANGED <<tx, pc, slot, call, cf, res>>
      PROVE  Passive(w) /\ Built(w)' /\ Called(w)'
  BY <1>0, <1>5, SameWriter
<1> QED
  BY <1>2, <1>3, <1>4, <1>5 DEF Request, RemoveSession, SetConfig, Shutdown, StartReceive

\* A step of writer v that queues no frame.
LEMMA StoryMoves ==
    ASSUME TypeOK, LinkTypes, TxInv, Undisturbed, StoryInv, NEW v \in Writers,
           pc[v] # "idle", ear' = ear, txq' = txq,
           \/ UNCHANGED tx
           \/ /\ pc[v] \in InTx \/ Available(slot[v])
              /\ \E t : tx' = [tx EXCEPT ![slot[v]] = t],
           \A w \in Writers \ {v} : UNCHANGED <<pc[w], slot[w], call[w], cf[w], res[w]>>,
           Passive(v), Built(v)', Called(v)'
    PROVE  StoryInv'
<1>1. ASSUME NEW w \in Writers, w # v PROVE Passive(w) /\ Built(w)' /\ Called(w)'
  <2>1. Built(w) /\ Called(w) /\ UNCHANGED <<pc[w], slot[w], call[w], cf[w], res[w]>>
    BY <1>1 DEF StoryInv
  <2>2. CASE UNCHANGED tx
    BY <2>1, <2>2, SameWriter
  <2>3. CASE ~UNCHANGED tx
    BY <1>1, <2>1, <2>3, OtherWriter
  <2> QED
    BY <2>2, <2>3
<1>2. /\ ear' \in [Addresses -> Ear]
      /\ \A a \in Addresses : \A d \in Story : Knows(ear[a], d) => Knows(ear'[a], d)
  BY DEF StoryInv
<1> QED
  BY <1>1, <1>2, StoryKept

LEMMA ReturnPassive ==
    ASSUME TypeOK, NEW v \in Writers, NEW r, Return(v, r),
           r # "NOERROR" \/ (Sends(v) /\ NextOff(v) >= call[v].len)
    PROVE  /\ Passive(v) /\ Built(v)' /\ Called(v)'
           /\ \A w \in Writers \ {v} : UNCHANGED <<pc[w], slot[w], call[w], cf[w], res[w]>>
<1>1. pc'[v] = "idle" /\ res'[v] = r
  BY DEF Return, Goto, TypeOK
<1> QED
  BY <1>1, ReturnFrame DEF Passive, Built, Called, Sends, Won, InTx, InBurst

LEMMA GotoPassive ==
    ASSUME TypeOK, NEW v \in Writers, NEW l, Goto(v, l), UNCHANGED <<tx, slot, call, cf, res>>,
           Called(v), pc[v] # "idle", l \notin {"idle", "cf", "sent"},
           l \in InTx \ {"abort", "expired"} => Sends(v) /\ pc[v] # "sent"
    PROVE  /\ Passive(v) /\ Built(v)' /\ Called(v)'
           /\ \A w \in Writers \ {v} : UNCHANGED <<pc[w], slot[w], call[w], cf[w], res[w]>>
<1>1. pc'[v] = l /\ \A w \in Writers \ {v} : pc'[w] = pc[w]
  BY DEF Goto, TypeOK
<1> QED
  BY <1>1 DEF Passive, Built, Called, Sends, Won, NextOff, NextSn

\* The burst loop goes on where the slot, or the frame just written, says.
LEMMA BurstPassive ==
    ASSUME TypeOK, NEW v \in Writers, pc[v] \in InBurst, Called(v), NEW t \in TxType,
           BurstHead(v, t), t.msg = v, t.len = call[v].len, t.off = NextOff(v), t.sn = NextSn(v)
    PROVE  /\ Passive(v) /\ Built(v)' /\ Called(v)'
           /\ \A w \in Writers \ {v} : UNCHANGED <<pc[w], slot[w], call[w], cf[w], res[w]>>
           /\ \E u : tx' = [tx EXCEPT ![slot[v]] = u]
<1>0. Sends(v) /\ slot[v] \in Slots /\ tx \in [Slots -> TxType] /\ pc[v] # "idle"
  BY DEF Sends, InTx, InBurst, TypeOK
<1>1. CASE Finished(t)
  <2>1. Return(v, "NOERROR") /\ \E u : tx' = [tx EXCEPT ![slot[v]] = u]
    BY <1>1 DEF BurstHead
  <2>2. NextOff(v) >= call[v].len
    BY <1>1 DEF Finished
  <2> QED
    BY <1>0, <2>1, <2>2, ReturnPassive
<1>2. CASE ~Finished(t) /\ BlockFull(t)
  <2>1. PICK u : u = [t EXCEPT !.state = "WAIT_FC", !.bsSent = 0, !.dl = NBs]
    OBVIOUS
  <2>2. /\ tx' = [tx EXCEPT ![slot[v]] = u] /\ Goto(v, "renew") /\ cf' = [cf EXCEPT ![v] = NoCf]
        /\ UNCHANGED <<slot, call, res>>
    BY <1>2, <2>1 DEF BurstHead
  <2>3. u.off = t.off /\ u.sn = t.sn /\ tx'[slot[v]] = u
    BY <1>0, <2>1, <2>2 DEF TxType
  <2>4. pc'[v] = "renew"
    BY <2>2 DEF Goto, TypeOK
  <2>5. Passive(v) /\ Built(v)' /\ Called(v)'
    BY <1>0, <2>2, <2>3, <2>4 DEF Passive, Built, Called, Sends, Won, NextOff, NextSn
  <2> QED
    BY <2>2, <2>5 DEF Goto, TypeOK
<1>3. CASE ~Finished(t) /\ ~BlockFull(t)
  <2>1. PICK c : c = [msg |-> t.msg, sn |-> t.sn, off |-> t.off, n |-> CfLen(t)]
    OBVIOUS
  <2>2. /\ tx' = [tx EXCEPT ![slot[v]] = t] /\ Goto(v, "cf") /\ cf' = [cf EXCEPT ![v] = c]
        /\ UNCHANGED <<slot, call, res>>
    BY <1>3, <2>1 DEF BurstHead
  <2>3. /\ tx'[slot[v]] = t /\ pc'[v] = "cf" /\ cf'[v] = c
        /\ c.msg = v /\ c.off = t.off /\ c.sn = t.sn
    BY <1>0, <2>1, <2>2 DEF Goto, TypeOK
  <2>4. t.off < call[v].len
    BY <1>3 DEF Finished, TxType
  <2>5. Passive(v) /\ Built(v)' /\ Called(v)'
    BY <1>0, <2>2, <2>3, <2>4 DEF Passive, Built, Called, Sends, Won, NextOff, NextSn
  <2> QED
    BY <2>2, <2>5 DEF Goto, TypeOK
<1> QED
  BY <1>1, <1>2, <1>3

\* A single frame: it ends whatever story was being told at its id.
LEMMA StorySingle ==
    ASSUME TypeOK, LinkTypes, TxInv, Undisturbed, StoryInv, NEW v \in Writers,
           WriteSingle(v), ear' = ear
    PROVE  StoryInv'
<1> USE DEF sessVars
<1>0. pc[v] = "single" /\ UNCHANGED tx /\ Built(v) /\ Called(v)
  BY DEF WriteSingle, StoryInv
<1>1. CASE CanWriteFails /\ Return(v, "ERR_FAILED")
  BY <1>0, <1>1, ReturnPassive, StoryMoves DEF CanWriteFails
<1>2. CASE CanWriteOk(SingleFrame(call[v].id, v, call[v].len)) /\ Return(v, "NOERROR")
  <2>1. call[v].id \in Nat /\ call[v].len \in Nat /\ v \in Writers \cup {"none"}
    BY DEF TypeOK, CallType
  <2>2. PICK f : f = SingleFrame(call[v].id, v, call[v].len)
    OBVIOUS
  <2>3. f \in Frame /\ f.kind = "SF" /\ f.id = call[v].id /\ f.msg = v /\ f.len = call[v].len
    BY <2>1, <2>2 DEF SingleFrame, Frame
  <2>4. txq' = Append(txq, f)
    BY <1>2, <2>2 DEF CanWriteOk
  <2>5. pc'[v] = "idle" /\ \A w \in Writers \ {v} : UNCHANGED <<pc[w], slot[w], call[w], cf[w], res[w]>>
    BY <1>2, ReturnFrame
  <2>6. ASSUME NEW w \in Writers, w # v PROVE Passive(w) /\ Built(w)' /\ Called(w)'
    BY <1>0, <2>5, <2>6, SameWriter DEF StoryInv
  <2>7. PICK d \in Story : d.st = "done" /\ d.msg = v /\ d.len = f.len /\ d.off = f.len /\ d.sn = 0
    <3> DEFINE d == [st |-> "done", msg |-> v, len |-> f.len, off |-> f.len, sn |-> 0]
    <3>1. d \in Story /\ d.st = "done" /\ d.msg = v /\ d.len = f.len /\ d.off = f.len /\ d.sn = 0
      BY <2>1, <2>3 DEF Story
    <3> QED
      BY <3>1
  <2>8. ~Sends(v)' /\ Built(v)' /\ Called(v)'
    BY <2>5 DEF Sends, Built, Called, InTx, InBurst
  <2>9. \A c \in Story : Told(f.id, c, f, d)
    BY <2>3, <2>7 DEF Told
  <2>10. PICK g \in Frame : g = f /\ g.id = call[v].id
    BY <2>3
  <2>11. \A c \in Story : Tells(g.id, c) =>
              \E e \in Story : /\ Told(g.id, c, g, e) /\ (e.msg = v \/ e = c)
                               /\ (Sends(v)' /\ (e.st = "receiving" \/ e.msg = v)) => Teller(v, e)'
                               /\ ~Sends(v)' => e.st = "done" /\ e.msg = v
    BY <2>7, <2>8, <2>9, <2>10
  <2> QED
    BY <1>0, <2>4, <2>6, <2>8, <2>10, <2>11, StoryTold
<1> QED
  BY <1>1, <1>2 DEF WriteSingle

\* A first frame: a new story begins, and no other writer is telling one there.
LEMMA StoryFirst ==
    ASSUME TypeOK, LinkTypes, TxInv, Undisturbed, StoryInv, NEW v \in Writers,
           TransmitFirst(v), ear' = ear, TypeOK', TxInv', Undisturbed', OneSender'
    PROVE  StoryInv'
<1> USE DEF sessVars
<1> DEFINE s == slot[v]
           wait == IF call[v].timeout > 0 THEN call[v].timeout ELSE NBs
<1>0. /\ pc[v] = "found" /\ Available(s) /\ s \in Slots /\ tx \in [Slots -> TxType]
      /\ call[v].len > 7 /\ call[v].len \in Nat /\ call[v].id \in Nat /\ Built(v) /\ Called(v)
  BY DEF TransmitFirst, StoryInv, TypeOK, CallType
<1>1. CASE /\ CanWriteFails /\ tx' = [tx EXCEPT ![s] = Loaded(v, tx[s])] /\ Return(v, "ERR_FAILED")
  BY <1>0, <1>1, ReturnPassive, StoryMoves DEF CanWriteFails
<1>2. CASE /\ CanWriteOk(FirstFrame(call[v].id, v, call[v].len))
           /\ tx' = [tx EXCEPT ![s] = [Loaded(v, tx[s]) EXCEPT !.state = "WAIT_FC", !.dl = wait]]
           /\ Goto(v, "poll") /\ UNCHANGED <<slot, call, cf, res>>
  <2>1. PICK f : f = FirstFrame(call[v].id, v, call[v].len)
    OBVIOUS
  <2>2. f \in Frame /\ f.kind = "FF" /\ f.id = call[v].id /\ f.msg = v /\ f.len = call[v].len
    BY <1>0, <2>1 DEF FirstFrame, Frame
  <2>3. txq' = Append(txq, f)
    BY <1>2, <2>1 DEF CanWriteOk
  <2>4. pc'[v] = "poll" /\ \A w \in Writers \ {v} : UNCHANGED <<pc[w], slot[w], call[w], cf[w], res[w]>>
    BY <1>2 DEF Goto, TypeOK
  <2>5. \E t : tx' = [tx EXCEPT ![slot[v]] = t]
    BY <1>2
  <2>6. ASSUME NEW w \in Writers, w # v PROVE Passive(w) /\ Built(w)' /\ Called(w)'
    BY <1>0, <2>4, <2>5, <2>6, OtherWriter DEF StoryInv
  <2>7. ASSUME NEW w \in Writers, w # v, Sends(w)' PROVE call'[w].id # f.id
    <3>1. SUFFICES ASSUME call'[w].id = f.id PROVE FALSE
      OBVIOUS
    <3>2. pc'[w] \in InTx /\ pc'[v] \in InTx /\ call'[v].id = call'[w].id
      BY <1>2, <2>2, <2>4, <2>7, <3>1 DEF Sends, InTx
    <3>3. forced'[slot'[v]] = "no" /\ slot'[v] = slot'[w] /\ forced'[slot'[w]] = "no"
      BY <3>2 DEF Undisturbed, OneSender
    <3>4. Owns(v)' /\ Owns(w)'
      BY <3>2, <3>3 DEF TxInv
    <3> QED
      BY <2>7, <3>3, <3>4 DEF Owns
  <2>8. tx'[s].off = 6 /\ tx'[s].sn = 1
    BY <1>0, <1>2 DEF Loaded, TxType
  <2>9. /\ Sends(v)' /\ Built(v)' /\ Called(v)'
        /\ NextOff(v)' = 6 /\ NextSn(v)' = 1
    BY <1>0, <1>2, <2>4, <2>8 DEF Sends, Built, Called, NextOff, NextSn, InTx
  <2>10. PICK d \in Story : d.st = "receiving" /\ d.msg = v /\ d.len = f.len /\ d.off = 6 /\ d.sn = 1
    <3> DEFINE d == [st |-> "receiving", msg |-> v, len |-> f.len, off |-> 6, sn |-> 1]
    <3>1. d \in Story /\ d.st = "receiving" /\ d.msg = v /\ d.len = f.len /\ d.off = 6 /\ d.sn = 1
      BY <1>0, <2>2 DEF Story
    <3> QED
      BY <3>1
  <2>11. Teller(v, d)'
    BY <1>0, <1>2, <2>2, <2>9, <2>10 DEF Teller
  <2>12. \A c \in Story : Told(f.id, c, f, d)
    BY <2>2, <2>10 DEF Told
  <2>13. PICK g \in Frame : g = f /\ g.id = call[v].id
    BY <2>2
  <2>14. \A c \in Story : Tells(g.id, c) =>
              \E e \in Story : /\ Told(g.id, c, g, e) /\ (e.msg = v \/ e = c)
                               /\ (Sends(v)' /\ (e.st = "receiving" \/ e.msg = v)) => Teller(v, e)'
                               /\ ~Sends(v)' => e.st = "done" /\ e.msg = v
    BY <2>9, <2>10, <2>11, <2>12, <2>13
  <2> QED
    BY <1>0, <1>2, <2>3, <2>6, <2>7, <2>9, <2>13, <2>14, StoryTold
<1> QED
  BY <1>1, <1>2 DEF TransmitFirst

\* A consecutive frame: it continues the story where it stands, unless a single
\* frame has ended that.
LEMMA StoryConsecutive ==
    ASSUME TypeOK, LinkTypes, TxInv, Undisturbed, OneSender, StoryInv, NEW v \in Writers,
           WriteConsecutive(v), ear' = ear
    PROVE  StoryInv'
<1> USE DEF sessVars
<1>0. /\ pc[v] = "cf" /\ pc[v] \in InTx /\ Sends(v) /\ UNCHANGED <<tx, slot, call, cf, res>>
      /\ Built(v) /\ Called(v) /\ sess[slot[v]].txId = call[v].id
  BY DEF WriteConsecutive, StoryInv, Sends, InTx, InBurst, Undisturbed
<1>1. CASE CanWriteFails /\ Goto(v, "abort")
  BY <1>0, <1>1, GotoPassive, StoryMoves DEF CanWriteFails
<1>2. CASE CanWriteOk(ConsecutiveFrame(sess[slot[v]].txId, cf[v])) /\ Goto(v, "sent")
  <2>0. call[v].id \in Nat /\ cf[v] \in CfType
    BY DEF TypeOK, CallType
  <2>1. PICK f : f = ConsecutiveFrame(call[v].id, cf[v])
    OBVIOUS
  <2>2. /\ f \in Frame /\ f.kind = "CF" /\ f.id = call[v].id /\ f.msg = cf[v].msg
        /\ f.off = cf[v].off /\ f.sn = cf[v].sn /\ f.n = cf[v].n
    BY <2>0, <2>1 DEF ConsecutiveFrame, Frame, CfType
  <2>3. txq' = Append(txq, f)
    BY <1>0, <1>2, <2>1 DEF CanWriteOk
  <2>4. pc'[v] = "sent" /\ \A w \in Writers \ {v} : UNCHANGED <<pc[w], slot[w], call[w], cf[w], res[w]>>
    BY <1>0, <1>2 DEF Goto, TypeOK
  <2>5. ASSUME NEW w \in Writers, w # v PROVE Passive(w) /\ Built(w)' /\ Called(w)'
    BY <1>0, <2>4, <2>5, SameWriter DEF StoryInv
  <2>6. ASSUME NEW w \in Writers, w # v, Sends(w)' PROVE call'[w].id # f.id
    BY <1>0, <2>2, <2>4, <2>6, SoleSender DEF Sends
  <2>7. Sends(v)' /\ Built(v)' /\ Called(v)'
    BY <1>0, <2>4 DEF Sends, Built, Called, InTx, InBurst
  <2>8. NextOff(v)' = f.off + f.n /\ NextSn(v)' = (f.sn + 1) % 16
    BY <1>0, <2>2, <2>4 DEF NextOff, NextSn
  <2>9. NextOff(v) = f.off /\ NextSn(v) = f.sn /\ f.msg = v /\ f.off < call[v].len
    BY <1>0, <2>2 DEF Built, NextOff, NextSn
  <2>10. ASSUME NEW c \in Story, Tells(f.id, c)
         PROVE  \E e \in Story : /\ Told(f.id, c, f, e) /\ (e.msg = v \/ e = c)
                                 /\ (e.st = "receiving" \/ e.msg = v) => Teller(v, e)'
    <3>1. CASE c.st = "receiving"
      <4>1. Teller(v, c)
        BY <1>0, <2>2, <2>10, <3>1 DEF Tells
      <4>2. c.off = f.off /\ c.sn = f.sn /\ c.msg = f.msg /\ c.len = call[v].len
        BY <2>9, <4>1 DEF Teller
      <4>3. c.off \in Nat /\ c.len \in Nat /\ c.sn \in 0..15 /\ f.n \in 0..7
        BY <2>2 DEF Story, Frame
      <4>4. c.off + f.n \in Nat /\ (c.sn + 1) % 16 \in 0..15
        BY <4>3
      <4>5. PICK t \in {"done", "receiving"} :
                t = IF c.off + f.n >= c.len THEN "done" ELSE "receiving"
        OBVIOUS
      <4>6. PICK e : e = [st |-> t, msg |-> c.msg, len |-> c.len, off |-> c.off + f.n,
                          sn |-> (c.sn + 1) % 16]
        OBVIOUS
      <4>7. /\ e \in Story /\ e.st = t /\ e.msg = c.msg /\ e.len = c.len
            /\ e.off = c.off + f.n /\ e.sn = (c.sn + 1) % 16
        BY <4>3, <4>4, <4>5, <4>6 DEF Story
      <4>8. Told(f.id, c, f, e)
        BY <2>2, <3>1, <4>2, <4>5, <4>7 DEF Told
      <4>9. Teller(v, e)'
        BY <1>0, <2>8, <2>9, <4>2, <4>5, <4>7 DEF Teller
      <4> QED
        BY <2>9, <4>2, <4>7, <4>8, <4>9
    <3>2. CASE c.st # "receiving"
      <4>1. Told(f.id, c, f, c)
        BY <2>2, <3>2 DEF Told
      <4>2. c.msg # v
        <5>1. SUFFICES ASSUME c.msg = v PROVE FALSE
          OBVIOUS
        <5>2. Teller(v, c)
          BY <1>0, <2>2, <2>10, <5>1 DEF Tells
        <5>3. c.off = f.off /\ c.len = call[v].len /\ c.off \in Nat /\ c.len \in Nat
          BY <2>9, <5>2 DEF Teller, Story
        <5> QED
          BY <2>9, <3>2, <5>2, <5>3 DEF Teller
      <4> QED
        BY <3>2, <4>1, <4>2
    <3> QED
      BY <3>1, <3>2
  <2>11. PICK g \in Frame : g = f /\ g.id = call[v].id
    BY <2>2
  <2>12. \A c \in Story : Tells(g.id, c) =>
              \E e \in Story : /\ Told(g.id, c, g, e) /\ (e.msg = v \/ e = c)
                               /\ (Sends(v)' /\ (e.st = "receiving" \/ e.msg = v)) => Teller(v, e)'
                               /\ ~Sends(v)' => e.st = "done" /\ e.msg = v
    BY <2>7, <2>10, <2>11
  <2> QED
    BY <1>0, <2>3, <2>5, <2>6, <2>7, <2>11, <2>12, StoryTold
<1> QED
  BY <1>1, <1>2 DEF WriteConsecutive

LEMMA StoryWriter ==
    ASSUME TypeOK, LinkTypes, TxInv, Undisturbed, OneSender, StoryInv, NEW v \in Writers,
           WriterStep(v), ear' = ear, TypeOK', TxInv', Undisturbed', OneSender'
    PROVE  StoryInv'
<1> USE DEF sessVars
<1>0. Built(v) /\ Called(v)
  BY DEF StoryInv
<1>1. ASSUME pc[v] # "idle", UNCHANGED <<tx, txq>>, NEW r, r # "NOERROR", Return(v, r)
      PROVE  StoryInv'
  BY <1>1, ReturnPassive, StoryMoves
<1>2. ASSUME pc[v] # "idle", UNCHANGED <<tx, txq, slot, call, cf, res>>, NEW l, Goto(v, l),
             l \notin {"idle", "cf", "sent"},
             l \in InTx \ {"abort", "expired"} => Sends(v) /\ pc[v] # "sent"
      PROVE  StoryInv'
  BY <1>0, <1>2, GotoPassive, StoryMoves
<1>3. CASE TransmitBusy(v)
  BY <1>1, <1>3 DEF TransmitBusy
<1>4. CASE TransmitSingle(v)
  BY <1>2, <1>4 DEF TransmitSingle, InTx, InBurst
<1>5. CASE PollTurn(v)
  BY <1>2, <1>5 DEF PollTurn, Sends, InTx, InBurst
<1>6. CASE PollWaiting(v)
  BY <1>2, <1>6 DEF PollWaiting, Sends, InTx, InBurst
<1>7. CASE PollSending(v)
  BY <1>2, <1>7 DEF PollSending, Sends, InTx, InBurst
<1>8. CASE PollExpired(v)
  BY <1>2, <1>8 DEF PollExpired, Sends, InTx, InBurst
<1>9. CASE RenewDeadline(v)
  BY <1>2, <1>9 DEF RenewDeadline, Sends, InTx, InBurst
<1>10. CASE PollIdle(v)
  <2>1. pc[v] \in InTx /\ tx[slot[v]].state = "IDLE"
    BY <1>10 DEF PollIdle, InTx
  <2>2. FALSE
    BY <2>1 DEF TxInv, Owns, Undisturbed
  <2> QED
    BY <2>2
<1>11. CASE GiveUp(v)
  <2>1. PICK r \in {"ERR_FAILED", "ERR_TIMEOUT"} : Return(v, r)
    BY <1>11 DEF GiveUp
  <2>2. /\ pc[v] # "idle" /\ pc[v] \in InTx /\ txq' = txq
        /\ \E t : tx' = [tx EXCEPT ![slot[v]] = t]
    BY <1>11 DEF GiveUp, InTx
  <2> QED
    BY <2>1, <2>2, ReturnPassive, StoryMoves
<1>12. ASSUME pc[v] \in InBurst, txq' = txq, NEW t \in TxType, BurstHead(v, t),
              t.msg = v, t.len = call[v].len, t.off = NextOff(v), t.sn = NextSn(v)
       PROVE  StoryInv'
  <2>1. pc[v] \in InTx /\ pc[v] # "idle"
    BY <1>12 DEF InTx, InBurst
  <2> QED
    BY <1>0, <1>12, <2>1, BurstPassive, StoryMoves
<1>13. CASE StartBurst(v)
  <2>1. /\ pc[v] = "burst" /\ pc[v] \in InBurst /\ pc[v] \in InTx /\ tx[slot[v]] \in TxType
        /\ txq' = txq
    BY <1>13 DEF StartBurst, InBurst, InTx, TypeOK
  <2>2. PICK t \in TxType : t = tx[slot[v]]
    BY <2>1
  <2>3. t.msg = v /\ t.len = call[v].len /\ t.off = NextOff(v) /\ t.sn = NextSn(v)
    BY <2>1, <2>2 DEF TxInv, Owns, Undisturbed, NextOff, NextSn
  <2>4. BurstHead(v, t)
    BY <1>13, <2>2 DEF StartBurst
  <2> QED
    BY <1>12, <2>1, <2>3, <2>4
<1>14. CASE ContinueBurst(v)
  <2>1. /\ pc[v] = "sent" /\ pc[v] \in InBurst /\ pc[v] \in InTx /\ tx[slot[v]] \in TxType
        /\ txq' = txq
    BY <1>14 DEF ContinueBurst, InBurst, InTx, TypeOK
  <2>2. PICK t : t = AfterConsecutive(v, tx[slot[v]])
    OBVIOUS
  <2>3. t \in TxType /\ BurstHead(v, t)
    BY <1>14, <2>1, <2>2, AfterType DEF ContinueBurst
  <2>4. /\ t.msg = tx[slot[v]].msg /\ t.len = tx[slot[v]].len
        /\ t.off = tx[slot[v]].off + cf[v].n /\ t.sn = (tx[slot[v]].sn + 1) % 16
    BY <2>1, <2>2 DEF AfterConsecutive, TxType
  <2>5. t.msg = v /\ t.len = call[v].len /\ t.off = NextOff(v) /\ t.sn = NextSn(v)
    BY <1>0, <2>1, <2>4 DEF TxInv, Owns, Undisturbed, NextOff, NextSn, Built
  <2> QED
    BY <1>12, <2>1, <2>3, <2>5
<1> QED
  BY <1>3, <1>4, <1>5, <1>6, <1>7, <1>8, <1>9, <1>10, <1>11, <1>13, <1>14,
     StorySingle, StoryFirst, StoryConsecutive DEF WriterStep

\* The ECU takes the first frame of those the story still needs.
LEMMA StoryTakes ==
    ASSUME LinkTypes, StoryInv, EcuTakes
    PROVE  StoryInv'
<1> USE DEF sessVars, writerVars
<1>1. /\ txq # <<>> /\ txq' = Tail(txq) /\ txq \in Seq(Frame)
      /\ UNCHANGED <<tx, pc, slot, call, cf, res>>
      /\ ear' = [a \in Addresses |-> IF a[1] = Head(txq).id THEN Hear(ear[a], Head(txq)) ELSE ear[a]]
  BY DEF EcuTakes, LinkTypes
<1>2. \A w \in Writers : Passive(w) /\ Built(w)' /\ Called(w)'
  BY <1>1, SameWriter DEF StoryInv
<1>3. ASSUME NEW a \in Addresses
      PROVE  /\ ear'[a] \in Ear
             /\ \E c \in Story : /\ Reaches(a[1], txq', ear'[a], c)
                                 /\ Tells(a[1], c)' /\ (OneAddress => Ended(c)')
  <2>1. PICK c \in Story : /\ Reaches(a[1], txq, ear[a], c)
                           /\ Tells(a[1], c) /\ (OneAddress => Ended(c))
    BY DEF StoryInv
  <2>2. ear[a] \in Ear /\ ear'[a] = IF a[1] = Head(txq).id THEN Hear(ear[a], Head(txq)) ELSE ear[a]
    BY <1>1 DEF StoryInv
  <2>3. Reaches(a[1], txq', ear'[a], c)
    BY <1>1, <2>1, <2>2, ReachesTail
  <2>5. ear'[a] \in Ear
    BY <1>1, <2>3, Shortened, ReachesKnown
  <2>4. Tells(a[1], c)' /\ (OneAddress => Ended(c)')
    BY <1>1, <2>1 DEF Tells, Ended, Teller, Sends, Won, NextOff, NextSn
  <2> QED
    BY <2>3, <2>4, <2>5
<1>4. ear' \in [Addresses -> Ear]
  BY <1>1, <1>3
<1> QED
  BY <1>2, <1>3, <1>4 DEF StoryInv, OneAddress

\* What an ECU sends, its flow control included, tells no story of ours.
LEMMA StoryEcu ==
    ASSUME TypeOK, LinkTypes, StoryInv, NEW a \in Addresses, Ecu(a)
    PROVE  StoryInv'
<1> USE DEF sessVars, writerVars
<1>1. ASSUME NEW w \in Writers, UNCHANGED <<tx, pc, slot, call, cf, res>>
      PROVE  Passive(w) /\ Built(w)' /\ Called(w)'
  BY <1>1, SameWriter DEF StoryInv
<1>2. ASSUME NEW fs \in FlowStatuses, NEW bs \in PeerBlockSizes, EcuFlow(a, fs, bs)
      PROVE  StoryInv'
  <2>1. txq' = txq /\ UNCHANGED <<pc, slot, call, cf, res>>
    BY <1>2 DEF EcuFlow, ReceiveFlowControl, vars
  <2>2. ASSUME NEW s \in Slots PROVE tx'[s].off = tx[s].off /\ tx'[s].sn = tx[s].sn
    <3>1. CASE UNCHANGED vars
      BY <3>1 DEF vars
    <3>2. CASE ReceiveFlowControl(a[2], fs, bs)
      <4>1. PICK z \in Slots : \/ tx' = [tx EXCEPT ![z].bs = bs, ![z].bsSent = 0, ![z].state = "SENDING_CF"]
                               \/ tx' = [tx EXCEPT ![z].dl = NBs]
                               \/ tx' = [tx EXCEPT ![z].state = "IDLE"]
        BY <3>2, LeastIn DEF ReceiveFlowControl, SessionsByRxId
      <4> QED
        BY <4>1 DEF TypeOK, TxType
    <3> QED
      BY <1>2, <3>1, <3>2 DEF EcuFlow
  <2>3. ASSUME NEW w \in Writers PROVE Passive(w) /\ Built(w)' /\ Called(w)'
    <3>1. pc[w] \in InTx => slot[w] \in Slots
      BY DEF TypeOK, InTx, InBurst
    <3> QED
      BY <2>1, <2>2, <3>1, SameWriter DEF StoryInv
  <2>4. PICK e \in Ear : e = ear[a]
    BY DEF StoryInv
  <2>5. PICK u : u = ear'[a]
    OBVIOUS
  <2>6. \/ u = [e EXCEPT !.owes = FALSE, !.left = bs]
        \/ u = e
        \/ u = [e EXCEPT !.owes = FALSE, !.st = "aborted"] /\ "OVFLW" \in FlowStatuses
    <3>1. fs \in {"CTS", "WAIT", "OVFLW"}
      BY EngineAssumption
    <3> QED
      BY <1>2, <2>4, <2>5, <3>1 DEF EcuFlow, StoryInv
  <2>7. /\ u \in Ear /\ u.intact = e.intact /\ u.msg = e.msg /\ u.len = e.len
        /\ u.off = e.off /\ u.sn = e.sn /\ (u.st = e.st \/ (u.st = "aborted" /\ "OVFLW" \in FlowStatuses))
    <3>1. bs \in Nat
      BY EngineAssumption
    <3> QED
      BY <2>6, <3>1 DEF Ear
  <2>8. ear' \in [Addresses -> Ear] /\ \A b \in Addresses \ {a} : ear'[b] = ear[b]
    <3>1. \E z : ear' = [ear EXCEPT ![a] = z]
      BY <1>2 DEF EcuFlow
    <3> QED
      BY <2>5, <2>7, <3>1 DEF StoryInv
  <2>9. ASSUME NEW b \in Addresses, NEW d \in Story, Knows(ear[b], d)
        PROVE  Knows(ear'[b], d)
    <3>1. CASE b # a
      BY <2>9, <2>8, <3>1
    <3>2. CASE b = a
      BY <2>4, <2>9, <2>5, <2>7, <3>2 DEF Knows
    <3> QED
      BY <3>1, <3>2
  <2> QED
    BY <2>1, <2>3, <2>9, <2>8, StoryKept
<1>3. ASSUME ear' = ear, UNCHANGED <<tx, pc, slot, call, cf, res>>,
             txq' = txq \/ \E s \in Slots : SendFC(s)
      PROVE  StoryInv'
  <2>1. txq' = txq \/ \E f \in Frame : f.kind = "FC" /\ txq' = Append(txq, f)
    BY <1>3, FlowQueued
  <2> QED
    BY <1>1, <1>3, <2>1, StoryKept DEF StoryInv
<1>4. ASSUME NEW len \in PeerLens, EcuFirst(a, len)
      PROVE  StoryInv'
  <2>1. ear' = ear /\ UNCHANGED <<tx, pc, slot, call, cf, res>>
    BY <1>4 DEF EcuFirst, ReceiveFirst, vars
  <2>2. txq' = txq \/ \E s \in Slots : SendFC(s)
    BY <1>4, FirstFrameStep DEF FirstHeard
  <2> QED
    BY <1>3, <2>1, <2>2
<1>5. CASE EcuSingle(a)
  BY <1>3, <1>5 DEF EcuSingle, ReceiveSingle, vars
<1>6. ASSUME NEW arrives \in BOOLEAN, EcuConsecutive(a, arrives)
      PROVE  StoryInv'
  <2>1. ear' = ear /\ UNCHANGED <<tx, pc, slot, call, cf, res>>
    BY <1>6 DEF EcuConsecutive, ReceiveConsecutive, vars
  <2>2. txq' = txq \/ \E s \in Slots : SendFC(s)
    BY <1>6, ConsecutiveStep DEF CfHeard
  <2> QED
    BY <1>3, <2>1, <2>2
<1> QED
  BY <1>2, <1>4, <1>5, <1>6 DEF Ecu

LEMMA StoryInit == LinkInit => StoryInv
<1> SUFFICES ASSUME LinkInit PROVE StoryInv
  OBVIOUS
<1>1. /\ ear = [a \in Addresses |-> IdleEar] /\ txq = <<>>
      /\ \A w \in Writers : pc[w] = "idle" /\ res[w] = "none"
  BY DEF LinkInit, Init
<1>2. PICK z \in Ear : /\ z = IdleEar /\ z.st = "idle" /\ z.msg = "none" /\ z.len = 0
                       /\ z.off = 0 /\ z.sn = 0 /\ z.intact
  <2>1. /\ IdleEar \in Ear /\ IdleEar.st = "idle" /\ IdleEar.msg = "none" /\ IdleEar.len = 0
        /\ IdleEar.off = 0 /\ IdleEar.sn = 0 /\ IdleEar.intact
    BY DEF IdleEar, Ear
  <2> QED
    BY <2>1
<1>3. PICK c \in Story : c.st = "idle" /\ c.msg = "none" /\ c.len = 0 /\ c.off = 0 /\ c.sn = 0
  <2> DEFINE c == [st |-> "idle", msg |-> "none", len |-> 0, off |-> 0, sn |-> 0]
  <2>1. c \in Story /\ c.st = "idle" /\ c.msg = "none" /\ c.len = 0 /\ c.off = 0 /\ c.sn = 0
    BY DEF Story
  <2> QED
    BY <2>1
<1>4. Knows(z, c)
  BY <1>2, <1>3 DEF Knows
<1>5. Len(txq) = 0
  BY <1>1
<1>6. ASSUME NEW a \in Addresses PROVE Reaches(a[1], txq, ear[a], c)
  <2> DEFINE h == [i \in 0..Len(txq) |-> c]
  <2>1. h \in [0..Len(txq) -> Story] /\ h[0] = c /\ h[Len(txq)] = c
    BY <1>5
  <2> HIDE DEF h
  <2>2. ear[a] = z /\ 1..Len(txq) = {}
    BY <1>1, <1>2, <1>5
  <2> QED
    BY <1>4, <2>1, <2>2 DEF Reaches
<1>7. ASSUME NEW a \in Addresses PROVE Tells(a[1], c) /\ Ended(c)
  BY <1>1 DEF Tells, Ended, Sends, Won, InTx, InBurst
<1>8. \A w \in Writers : Built(w) /\ Called(w)
  BY <1>1 DEF Built, Called
<1> QED
  BY <1>1, <1>2, <1>6, <1>7, <1>8 DEF StoryInv

LEMMA StoryStep ==
    ASSUME TypeOK, LinkTypes, TxInv, StoryInv, Undisturbed, OneSender, Next,
           Undisturbed', OneSender'
    PROVE  StoryInv'
<1>1. CASE (Request \/ EngineStep) /\ UNCHANGED <<ear, mouth, lost, full>>
  <2>1. CASE Request
    BY <1>1, <2>1, StoryRequest
  <2>2. ASSUME NEW v \in Writers, WriterStep(v) PROVE StoryInv'
    BY <1>1, <2>2, LinkTypeOK, LinkTxInv, StoryWriter
  <2>3. ASSUME UNCHANGED <<txq, pc, slot, call, cf, res, ear>>,
               \A s \in Slots : tx'[s].off = tx[s].off /\ tx'[s].sn = tx[s].sn
        PROVE  StoryInv'
    <3>1. ASSUME NEW w \in Writers PROVE Passive(w) /\ Built(w)' /\ Called(w)'
      <4>1. pc[w] \in InTx => slot[w] \in Slots
        BY DEF TypeOK, InTx, InBurst
      <4> QED
        BY <2>3, <4>1, SameWriter DEF StoryInv
    <3> QED
      BY <2>3, <3>1, StoryKept DEF StoryInv
  <2>4. ASSUME NEW r \in Readers, ReaderStep(r) PROVE StoryInv'
    BY <1>1, <2>3, <2>4 DEF ReaderStep, ReceiveOne, FinishReceive, sessVars, writerVars
  <2>5. CASE Tick
    <3>1. \A s \in Slots : tx'[s] = [tx[s] EXCEPT !.dl = Less(tx[s].dl)] /\ tx[s] \in TxType
      BY <2>5 DEF Tick, TypeOK
    <3>2. \A s \in Slots : tx'[s].off = tx[s].off /\ tx'[s].sn = tx[s].sn
      BY <3>1 DEF TxType
    <3> QED
      BY <1>1, <2>3, <2>5, <3>2 DEF Tick
  <2> QED
    BY <1>1, <2>1, <2>2, <2>4, <2>5 DEF EngineStep
<1> QED
  BY <1>1, StoryTakes, StoryEcu DEF Next

LEMMA UnchangedStory ==
    ASSUME TxInv, StoryInv, UNCHANGED linkVars
    PROVE  TxInv' /\ StoryInv'
<1>1. UNCHANGED <<tx, txq, pc, slot, call, cf, res, forced, ear>>
  BY DEF linkVars, vars
<1>2. TxInv'
  BY <1>1 DEF TxInv, Owns
<1>3. StoryInv'
  BY <1>1 DEF StoryInv, Built, Called, Tells, Teller, Ended, Sends, Won, NextOff, NextSn
<1> QED
  BY <1>2, <1>3

TransmitInv == TypeOK /\ LinkTypes /\ TxInv /\ StoryInv

LEMMA TransmitStep ==
    ASSUME TransmitInv, Undisturbed, OneSender, [Next]_linkVars, Undisturbed', OneSender'
    PROVE  TransmitInv'
<1>1. CASE Next
  BY <1>1, LinkTypeOK, LinkTypesStep, LinkTxInv, StoryStep DEF TransmitInv
<1>2. CASE UNCHANGED linkVars
  <2>1. TypeOK' /\ LinkTypes'
    BY <1>2 DEF linkVars, vars, TransmitInv, TypeOK, LinkTypes
  <2> QED
    BY <1>2, <2>1, UnchangedStory DEF TransmitInv
<1> QED
  BY <1>1, <1>2

LEMMA AlwaysTransmitInv == Spec /\ []Undisturbed /\ []OneSender => []TransmitInv
<1>1. LinkInit => TransmitInv
  BY LinkTypesInit, TxInvInit, StoryInit DEF TransmitInv, LinkInit
<1>2. TransmitInv /\ Undisturbed /\ OneSender /\ [Next]_linkVars /\ Undisturbed' /\ OneSender'
         => TransmitInv'
  BY TransmitStep
<1> QED
  BY <1>1, <1>2, PTL DEF Spec

LEMMA StoryIntact == ASSUME TransmitInv PROVE EcuIntact
<1> SUFFICES ASSUME NEW a \in Addresses PROVE ear[a].intact
  BY DEF EcuIntact
<1>1. PICK c \in Story : Reaches(a[1], txq, ear[a], c)
  BY DEF TransmitInv, StoryInv
<1>2. Len(txq) \in Nat
  BY DEF TransmitInv, LinkTypes
<1> QED
  BY <1>1, <1>2, ReachesKnown

LEMMA StoryDelivered ==
    ASSUME TransmitInv, OneAddress, "OVFLW" \notin FlowStatuses
    PROVE  SuccessIsDelivered
<1> SUFFICES ASSUME NEW a \in Addresses, NEW w \in Writers,
                    txq = <<>>, ear[a].msg = w, pc[w] = "idle", res[w] = "NOERROR"
             PROVE  ear[a].st = "done"
  BY DEF SuccessIsDelivered
<1>1. PICK c \in Story : Reaches(a[1], txq, ear[a], c) /\ Ended(c)
  BY DEF TransmitInv, StoryInv
<1>2. Len(txq) \in Nat
  BY DEF TransmitInv, LinkTypes
<1>3. ear[a].st = c.st /\ ear[a].msg = c.msg
  BY <1>1, <1>2, ReachesKnown
<1> QED
  BY <1>1, <1>3 DEF Ended, Won

\* While no slot is reset or renamed under a transmission and no two sessions
\* transmit to one id at once: whatever an ECU accepts is one message of one
\* transmit(), all its chunks in order and none of another's, for any number of
\* threads and ECUs and any flow control (transmit, WriteConsecutive).
THEOREM Intact == Spec /\ []Undisturbed /\ []OneSender => []EcuIntact
BY AlwaysTransmitInv, StoryIntact, PTL

\* With one ECU that never answers overflow, delivery altogether: what it accepts
\* is intact and, once the bus is quiet, a transmit() that reported success and was
\* the last it heard of has arrived whole (transmit, its final STATUS_NOERROR).
THEOREM Delivery ==
    OneAddress /\ "OVFLW" \notin FlowStatuses =>
        (Spec /\ []Undisturbed /\ []OneSender => []Delivered)
<1> SUFFICES ASSUME OneAddress, "OVFLW" \notin FlowStatuses
             PROVE  Spec /\ []Undisturbed /\ []OneSender => []Delivered
  OBVIOUS
<1>1. TransmitInv => Delivered
  BY StoryIntact, StoryDelivered DEF Delivered
<1> QED
  BY <1>1, AlwaysTransmitInv, PTL

=============================================================================
