-------------------------------- MODULE WireTap --------------------------------
(***************************************************************************)
(* The path of a J2534 call through PassThruLogger: the wrapper calls the  *)
(* driver, records the call in the ring, and serializes it field by field  *)
(* into NetworkWriter's buffer; the window of PassThruLoggerControl decodes *)
(* the fields and keeps a structured log.  The connection may fail at any  *)
(* time and a background thread makes a new one.                           *)
(*                                                                         *)
(* A field is two cells of the buffer, so that a full buffer can split it. *)
(***************************************************************************)
EXTENDS EventRing, SequencesExt

CONSTANTS
  KnownCodes,  \* the members of J2534_errorCodes
  BufSize,     \* cells of NetworkWriter::buff
  MaxMsgs,     \* bound: elements of an array
  FirstCalls,  \* bound: the first call
  LaterCalls,  \* bound: the calls after it
  MaxCalls,    \* bound: calls
  MaxHellos,   \* bound: connections
  Overlapping  \* whether the retry thread may connect during a call

ASSUME WireAssumption ==
  /\ BufSize \in Nat /\ BufSize > 2 /\ KnownCodes \subseteq Codes
  /\ MaxMsgs \in Nat /\ MaxCalls \in Nat /\ MaxHellos \in Nat /\ Overlapping \in BOOLEAN

VARIABLES
  connected, buf,  \* NetworkWriter: connected, buff up to buffptr
  todo, call,      \* fields the call has still to write, and the call
  calls, hellos,   \* bounds
  wire, lost,      \* cells under way, and whether the peer is gone
  viewState,       \* ConnectionInfo.state
  message, owed,   \* fields of the message being read, values still to come
  structured,      \* structuredLog
  expected         \* calls returned since the handshake

senderVars == <<connected, buf, todo, call, calls, hellos>>
viewVars == <<viewState, message, owed, structured>>
vars == <<ringVars, senderVars, wire, lost, viewVars, expected>>

-----------------------------------------------------------------------------
(* The fields of each wrapper *)

Number == <<"INT">>
Str == <<"STRING">>
Msg == <<"MSG">>
Enum == <<"ENUM">>
Bytes == <<"DATAARRAY">>
InOut == <<"INOUT_INT">>
Null == <<"NULL">>
Ref == <<"NOTNULL">>
Arr(n) == <<"ARRAY", n>>
Hdr(f) == <<"J2534Msg", f>>
End(code) == <<"END", code>>
Hello == << <<"VERSIONS">>, <<"client">>, <<"driver">> >>

\* writeParamPointer(): the value follows unless the pointer is null.
Opt(values) == {<<Null>>} \cup {<<Ref>> \o v : v \in values}
A \otimes B == {a \o b : a \in A, b \in B}
Just(s) == {s}
Repeat(n, s) == [i \in 1..(n * Len(s)) |-> s[((i - 1) % Len(s)) + 1]]
Arrays(element) == {<<Arr(n)>> \o Repeat(n, element) : n \in 0..MaxMsgs}

Ints(n) == Just(Repeat(n, <<Number>>))
OptInt == Opt({<<Number>>})
OptStr == Opt({<<Str>>})
OptMsg == Opt({<<Msg>>})
OptBytes == Opt({<<Str>>, <<Bytes>>})

\* READ_VBATT and READ_PROG_VOLTAGE write the pointer itself as an integer.
IoctlParams ==
  LET config == Arrays(<<Arr(2), Enum, Number>>) \cup Arrays(<<Arr(2), Enum, Str>>)
      forms == (Opt({<<Str>>} \cup config) \otimes Just(<<Null>>)) \* configuration
        \cup (OptBytes \otimes OptBytes)                          \* five baud init
        \cup (OptMsg \otimes OptMsg)                              \* fast init
        \cup (OptBytes \otimes Just(<<Null>>))                    \* lookup tables
        \cup (Just(<<Null>>) \otimes OptInt)                      \* voltages
        \cup {<<Null, Null>>, <<Number, Null>>, <<Number, Number>>}
  IN Just(<<Number, Enum>>) \otimes forms

DeviceParams ==
  [Open |-> OptStr \otimes OptInt, Close |-> Ints(1),
   Connect |-> Just(<<Number, Enum, Enum, Number>>) \otimes OptInt, Disconnect |-> Ints(1)]

MessageParams ==
  LET messages == Ints(1) \otimes Opt(Arrays(<<Msg>>)) \otimes Opt({<<InOut>>}) \otimes Ints(1)
  IN [ReadMsgs |-> messages, WriteMsgs |-> messages,
      StartPeriodicMsg |-> Ints(1) \otimes OptMsg \otimes OptInt \otimes Ints(1),
      StopPeriodicMsg |-> Ints(2)]

FilterParams ==
  [StartMsgFilter |->
     Just(<<Number, Enum>>) \otimes OptMsg \otimes OptMsg \otimes OptMsg \otimes Ints(1),
   StopMsgFilter |-> Ints(2), SetProgrammingVoltage |-> Just(<<Number, Enum, Enum>>)]

VersionParams ==
  [ReadVersion |-> Ints(1) \otimes OptStr \otimes OptStr \otimes OptStr,
   GetLastError |-> OptStr]

Functions ==
  DOMAIN DeviceParams \cup DOMAIN MessageParams \cup DOMAIN FilterParams
  \cup DOMAIN VersionParams \cup {"Ioctl"}

Params(f) ==
  CASE f \in DOMAIN DeviceParams -> DeviceParams[f]
    [] f \in DOMAIN MessageParams -> MessageParams[f]
    [] f \in DOMAIN FilterParams -> FilterParams[f]
    [] f \in DOMAIN VersionParams -> VersionParams[f]
    [] f = "Ioctl" -> IoctlParams

Calls(f, c) == {[f |-> f, args |-> a, code |-> c] : a \in Params(f)}

\* Every call is made through one of the wrappers.
ASSUME CallsAssumption ==
  FirstCalls \cup LaterCalls \subseteq UNION {Calls(f, c) : f \in Functions \cap Events, c \in Codes}

-----------------------------------------------------------------------------
(* The writer *)

Cells(token) == <<<<token, 1>>, <<token, 2>>>>
NoCall == [f |-> "none", args |-> <<>>, code |-> 0]

Init ==
  /\ RingInit
  /\ connected = FALSE /\ buf = <<>> /\ todo = <<>> /\ call = NoCall
  /\ calls = 0 /\ hellos = 0 /\ wire = <<>> /\ lost = TRUE
  /\ viewState = "Disconnected" /\ message = <<>> /\ owed = 0 /\ structured = <<>>
  /\ expected = <<>>

(* The driver has answered: the event is recorded and the fields begin.    *)
Begin ==
  /\ todo = <<>> /\ calls < MaxCalls
  /\ call' \in IF calls = 0 THEN FirstCalls ELSE LaterCalls
  /\ Push(call'.f, call'.code)
  /\ todo' = <<Hdr(call'.f)>> \o call'.args \o <<End(call'.code)>>
  /\ calls' = calls + 1
  /\ UNCHANGED <<connected, buf, hellos, wire, lost, viewVars, expected>>

\* ::send(): what a lost peer is sent may be accepted before it fails.
Send(cells) ==
  IF lost THEN connected' \in BOOLEAN /\ UNCHANGED wire
  ELSE wire' = wire \o cells /\ UNCHANGED connected

\* writeByte() flushes a full buffer.
MFill(cells) ==
  IF Len(buf \o cells) <= BufSize
  THEN buf' = buf \o cells /\ UNCHANGED <<connected, wire>>
  ELSE /\ Send(SubSeq(buf \o cells, 1, BufSize))
       /\ buf' = SubSeq(buf \o cells, BufSize + 1, Len(buf \o cells))
Fill(cells) ==
  IF Len(buf \o cells) < BufSize
  THEN buf' = buf \o cells /\ UNCHANGED <<connected, wire>>
  ELSE /\ Send(SubSeq(buf \o cells, 1, BufSize))
       /\ buf' = SubSeq(buf \o cells, BufSize + 1, Len(buf \o cells))

Proceed ==
  /\ todo # <<>> /\ todo' = Tail(todo)
  /\ UNCHANGED <<ringVars, call, calls, hellos, lost, viewVars>>

\* Each field asks first whether there is a connection.
Skip ==
  /\ Proceed /\ ~connected
  /\ expected' = IF Len(todo) = 1 THEN Append(expected, call) ELSE expected
  /\ UNCHANGED <<connected, buf, wire>>

WriteField ==
  /\ Proceed /\ connected /\ Len(todo) > 1
  /\ Fill(Cells(Head(todo)))
  /\ UNCHANGED expected

\* writeParamEnd() flushes.
WriteEnd ==
  /\ Proceed /\ connected /\ Len(todo) = 1
  /\ Send(buf \o Cells(Head(todo)))
  /\ buf' = <<>> /\ expected' = Append(expected, call)

(* tcpRetryThread: connect() leaves what the buffer holds, the handshake   *)
(* follows it.  The peer may be gone again before the handshake is sent.   *)
Retry ==
  /\ ~connected /\ hellos < MaxHellos
  /\ ~Overlapping => todo = <<>>
  /\ connected' \in BOOLEAN /\ lost' = ~connected'
  /\ wire' = IF connected' THEN buf \o Cells(Hello[1]) \o Cells(Hello[2]) \o Cells(Hello[3]) ELSE <<>>
  /\ buf' = <<>> /\ hellos' = hellos + 1
  /\ viewState' = "Setup" /\ message' = <<>> /\ owed' = 0 /\ structured' = <<>>
  /\ expected' = <<>>
  /\ UNCHANGED <<ringVars, todo, call, calls>>

(* The connection breaks and what was under way is lost in part.           *)
Lose ==
  /\ ~lost /\ lost' = TRUE
  /\ \E n \in 0..Len(wire) : wire' = SubSeq(wire, 1, n)
  /\ UNCHANGED <<ringVars, senderVars, viewVars, expected>>

-----------------------------------------------------------------------------
(* The window *)

\* saveLogEntry(): a repeated entry raises the count of the last.
Saved(text) ==
  IF structured # <<>> /\ structured[Len(structured)].text = text
  THEN [structured EXCEPT ![Len(structured)].count = @ + 1]
  ELSE Append(structured, [text |-> text, count |-> 1])

\* Values still to come after a token of parseDataField().
MOwed(token) ==
  LET before == IF owed = 0 THEN 1 ELSE owed
  IN CASE token = Ref -> before
       [] token[1] = "ARRAY" -> before + token[2]
       [] OTHER -> before - 1
Owed(token) ==
  LET before == IF owed = 0 THEN 1 ELSE owed
  IN CASE token = Ref -> before
       [] token[1] = "ARRAY" -> before - 1 + token[2]
       [] OTHER -> before - 1

Reading == viewState \in {"Setup", "Connected"}

Setup(token) ==
  /\ viewState = "Setup"
  /\ viewState' = IF token = Hello[1] THEN "Connected" ELSE "Unsupported"
  /\ UNCHANGED <<message, owed, structured>>

Report(token) ==
  /\ viewState = "Connected" /\ message = <<>> /\ token \in {Hello[2], Hello[3]}
  /\ structured' = Saved(token)
  /\ UNCHANGED <<viewState, message, owed>>

StartMessage(token) ==
  /\ viewState = "Connected" /\ message = <<>> /\ token[1] = "J2534Msg"
  /\ message' = <<token>>
  /\ UNCHANGED <<viewState, owed, structured>>

Parameter(token) ==
  /\ viewState = "Connected" /\ message # <<>>
  /\ token[1] \notin {"J2534Msg", "VERSIONS", "client", "driver"}
  /\ owed = 0 => token[1] # "END"
  /\ message' = Append(message, token) /\ owed' = Owed(token)
  /\ UNCHANGED <<viewState, structured>>

FinishMessage(token) ==
  /\ viewState = "Connected" /\ message # <<>> /\ owed = 0
  /\ token[1] = "END" /\ token[2] \in KnownCodes
  /\ structured' = Saved(Append(message, token)) /\ message' = <<>>
  /\ UNCHANGED <<viewState, owed>>

\* A byte that is no member of the enumeration: die().
Refuse(token) ==
  /\ viewState = "Connected"
  /\ \/ message = <<>> /\ token \notin {Hello[2], Hello[3]} /\ token[1] # "J2534Msg"
     \/ message # <<>> /\ token[1] \in {"J2534Msg", "VERSIONS", "client", "driver"}
     \/ message # <<>> /\ owed = 0 /\ token[1] = "END" /\ token[2] \notin KnownCodes
  /\ viewState' = "Error" /\ message' = Append(message, token)
  /\ UNCHANGED <<owed, structured>>

\* Two halves of different fields are taken for a field that does not exist.
Garbled == <<"VERSIONS", "garbled">>

\* die() closes the socket, an unsupported version does not.
ViewerReads ==
  /\ Reading /\ Len(wire) > 1 /\ wire' = SubSeq(wire, 3, Len(wire))
  /\ LET token == IF wire[1][2] = 1 THEN wire[1][1] ELSE Garbled
     IN Setup(token) \/ Report(token) \/ StartMessage(token)
        \/ Parameter(token) \/ FinishMessage(token) \/ Refuse(token)
  /\ lost' = (lost \/ viewState' = "Error")
  /\ UNCHANGED <<ringVars, senderVars, expected>>

\* The end of a connection is an error only within a message.
ViewerEnds ==
  /\ Reading /\ lost /\ Len(wire) < 2
  /\ viewState' = IF message = <<>> THEN "Disconnected" ELSE "Error"
  /\ UNCHANGED <<ringVars, senderVars, wire, lost, message, owed, structured, expected>>

\* Nothing else depends on what a reader of the ring has got: it comes last.
ReadBack ==
  /\ calls = MaxCalls /\ todo = <<>> /\ ~Reading
  /\ \E start \in 0..MaxIndex, max \in 0..MaxRead : Read(start, max)
  /\ UNCHANGED <<senderVars, wire, lost, viewVars, expected>>

Next ==
  \/ Begin \/ Skip \/ WriteField \/ WriteEnd \/ Retry \/ Lose
  \/ ViewerReads \/ ViewerEnds \/ ReadBack

Spec == Init /\ [][Next]_vars
-----------------------------------------------------------------------------
TypeOK ==
  /\ connected \in BOOLEAN /\ lost \in BOOLEAN
  /\ Len(buf) < BufSize /\ calls \in 0..MaxCalls /\ hellos \in 0..MaxHellos
  /\ viewState \in {"Setup", "Connected", "Disconnected", "Error", "Unsupported"}
  /\ owed \in Nat
  /\ todo = <<>> => connected \/ Len(buf) < 2

Text(c) == <<Hdr(c.f)>> \o c.args \o <<End(c.code)>>
Told == <<Hello[2], Hello[3]>> \o [i \in DOMAIN expected |-> Text(expected[i])]
Unrolled(log) ==
  LET shown[n \in 0..Len(log)] ==
        IF n = 0 THEN <<>> ELSE shown[n - 1] \o [i \in 1..log[n].count |-> log[n].text]
  IN shown[Len(log)]
Shown == Unrolled(structured)

(* The window shows, with repetitions counted, the calls returned since    *)
(* the handshake, in order and without gaps up to where it has read; what  *)
(* it has of a message is a prefix of the next call; it gives up on a      *)
(* connection only for its end or for a return code it does not know.      *)
(* saveLogEntry(), interpret(), parseDataField() against the 14 wrappers.  *)
ViewerFaithful ==
  LET shown == Shown
      coming == IF Len(shown) < Len(Told) THEN Told[Len(shown) + 1] ELSE Text(call)
  IN /\ IsPrefix(shown, Told)
     /\ message # <<>> => IsPrefix(message, coming)
     /\ viewState = "Error" => message # coming \/ coming[Len(coming)][2] \notin KnownCodes

(* docs/wire-protocol.md: "Immediately after TCP connection, the client    *)
(* sends" the versions.  Bytes left in the buffer by a call whose          *)
(* connection broke come first: connect() does not clear it.  So no run    *)
(* claims this.                                                            *)
HandshakeFirst == viewState # "Unsupported"
=============================================================================
