-------------------------------- MODULE ReplayLog --------------------------------
(***************************************************************************)
(* A session recorded by PassThruLogger and played back by ReplayJ2534's   *)
(* ReplayEngine: the window writes each call as a text and counts repeated *)
(* texts, LogParser reads the texts back into events, and the engine       *)
(* answers each call of a client from the next event that fits it.         *)
(*                                                                         *)
(* A text is its function name, the pieces between the commas of its       *)
(* arguments and the name of its return code.  A piece has a word, the     *)
(* number that its leading digits are worth, and, where it is a list in    *)
(* brackets, the messages in it.                                           *)
(***************************************************************************)
EXTENDS Integers, Sequences, SequencesExt, FiniteSets

CONSTANTS
  Recordings,  \* the recorded sessions: sequences of calls with their answers
  TextSize,    \* characters LogParser::parseEntry keeps of a text
  MaxMsgs,     \* messages a ReplayEvent holds
  MaxCalls     \* bound: answers after which the client only repeats the session

ASSUME ReplayLogAssumption == TextSize \in Nat /\ MaxMsgs \in Nat /\ MaxCalls \in Nat

VARIABLES
  recording, events,                     \* the session, and what load() made of it
  cursor, dedupIndex, dedupRemaining,    \* ReplayEngine's members
  asked, found, answer,                  \* the last call, its event (0: none), its answer
  given,                                 \* the events that answered
  repeated                               \* calls repeated as recorded, -1 once one was not

engine == <<cursor, dedupIndex, dedupRemaining>>
vars == <<recording, events, engine, asked, found, answer, given, repeated>>

\* Of an ioctl, value is the number it writes at its output, and msgs the rest of what
\* it tells.
Unwritten == -1
Default == [code |-> "STATUS_NOERROR", id |-> 0, count |-> 0, msgs |-> <<>>,
            value |-> Unwritten, versions |-> <<>>]

IsSeq(s) == s \in Seq(Range(s))

\* What a call of each function returns beside its code.
Outputs(name) ==
  CASE name \in {"Open", "Connect", "StartMsgFilter"} -> {"id"}
    [] name = "ReadMsgs" -> {"count", "msgs"}
    [] name = "WriteMsgs" -> {"count"}
    [] name = "Ioctl" -> {"value", "msgs"}
    [] name = "ReadVersion" -> {"versions"}
    [] OTHER -> {}

\* The ioctls whose output is written to the log as the pointer to it: the two
\* that read a voltage, and those the wrapper does not know.
Pointed == {"READ_VBATT", "READ_PROG_VOLTAGE", "UNK"}
\* The ioctls whose input is written, as bytes, a message or a number.
Passing == {"FIVE_BAUD_INIT", "FAST_INIT", "ADD_TO_FUNCT_MSG_LOOKUP_TABLE",
            "DELETE_FROM_FUNCT_MSG_LOOKUP_TABLE", "SET_POLL_RESPONSE", "BECOME_MASTER", "UNK"}

\* A call as the wrappers of PassThruLogger see it return: Open has no handle,
\* ReadMsgs sends as many messages as it says it has read, and only an ioctl has
\* the address of an output (0: none).  Of what a call passes in, "list" is a list of
\* parameters with their values, an array of bytes or messages, "what" the rest: it
\* tells texts apart.  GET_CONFIG tells the list it was passed, FAST_INIT a message,
\* FIVE_BAUD_INIT an array of bytes, if the SBYTE_ARRAY of its output has one.
Recorded(c) ==
  /\ c.name = "Open" => c.handle = 0
  /\ c.arrow \in Nat /\ c.size \in Nat /\ c.arrow <= c.size
  /\ c.told = [f \in DOMAIN Default |->
                IF f \in {"code"} \cup Outputs(c.name) THEN c.told[f] ELSE Default[f]]
  /\ IsSeq(c.told.msgs) /\ IsSeq(c.list)
  /\ c.name = "ReadMsgs" => c.told.count = Len(c.told.msgs)
  /\ c.address # 0 => c.name = "Ioctl"
  /\ c.what = "GET_CONFIG" => c.told.msgs = c.list
  /\ c.what = "FIVE_BAUD_INIT" => \A array \in Range(c.told.msgs) : array.bytes \in Seq(0..255)
  /\ c.name = "ReadVersion" => c.told.versions = [i \in 1..3 |-> c.told.versions[i]]

ASSUME RecordingsAssumption ==
  \A r \in Recordings : IsSeq(r) /\ \A i \in DOMAIN r : Recorded(r[i])

-----------------------------------------------------------------------------
(* The text of a call *)

Piece == [word |-> "", value |-> 0, msgs |-> <<>>]
Num(n) == [Piece EXCEPT !.value = n]
Word(w) == [Piece EXCEPT !.word = w]
List(ms) == [Piece EXCEPT !.word = "[", !.msgs = ms]

\* The 32 bits of a timestamp are a signed number to the window, negative from 2^31
\* microseconds on; TimeSpan.FromMilliseconds(ts/1000) rounds it towards zero.
MsgText(m) ==
  [m EXCEPT !.timestamp = IF @ >= 0 THEN @ \div 1000 ELSE -((-@) \div 1000)]

Quoted(v) == IF v = "" THEN Word("NULL") ELSE Word(v)

\* The values of parameters that the standard does not use are not written.
Unused == {"P1_MIN", "P2_MIN", "P2_MAX", "P3_MAX", "P4_MAX"}
ValueText(config) == IF config.param \in Unused THEN Word("{UNUSED}") ELSE Num(config.value)
\* The commas within [[param, value], ...] are commas like the others.
ConfigText(list) ==
  [n \in 1..(2 * Len(list)) |->
    IF n % 2 = 1 THEN Word(list[(n + 1) \div 2].param) ELSE ValueText(list[n \div 2])]

OpenArgs(c) == <<Word("NULL"), Num(c.told.id)>>
ConnectArgs(c) ==
  <<Num(c.handle), Word(c.what), Word(c.what), Word(c.what), Num(c.told.id)>>
ReadArgs(c) ==
  <<Num(c.handle), List([i \in DOMAIN c.told.msgs |-> MsgText(c.told.msgs[i])]),
    Num(c.told.count), Word(c.what)>>
WriteArgs(c) == <<Num(c.handle), List(c.list), Num(c.told.count), Word(c.what)>>
\* The number that the text of a byte begins with: two hexadecimal digits.
Digits(byte) ==
  CASE byte >= 160 -> 0
    [] byte < 160 /\ byte % 16 > 9 -> byte \div 16
    [] OTHER -> 10 * (byte \div 16) + (byte % 16)
BytesText(bytes) ==
  IF bytes = <<>> THEN Word("blank")
  ELSE [word |-> "bytes", value |-> Digits(bytes[1]), msgs |-> <<[bytes |-> bytes]>>]

\* writeParamInt((int)pOutput): the address of a voltage, not what is there.  What
\* the other ioctls leave at their output is not written at all.
OutputText(c) ==
  CASE c.what = "UNK" \/ (c.what \in Pointed /\ c.address # 0) -> Num(c.address)
    [] c.what = "FIVE_BAUD_INIT" /\ c.address # 0 ->
         IF c.told.msgs = <<>> THEN Word("{NULL}") ELSE BytesText(c.told.msgs[1].bytes)
    [] c.what = "FAST_INIT" /\ c.address # 0 -> [Word("{") EXCEPT !.msgs = c.told.msgs]
    [] OTHER -> Word("NULL")
IoctlArgs(c) ==
  <<Num(c.handle), Word(c.what)>>
  \o (CASE c.what \in {"GET_CONFIG", "SET_CONFIG"} /\ c.list # <<>> -> ConfigText(c.list)
        [] c.what \in Passing -> <<[Piece EXCEPT !.msgs = c.list]>>
        [] OTHER -> <<Word("NULL")>>)
  \o <<OutputText(c)>>
Braced(c) == [Word("{") EXCEPT !.msgs = c.list]
FilterArgs(c) ==
  <<Num(c.handle), Word(c.what), Braced(c), Braced(c),
    IF c.what = "FLOW_CONTROL_FILTER" THEN Braced(c) ELSE Word("NULL"), Num(c.told.id)>>
VersionArgs(c) == <<Num(c.handle)>> \o [i \in 1..3 |-> Quoted(c.told.versions[i])]

Args(c) ==
  CASE c.name = "Open" -> OpenArgs(c)
    [] c.name = "Connect" -> ConnectArgs(c)
    [] c.name = "ReadMsgs" -> ReadArgs(c)
    [] c.name = "WriteMsgs" -> WriteArgs(c)
    [] c.name = "Ioctl" -> IoctlArgs(c)
    [] c.name = "StartMsgFilter" -> FilterArgs(c)
    [] c.name = "StopMsgFilter" -> <<Num(c.handle), Word(c.what)>>
    [] c.name = "ReadVersion" -> VersionArgs(c)
    [] c.name \in {"Close", "Disconnect"} -> <<Num(c.handle)>>
    [] OTHER -> <<Num(c.handle), Word(c.what)>>  \* periodic messages, voltages, errors

Text(c) == [name |-> c.name, args |-> Args(c), code |-> c.told.code,
            arrow |-> c.arrow, size |-> c.size]

\* saveLogEntry(): a text equal to the last one raises its count.
Saved(log, text) ==
  IF log # <<>> /\ Last(log).text = text
  THEN [log EXCEPT ![Len(log)].count = @ + 1]
  ELSE Append(log, [text |-> text, count |-> 1])

Structured(calls) ==
  LET log[n \in 0..Len(calls)] ==
        IF n = 0 THEN <<>> ELSE Saved(log[n - 1], Text(calls[n]))
  IN log[Len(calls)]

-----------------------------------------------------------------------------
(* LogParser *)

ErrorTable ==
  {"STATUS_NOERROR", "ERR_NOT_SUPPORTED", "ERR_INVALID_CHANNEL_ID", "ERR_INVALID_PROTOCOL_ID",
   "ERR_NULL_PARAMETER", "ERR_INVALID_IOCTL_VALUE", "ERR_INVALID_FLAGS", "ERR_FAILED",
   "ERR_DEVICE_NOT_CONNECTED", "ERR_TIMEOUT", "ERR_INVALID_MSG", "ERR_EXCEEDED_LIMIT",
   "ERR_DEVICE_IN_USE", "ERR_INVALID_IOCTL_ID", "ERR_BUFFER_EMPTY", "ERR_BUFFER_FULL",
   "ERR_BUFFER_OVERFLOW", "ERR_CHANNEL_IN_USE", "ERR_INVALID_FILTER_ID",
   "ERR_NO_FLOW_CONTROL", "ERR_INVALID_BAUDRATE", "ERR_INVALID_DEVICE_ID"}
LookupError(name) == IF name \in ErrorTable THEN name ELSE "0xFFFFFFFF"

LookupTxFlag(names) ==
  IF names \in {{"ISO15765_FRAME_PAD"}, {"WAIT_P3_MIN_ONLY"}, {"ISO15765_ADDR_TYPE"}}
  THEN names ELSE {}
LookupProtocol(name) ==
  IF name \in {"J1850VPW", "J1850PWM", "ISO9141", "ISO14230", "CAN", "ISO15765",
               "SCI_A_ENGINE", "SCI_A_TRANS", "SCI_B_ENGINE", "SCI_B_TRANS"}
  THEN name ELSE "0"
LookupIoctl(name) ==
  IF name \in {"GET_CONFIG", "SET_CONFIG", "READ_VBATT", "FIVE_BAUD_INIT", "FAST_INIT",
               "CLEAR_TX_BUFFER", "CLEAR_RX_BUFFER", "CLEAR_PERIODIC_MSGS", "CLEAR_MSG_FILTERS",
               "CLEAR_FUNCT_MSG_LOOKUP_TABLE", "ADD_TO_FUNCT_MSG_LOOKUP_TABLE",
               "DELETE_FROM_FUNCT_MSG_LOOKUP_TABLE", "READ_PROG_VOLTAGE"}
  THEN name ELSE "0"

\* Two digits for the hours, two for the minutes, two for the seconds, and what is
\* after the point: with a sign before them the minutes are read as seconds.
ParseTime(ms) == IF ms >= 0 THEN ms * 1000 ELSE ((-ms) \div 60000) * 1000000

\* RxStatus is read as a number only, and its flags are written as names.
ParseSingleMessage(m) ==
  [m EXCEPT !.protocol = LookupProtocol(@), !.rxStatus = {}, !.txFlags = LookupTxFlag(@),
            !.timestamp = ParseTime(@)]
ParseMessages(list) ==
  [i \in {n \in DOMAIN list : n <= MaxMsgs} |-> ParseSingleMessage(list[i])]

NoEvent == [type |-> "none", handle |-> 0, code |-> "", count |-> 1, id |-> 0, out |-> 0,
            msgs |-> <<>>, ioctl |-> "0", known |-> FALSE, hasOutput |-> FALSE, output |-> 0,
            versions |-> <<"", "", "">>]

ParseOpen(ev, args) == [ev EXCEPT !.handle = args[2].value]
ParseHandle(ev, args) == [ev EXCEPT !.handle = args[1].value]
ParseConnect(ev, args) == [ev EXCEPT !.handle = args[1].value, !.id = args[5].value]
ParseTransfer(ev, args) ==
  [ev EXCEPT !.handle = args[1].value, !.msgs = ParseMessages(args[2].msgs),
             !.out = args[3].value]

\* The input ends at its first comma, which is inside the first pair of a
\* list: the list stays empty and the value of the pair is the output.  Whatever
\* else is there for an output is read as a number.
ParseIoctl(ev, args) ==
  LET name == args[2].word
      output == args[4]
  IN [ev EXCEPT !.handle = args[1].value,
        !.ioctl = IF name = "UNK" THEN name ELSE LookupIoctl(name),
        !.known = LookupIoctl(name) # "0",
        !.hasOutput = output.word \notin {"NULL", "blank"}, !.output = output.value]

\* Without a flow control message the id is looked for in the word NULL.
ParseFilterStart(ev, args) ==
  [ev EXCEPT !.handle = args[1].value,
             !.id = IF args[5].word = "{" THEN args[6].value ELSE args[5].value]

\* A version that is no string ends the search for the others.
ParseVersion(ev, args) ==
  LET known(i) == \A j \in 1..i : args[j + 1].word # "NULL"
  IN [ev EXCEPT !.handle = args[1].value,
        !.versions = [i \in 1..3 |-> IF known(i) THEN args[i + 1].word ELSE ""]]

ParseCallText(text, ev) ==
  CASE text.name = "Open" -> <<ParseOpen(ev, text.args)>>
    [] text.name \in {"Close", "Disconnect", "StopMsgFilter"} -> <<ParseHandle(ev, text.args)>>
    [] text.name = "Connect" -> <<ParseConnect(ev, text.args)>>
    [] text.name \in {"WriteMsgs", "ReadMsgs"} -> <<ParseTransfer(ev, text.args)>>
    [] text.name = "Ioctl" -> <<ParseIoctl(ev, text.args)>>
    [] text.name = "StartMsgFilter" -> <<ParseFilterStart(ev, text.args)>>
    [] text.name = "ReadVersion" -> <<ParseVersion(ev, text.args)>>
    [] OTHER -> <<>>

\* jsonDecodeString(): a text too long for the buffer loses its end.
Decoded(text) ==
  [text EXCEPT !.name = IF text.arrow > TextSize THEN "cut" ELSE @,
               !.code = IF text.size > TextSize THEN "cut" ELSE @]

ParseEntry(entry) ==
  LET text == Decoded(entry.text)
  IN ParseCallText(text, [NoEvent EXCEPT !.type = text.name, !.code = LookupError(text.code),
                                         !.count = entry.count])

ParseJsonFile(log) ==
  LET parsed[n \in 0..Len(log)] ==
        IF n = 0 THEN <<>> ELSE parsed[n - 1] \o ParseEntry(log[n])
  IN parsed[Len(log)]

-----------------------------------------------------------------------------
(* ReplayEngine *)

Init ==
  /\ recording \in Recordings
  /\ events = ParseJsonFile(Structured(recording))
  /\ cursor = 1 /\ dedupIndex = 0 /\ dedupRemaining = 0
  /\ asked = [type |-> "none", handle |-> 0] /\ found = 0 /\ answer = Default
  /\ given = <<>> /\ repeated = 0

EndRun == dedupRemaining' = 0 /\ dedupIndex' = IF dedupRemaining > 0 THEN 0 ELSE dedupIndex

\* The first event from the cursor on that fits, and the repeats it has.
TakeNext(candidates) ==
  IF candidates = {} THEN found' = 0 /\ EndRun /\ UNCHANGED cursor
  ELSE LET i == CHOOSE i \in candidates : \A j \in candidates : i <= j
       IN /\ found' = i /\ cursor' = i + 1
          /\ IF events[i].count = 1 THEN EndRun
             ELSE dedupIndex' = i /\ dedupRemaining' = events[i].count - 1

Ahead(type, handle) ==
  {i \in cursor..Len(events) : events[i].type = type /\ events[i].handle = handle}

\* A run of repeats answers the calls of its type and handle; the first call
\* of another kind ends it.
MInRun(type, handle) ==
  dedupIndex > 0 /\ events[dedupIndex].type = type /\ events[dedupIndex].handle = handle
InRun(type, handle) ==
  dedupRemaining > 0 /\ events[dedupIndex].type = type /\ events[dedupIndex].handle = handle
MTakeRepeat == found' = dedupIndex /\ UNCHANGED engine
TakeRepeat ==
  /\ found' = dedupIndex /\ dedupRemaining' = dedupRemaining - 1
  /\ UNCHANGED <<cursor, dedupIndex>>

FindNextMatch(type, handle) ==
  IF InRun(type, handle) THEN TakeRepeat
  ELSE TakeNext(Ahead(type, handle))

\* ioctl(): a run of repeats does not ask for the ioctl.
FindIoctl(handle, id) ==
  IF InRun("Ioctl", handle) THEN TakeRepeat
  ELSE TakeNext({i \in Ahead("Ioctl", handle) : events[i].ioctl = id \/ ~events[i].known})

Event == events[found']
Missed == found' = 0

\* Open is looked for under handle 0, and no device has that id.
OpenDevice ==
  /\ FindNextMatch("Open", 0)
  /\ answer' = IF Missed THEN [Default EXCEPT !.id = 1]
               ELSE [Default EXCEPT !.code = Event.code, !.id = Event.handle]

\* closeDevice(), disconnect(), stopMsgFilter()
End(name, handle) ==
  /\ FindNextMatch(name, handle)
  /\ answer' = IF Missed THEN Default ELSE [Default EXCEPT !.code = Event.code]

ConnectChannel(handle) ==
  /\ FindNextMatch("Connect", handle)
  /\ answer' = IF Missed THEN [Default EXCEPT !.id = 2]
               ELSE [Default EXCEPT !.code = Event.code, !.id = Event.id]

ReadMsgs(handle) ==
  /\ FindNextMatch("ReadMsgs", handle)
  /\ answer' = IF Missed THEN [Default EXCEPT !.code = "ERR_BUFFER_EMPTY"]
               ELSE [Default EXCEPT !.code = Event.code, !.count = Event.out,
                       !.msgs = SubSeq(Event.msgs, 1,
                                  IF Event.out < Len(Event.msgs) THEN Event.out
                                  ELSE Len(Event.msgs))]

WriteMsgs(handle, number) ==
  /\ FindNextMatch("WriteMsgs", handle)
  /\ answer' = IF Missed THEN [Default EXCEPT !.count = number]
               ELSE [Default EXCEPT !.code = Event.code, !.count = Event.out]

Ioctl(handle, id, output) ==
  /\ FindIoctl(handle, id)
  /\ answer' = IF Missed THEN Default
               ELSE [Default EXCEPT !.code = Event.code,
                       !.value = IF output /\ Event.hasOutput THEN Event.output ELSE Unwritten]

StartMsgFilter(handle) ==
  /\ FindNextMatch("StartMsgFilter", handle)
  /\ answer' = IF Missed THEN [Default EXCEPT !.id = 1]
               ELSE [Default EXCEPT !.code = Event.code, !.id = Event.id]

\* A repeat leaves a version it does not have to the caller's buffer.
ReadVersion(handle, wanted) ==
  LET defaults == <<"0.0.0", "1.0.0", "04.04">>
      version(i) == CASE ~wanted[i] -> ""
                      [] wanted[i] /\ ~Missed /\ Event.versions[i] # "" -> Event.versions[i]
                      [] wanted[i] /\ ~Missed /\ Event.versions[i] = ""
                           /\ InRun("ReadVersion", handle) -> ""
                      [] OTHER -> defaults[i]
  IN /\ FindNextMatch("ReadVersion", handle)
     /\ answer' = [Default EXCEPT !.code = IF Missed THEN @ ELSE Event.code,
                     !.versions = [i \in 1..3 |-> version(i)]]

Answer(c) ==
  \/ c.name = "Open" /\ OpenDevice
  \/ c.name \in {"Close", "Disconnect", "StopMsgFilter"} /\ End(c.name, c.handle)
  \/ c.name = "Connect" /\ ConnectChannel(c.handle)
  \/ c.name = "ReadMsgs" /\ ReadMsgs(c.handle)
  \/ c.name = "WriteMsgs" /\ WriteMsgs(c.handle, c.told.count)
  \/ c.name = "Ioctl" /\ Ioctl(c.handle, c.what, c.address # 0)
  \/ c.name = "StartMsgFilter" /\ StartMsgFilter(c.handle)
  \/ c.name = "ReadVersion"
       /\ ReadVersion(c.handle, [i \in 1..3 |-> c.told.versions[i] # ""])
  \/ c.name = "StopPeriodicMsg"  \* one of the calls the engine has no part in
       /\ answer' = Default /\ found' = 0 /\ UNCHANGED engine

(* The client repeats the session or makes its calls in another order.     *)
ClientCalls(i) ==
  /\ events # <<>>
  /\ i # repeated + 1 => Len(given) < MaxCalls
  /\ Answer(recording[i])
  /\ asked' = [type |-> recording[i].name, handle |-> recording[i].handle]
  /\ repeated' = IF i = repeated + 1 THEN i ELSE -1
  /\ given' = IF found' = 0 THEN given ELSE Append(given, found')
  /\ UNCHANGED <<recording, events>>

Next == \E i \in DOMAIN recording : ClientCalls(i)
Spec == Init /\ [][Next]_vars
-----------------------------------------------------------------------------
(* An event answers calls of its own kind only, no more calls than it was  *)
(* recorded for, and never after a later event has answered: whatever the  *)
(* client calls, the answers come in the order of the log.                 *)
(* findNextMatch() and the searches of readMsgs() and ioctl().             *)
AnswersInOrder ==
  /\ found # 0 => events[found].type = asked.type /\ events[found].handle = asked.handle
  /\ \A i \in 1..(Len(given) - 1) : given[i] <= given[i + 1]
  /\ \A e \in Range(given) : Cardinality({i \in DOMAIN given : given[i] = e}) <= events[e].count

(* What the round trip through the text keeps of an answer: not the codes  *)
(* missing from lookupError(), the id of a filter without flow control, a  *)
(* version after one that was not asked for, the error of a periodic       *)
(* message, which the engine has no part in.                               *)
Keeps(c) ==
  /\ c.told.code \in ErrorTable
  /\ c.name = "StartMsgFilter" => c.what = "FLOW_CONTROL_FILTER"
  /\ c.name = "ReadVersion" => \A i \in 1..3 : c.told.versions[i] \notin {"", "NULL"}
  /\ c.name = "StopPeriodicMsg" => c.told.code = "STATUS_NOERROR"

\* What a repeated ioctl writes over the four bytes at the output of its caller: for
\* a voltage the address it had, for a list its first value, and over the message of
\* FAST_INIT a zero, over the SBYTE_ARRAY of FIVE_BAUD_INIT the digits its text begins
\* with.
Overwritten(c) ==
  IF c.address = 0 THEN Unwritten
  ELSE CASE c.what \in Pointed -> c.address
         [] c.what \in {"GET_CONFIG", "SET_CONFIG"} /\ c.list # <<>> -> ValueText(c.list[1]).value
         [] c.what = "FAST_INIT" -> 0
         [] c.what = "FIVE_BAUD_INIT" ->
              IF c.told.msgs = <<>> THEN 0
              ELSE IF c.told.msgs[1].bytes = <<>> THEN Unwritten ELSE Digits(c.told.msgs[1].bytes[1])
         [] OTHER -> Unwritten

\* Of a message are lost its receive status, all flags but a single known one, the
\* microseconds, a protocol without a name, and, from 2^31 microseconds on, its time;
\* of an ioctl all that it tells.
Rounded(c) ==
  [c.told EXCEPT !.msgs = IF c.name = "Ioctl" THEN <<>>
                          ELSE [i \in DOMAIN @ |-> ParseSingleMessage(MsgText(@[i]))],
                 !.value = Overwritten(c)]

\* Open succeeded with the id the engine assumes, and no call was dropped.
Replayable ==
  \A i \in DOMAIN recording :
    /\ recording[i].name = "Open" =>
         recording[i].told.id = 1 /\ recording[i].told.code = "STATUS_NOERROR"
    /\ recording[i].size <= TextSize
    /\ recording[i].name = "ReadMsgs" => Len(recording[i].told.msgs) <= MaxMsgs

(* A client that repeats the recorded session is answered as the recorded  *)
(* client was, call by call: merging the repeats, parsing the texts and    *)
(* walking the events loses nothing but what Keeps and Rounded name.       *)
(* saveLogEntry(), LogParser::parseCallText() and ReplayEngine together.   *)
ReplayFaithful ==
  repeated > 0 /\ Replayable /\ Keeps(recording[repeated])
    => answer = Rounded(recording[repeated])
=============================================================================
