------------------------------- MODULE MCReplayLog -------------------------------
EXTENDS ReplayLog

Call(name, handle, told) ==
  [name |-> name, handle |-> handle, what |-> "", list |-> <<>>, address |-> 0,
   told |-> told, arrow |-> 5, size |-> 9]
Told(code) == [Default EXCEPT !.code = code]
NoError == Told("STATUS_NOERROR")

Message(protocol, ts, rx, tx) ==
  [protocol |-> protocol, timestamp |-> ts, rxStatus |-> rx, txFlags |-> tx]
Frames == <<Message("CAN", 8500, {}, {"ISO15765_FRAME_PAD"}),
            Message("FD_ISO15765", -2146999500, {"START_OF_MESSAGE"}, {"ISO15765_FRAME_PAD", "CAN_29BIT_ID"})>>
Received(n) == Call("ReadMsgs", 2, [NoError EXCEPT !.count = n, !.msgs = SubSeq(Frames, 1, n)])
Sent(flags) ==
  [Call("WriteMsgs", 2, [NoError EXCEPT !.count = 1])
     EXCEPT !.list = <<Message("ISO15765", 0, {}, flags)>>]
ReadVolts(v, pointer) ==
  [Call("Ioctl", 1, [NoError EXCEPT !.value = v])
     EXCEPT !.what = "READ_VBATT", !.address = pointer]
Values == <<[param |-> "LOOPBACK", value |-> 1], [param |-> "DATA_RATE", value |-> 8]>>
Limits == <<[param |-> "P1_MIN", value |-> 7]>>
Array(bytes) == <<[bytes |-> bytes]>>
SetConfig(list, pointer) == [Call("Ioctl", 2, NoError)
                               EXCEPT !.what = "SET_CONFIG", !.list = list, !.address = pointer]
GetConfig == [Call("Ioctl", 2, [NoError EXCEPT !.msgs = Values])
                EXCEPT !.what = "GET_CONFIG", !.list = Values]
Unknown(pointer) ==
  [Call("Ioctl", 1, Told("ERR_NOT_SUPPORTED")) EXCEPT !.what = "UNK", !.address = pointer]
\* The output has no array, an empty one, or the answer of an ECU: 55 EF 8F.
FiveBaud(arrays, number) ==
  [Call("Ioctl", 2, [NoError EXCEPT !.msgs = arrays, !.value = number])
     EXCEPT !.what = "FIVE_BAUD_INIT", !.list = Array(<<51>>), !.address = 31]
FastInit == [Call("Ioctl", 2, [NoError EXCEPT !.msgs = SubSeq(Frames, 1, 1), !.value = 4])
               EXCEPT !.what = "FAST_INIT", !.list = SubSeq(Frames, 1, 1), !.address = 31]
AddToTable(bytes) == [Call("Ioctl", 2, NoError)
                        EXCEPT !.what = "ADD_TO_FUNCT_MSG_LOOKUP_TABLE", !.list = Array(bytes)]
Filter(type, id) ==
  [Call("StartMsgFilter", 2, [NoError EXCEPT !.id = id]) EXCEPT !.what = type]
Versions(fw) == Call("ReadVersion", 1, [NoError EXCEPT !.versions = <<fw, "1.2", "04.04">>])
Opened(id) == Call("Open", 0, [NoError EXCEPT !.id = id])

Menu ==
  {Call("Connect", 1, [NoError EXCEPT !.id = 3]),
   Call("Connect", 1, Told("ERR_INVALID_BAUDRATE")),
   Call("Disconnect", 2, NoError), Call("Close", 1, NoError),
   Received(0), Received(1), Received(2), Call("ReadMsgs", 2, Told("ERR_BUFFER_EMPTY")),
   [Received(2) EXCEPT !.arrow = 15, !.size = 19],
   Sent({}), Sent({"ISO15765_FRAME_PAD"}),
   [Call("WriteMsgs", 2, Told("ERR_TIMEOUT")) EXCEPT !.arrow = 8, !.size = 11],
   ReadVolts(12, 31), ReadVolts(12, 32), ReadVolts(13, 31),
   SetConfig(Values, 0), SetConfig(Values, 31), SetConfig(Limits, 31), GetConfig,
   Unknown(0), Unknown(31),
   FiveBaud(<<>>, 0), FiveBaud(Array(<<>>), 0), FiveBaud(Array(<<85, 239, 143>>), 3), FastInit,
   AddToTable(<<8>>), AddToTable(<<9>>),
   Filter("PASS_FILTER", 5), Filter("FLOW_CONTROL_FILTER", 5),
   Call("StopMsgFilter", 2, Told("ERR_INVALID_MSG_ID")),
   Versions("3.1"), Versions(""), Call("StopPeriodicMsg", 2, NoError),
   Call("StopPeriodicMsg", 2, Told("ERR_FAILED"))}

MCRecordings ==
  {<<Opened(1), a, b, c>> : a \in Menu, b \in Menu, c \in Menu}
  \cup {<<Opened(1232), a, a>> : a \in Menu}
  \cup {<<Opened(1), a, a, b, b, a, Call("Close", 1, NoError), Opened(1), b>> :
          a \in Menu, b \in Menu}
=============================================================================
