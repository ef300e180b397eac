---------------------------- MODULE MCReplaySimulator ----------------------------
EXTENDS ReplaySimulator

\* Every connect asks for ISO15765.  Ecm answers that protocol and wants the id of
\* the device; its first reply does not match, nor is the second entry of its
\* periodic list usable.  Turns takes every connect and starts nothing with it;
\* Other takes none.
Ecm ==
  [match |-> [protocol |-> "ISO15765"], preferredChannelId |-> 1,
   replies |-> <<[match |-> [data |-> <<1, 2>>, mode |-> "exact"], response |-> [data |-> <<1>>]],
                 [match |-> [data |-> <<1, 2>>],
                  response |-> [data |-> <<3>>, delayMs |-> 1]]>>,
   periodic |-> <<[msg |-> [data |-> <<5>>], intervalMs |-> 1], [intervalMs |-> 1]>>]
Turns ==
  [replies |-> <<[match |-> [data |-> <<1, 2, 3>>, mode |-> "exact"],
                  response |-> [sequence |-> <<<<1>>, <<4>>>>, timeWindowMs |-> 1]]>>,
   periodic |-> <<[msg |-> [data |-> <<5>>], startOn |-> "write"]>>]
Other == [match |-> [protocol |-> "CAN"], preferredChannelId |-> 2]

Ioctls == <<[key |-> "READ_VBATT", scope |-> "device"], [key |-> "SET_CONFIG", scope |-> "channel"],
            [key |-> "0x10ECB", return |-> "ERR_INVALID_IOCTL_ID"]>>
Move(event, from, to) == [event |-> event, from |-> from, to |-> to]
Cycle == <<Move("PassThruOpen", "CLOSED", "OPENED"), Move("PassThruConnect", "OPENED", "OPENED"),
           Move("PassThruClose", "OPENED", "CLOSED")>>

MCScenarios ==
  {[targets |-> <<Other, Ecm>>, ioctls |-> Ioctls, emitEcho |-> TRUE,
    states |-> [initial |-> "CLOSED", transitions |-> Cycle]],
   [targets |-> <<Turns>>, ioctls |-> Ioctls,
    states |-> [initial |-> "READY", transitions |-> <<Move("PassThruOpen", "READY", "OPENED")>>]],
   [targets |-> <<Other>>, ioctls |-> Ioctls, emitEcho |-> TRUE],
   [ioctls |-> <<[key |-> "READ_VBATT", return |-> "ERR_UNHEARD_OF"]>>]}
MCParams == {[protocol |-> "ISO15765"]}
MCWrites == {<<<<1, 2, 3>>>>}
=============================================================================
