------------------------------- MODULE MCWireTap -------------------------------
EXTENDS WireTap

AllFunctions == Functions
FirstForms == UNION {Calls(f, 0) : f \in AllFunctions} \cup Calls("Close", 9)
Later ==
  {[f |-> "ReadMsgs", args |-> <<Number, Ref, Arr(1), Msg, Ref, InOut, Number>>, code |-> 0]}
===============================================================================
