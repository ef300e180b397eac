--------------------------- MODULE MCAutoConnect ---------------------------
(* Driver numberings and overlaps for the runs of AutoConnect.             *)
EXTENDS AutoConnect, TLC

\* Two devices, 10 and 20, with channel numbers of their own: room for a forgotten
\* channel, the client's and the logger's on the first.
Apart == [d \in Devices |-> IF d = 10 THEN 1..3 ELSE 4..5]

\* One pool of numbers for all devices, reused after a disconnect.
Shared == [d \in Devices |-> 1..3]

\* A client that probes from several threads, and one that also connects.
Probes == {<<"read", "read">>}
ProbesAndConnects == Probes \cup {<<"read", "connect">>, <<"connect", "read">>}

\* The threads are alike.
MCSymmetry == Permutations(Threads)

\* The run's client and driver are those of the theorems.
ASSUME RunIsPlain == ProbesOnly /\ OneChannel /\ OwnNumbers

=============================================================================
