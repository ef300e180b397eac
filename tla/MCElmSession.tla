---------------------------- MODULE MCElmSession ----------------------------
(* The faults of the run of ElmSession.                                    *)
EXTENDS ElmSession

\* What the session survives, or gives up on with an error: a late answer over
\* any command but a request, a silent reset over any, and LVRESET instead of
\* any answer but to the optional commands of the addressing block.
Survived ==
    ({"late"} \X (Commands \ {"REQ"}))
        \cup ({"brownout"} \X Commands)
        \cup ({"lvreset"} \X (Commands \ {"ATSH", "ATCRA", "ATFCSM1"}))

\* What the properties expect of the adapter.
ASSUME RunIsMannered == Mannered /\ Obedient

=============================================================================
