---------------------------- MODULE MCIsoTpLink ----------------------------
(* Small instances of IsoTpLink for TLC. *)
EXTENDS IsoTpLink

AnAddress == {<<224, 232>>}

\* The theorems about reception and delivery are about runs like these (with one
\* slot there is never a second session).
ASSUME RunIsProved ==
    OwnIds /\ OneBlockSize /\ ByteBlockSizes /\ OneAddress
    /\ "OVFLW" \notin FlowStatuses /\ NSlots = 1
=============================================================================
