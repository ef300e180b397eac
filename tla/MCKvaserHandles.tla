--------------------------- MODULE MCKvaserHandles ---------------------------
(***************************************************************************)
(* Two devices in turn, two slots, three channels in succession: a slot is *)
(* used again while a thread of its former channel may still run.          *)
(***************************************************************************)
EXTENDS KvaserHandles

TwoSlots == 1..2
=============================================================================
