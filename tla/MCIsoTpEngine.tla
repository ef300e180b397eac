--------------------------- MODULE MCIsoTpEngine ---------------------------
(* Small instances of IsoTpEngine for TLC. *)
EXTENDS IsoTpEngine

AnAddress == {<<224, 232>>}
=============================================================================
