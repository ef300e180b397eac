------------------------------- MODULE MCElmDevice -------------------------------
EXTENDS ElmDevice

MCFilterKinds ==
  {[type |-> "FLOW_CONTROL", hits |-> {}, pattern |-> 1],
   [type |-> "PASS", hits |-> {1}, pattern |-> 1],
   [type |-> "BLOCK", hits |-> {1}, pattern |-> 1]}
MCSymmetry == Permutations(Threads)
=============================================================================
