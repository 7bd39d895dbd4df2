------------------------------ MODULE MCReturns ------------------------------
(* Instances of Returns for TLC: two returns of a line that costs 2, so that *)
(* part and all of it can be refunded.                                       *)
EXTENDS Returns, TLC

Symmetry == Permutations(Req) \cup Permutations(ReturnIds)
=============================================================================
