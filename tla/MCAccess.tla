------------------------------ MODULE MCAccess ------------------------------
(* Instances of Access for TLC: the founder and another user, so that each   *)
(* can remove the other, and a service account.                              *)
EXTENDS Access, TLC

Symmetry == Permutations(Req) \cup Permutations(KeyIds)
=============================================================================
