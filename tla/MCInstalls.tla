----------------------------- MODULE MCInstalls -----------------------------
(* Instances of Installs for TLC: two installations of the offering, a mail  *)
(* and two processors, next to a request or two of customers.                *)
EXTENDS Installs, TLC

Symmetry == Permutations(Installations) \cup Permutations(Workers) \cup Permutations(Req)
=============================================================================
