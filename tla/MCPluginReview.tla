--------------------------- MODULE MCPluginReview ---------------------------
(* Instances of PluginReview for TLC: a scope of each risk level and keys    *)
(* enough for two overlapping declarations, one of them of two scopes.       *)
EXTENDS PluginReview, TLC

Symmetry == Permutations(Req) \cup Permutations(Reviewers) \cup Permutations(CapRows)
=============================================================================
