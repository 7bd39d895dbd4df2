------------------------------ MODULE MCCatalog ------------------------------
(* Instances of Catalog for TLC: the listing's own offering and a plan, and *)
(* two versions of the listing's text, which are interchangeable.           *)
EXTENDS Catalog, TLC

MCOfferings == {"Standard", "Pro"}

ReqSymmetry == Permutations(Req) \cup Permutations(Texts)
=============================================================================
