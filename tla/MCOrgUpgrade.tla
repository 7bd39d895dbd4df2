---------------------------- MODULE MCOrgUpgrade ----------------------------
(* Instances of OrgUpgrade for TLC: two organizations that ask for the same  *)
(* slug, or one that asks for two.                                           *)
EXTENDS OrgUpgrade, TLC
=============================================================================
