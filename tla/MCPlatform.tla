----------------------------- MODULE MCPlatform -----------------------------
(* An instance of Platform for TLC: the first super admin and another person, *)
(* who register, join the team, hand the role to each other, and suspend,     *)
(* block and remove each other.                                              *)
EXTENDS Platform, TLC
=============================================================================
