----------------------------- MODULE MCSessions -----------------------------
(* Instances of Sessions for TLC: two passwords, two sessions, one reset,   *)
(* and refresh tokens enough for two logins, or a login and a rotation.     *)
EXTENDS Sessions, TLC

Symmetry == Permutations(Req) \cup Permutations(SessionIds)
              \cup Permutations(ResetIds) \cup Permutations(Passwords)
=============================================================================
