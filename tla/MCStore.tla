------------------------------- MODULE MCStore -------------------------------
(* Instances of Store for TLC: two cities, so that assignments can differ, and *)
(* two keys for the plugin of a category, so that two creations can meet.      *)
EXTENDS Store, TLC

Symmetry == Permutations(Req) \cup Permutations(CityIds) \cup Permutations(Names)
              \cup Permutations(PluginIds)
=============================================================================
