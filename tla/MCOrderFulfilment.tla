------------------------- MODULE MCOrderFulfilment -------------------------
(* Instances of OrderFulfilment for TLC: an order over two vendors whose   *)
(* totals differ.                                                          *)
EXTENDS OrderFulfilment, TLC

MCVendors == {"v1", "v2"}
MCLineTotal == [v \in MCVendors |-> IF v = "v1" THEN 1 ELSE 2]

\* Request slots are interchangeable.
ReqSymmetry == Permutations(Req)
=============================================================================
