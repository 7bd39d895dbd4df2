----------------------------- MODULE MCCheckout -----------------------------
(* Instances of Checkout for TLC: two offerings, one of which is shipped;   *)
(* keys of the same table are interchangeable.                              *)
EXTENDS Checkout, TLC

MCOfferings == {"book", "course"}
MCNeedsAddress == {"book"}

KeySymmetry ==
    Permutations(CartIds) \cup Permutations(LineIds) \cup
    Permutations(AddressIds) \cup Permutations(OrderIds) \cup Permutations(Req)
=============================================================================
