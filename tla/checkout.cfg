CONSTANTS
    Offerings <- MCOfferings
    NeedsAddress <- MCNeedsAddress
    CartIds = {c1, c2}
    LineIds = {l1, l2}
    AddressIds = {a1}
    OrderIds = {o1, o2}
    MaxQty = 2
    Req = {r1, r2}
SPECIFICATION Spec
SYMMETRY KeySymmetry
INVARIANTS
    OneOpenCart OrderDeliverable OrderIsItsCart
