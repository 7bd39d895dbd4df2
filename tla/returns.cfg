CONSTANTS
    ReturnIds = {k1, k2}
    LineTotal = 2
    MaxPaid = 4
    Req = {r1, r2}
SPECIFICATION Spec
SYMMETRY Symmetry
INVARIANTS
    RefundHasAmount PaidAsApproved
CHECK_DEADLOCK FALSE
