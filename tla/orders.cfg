CONSTANTS
    Vendors <- MCVendors
    LineTotal <- MCLineTotal
    Asked <- SliceStatus
    Req = {r1, r2}
SPECIFICATION Spec
SYMMETRY ReqSymmetry
INVARIANTS
    TypeOK
    FinalStatusEarned PlacedMeansUntouched CancelledIsOwed
    RollupExact RefundOncePerCancel DeadlockHasCancel
PROPERTY OwedStays
