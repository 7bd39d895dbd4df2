CONSTANTS
    Offerings <- MCOfferings
    Texts = {t1, t2}
    Req = {r1, r2}
SPECIFICATION Spec
SYMMETRY ReqSymmetry
INVARIANTS
    OnSaleWasSubmitted RejectedIsConsumer
    VisibleIsReviewed RejectedIsOffSale
