CONSTANTS
    Reviewers = {u1, u2}
    Scopes = {payments, profile, reports}
    HighRisk = {payments}
    MediumRisk = {profile}
    CapRows = {k1, k2, k3}
    Req = {r1, r2}
SPECIFICATION Spec
SYMMETRY Symmetry
INVARIANTS
    ApprovedIsActive
    ClaimHolderDecides CapabilitiesJudged
CHECK_DEADLOCK FALSE
