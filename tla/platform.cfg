CONSTANTS
    People = {p1, p2}
    First = p1
    Req = {r1}
SPECIFICATION Spec
INVARIANTS
    SuperAdminStays
CHECK_DEADLOCK FALSE
