CONSTANTS
    CityIds = {k1, k2}
    Names = {n1, n2}
    Pincodes = {p1}
    PluginIds = {j1, j2}
    Req = {r1, r2}
    AfterOverlap = FALSE
SPECIFICATION Spec
SYMMETRY Symmetry
INVARIANT StoreSound
PROPERTIES StaysServed AsAsked
CHECK_DEADLOCK FALSE
