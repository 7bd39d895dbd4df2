CONSTANTS
    Installations = {i1, i2}
    Secrets = {s1}
    Lines = {l1}
    Req = {r1, r2}
    Workers = {w1, w2}
SPECIFICATION Spec
SYMMETRY Symmetry
INVARIANTS
    OneInstallation OutboxSound
PROPERTIES
    CancelStays Delivers
CHECK_DEADLOCK FALSE
