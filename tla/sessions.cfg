CONSTANTS
    Passwords = {old, new}
    SessionIds = {s1, s2}
    ResetIds = {t1}
    MaxTokens = 2
    Req = {r1, r2}
SPECIFICATION Spec
SYMMETRY Symmetry
INVARIANTS
    InactiveHasNoSession RefreshedOnce PasswordReplaced
PROPERTY RevokedForGood
CHECK_DEADLOCK FALSE
