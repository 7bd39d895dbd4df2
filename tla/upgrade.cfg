CONSTANTS
    Orgs = {o1, o2}
    Slugs = {s1, s2}
    Requests = {q1, q2}
    MAX_ATTEMPTS = 2
SPECIFICATION FairSpec
INVARIANTS
    CompletedIsDone FailedIsUndone
PROPERTY WorkflowEnds
CHECK_DEADLOCK FALSE
