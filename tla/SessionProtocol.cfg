\* No bound is needed: a run of a client sends at most ten messages.
SPECIFICATION FairSpec
CHECK_DEADLOCK FALSE
INVARIANTS
    EndsAgree
    NeverSurprised
    StoredOnce
PROPERTY BothEnd
