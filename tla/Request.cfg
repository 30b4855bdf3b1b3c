SPECIFICATION FairSpec
CONSTANTS
    r1 = r1
    r2 = r2
    g1 = g1
    None = None
    Rqs <- TwoRqs
    Tags <- OneTag
    Refusable <- OneRq
CHECK_DEADLOCK FALSE
INVARIANTS
    TimeoutOwnsRequest
    CompletionHeard
    WaitingNotStarted
PROPERTIES
    LostIsTimedOut
