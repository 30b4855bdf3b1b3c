SPECIFICATION Spec
CONSTANTS
    r1 = r1
    r2 = r2
    g1 = g1
    None = None
    Rqs <- OneRq
    Tags <- OneTag
    Refusable <- NoRq
CHECK_DEADLOCK FALSE
INVARIANTS
    OnlyLateTimeOut
