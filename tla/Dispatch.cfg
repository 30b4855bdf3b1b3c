SPECIFICATION FairSpec
CONSTANTS
    h1 = h1
    h2 = h2
    t1 = t1
    Hctxs <- OneHctx
    Tasks <- OneTask
    Requests = {1, 2, 3}
    HctxOf <- OnFirst
    NTags = 2
    WaitQueues = 1
    Elevators = {TRUE, FALSE}
    Direct = TRUE
    Troubles <- AnyTrouble
    MaxTrouble = 2
CHECK_DEADLOCK FALSE
INVARIANTS
    OnePlace
    DriverHasTag
    WaitingHoldsNoTag
    QuietMeansDone
PROPERTIES
    NoDispatchWhenQuiesced
    NoStall
CONSTRAINT
    Eventful
