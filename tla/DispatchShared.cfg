SPECIFICATION Spec
CONSTANTS
    h1 = h1
    h2 = h2
    t1 = t1
    Hctxs <- TwoHctxs
    Tasks <- OneTask
    Requests = {1, 2, 10}
    HctxOf <- OnBoth
    NTags = 1
    WaitQueues = 2
    Elevators = {TRUE}
    Direct = FALSE
    Troubles <- NoDevBusy
    MaxTrouble = 1
CHECK_DEADLOCK FALSE
INVARIANTS
    RestartCounted
    QuietMeansDone
CONSTRAINT
    ThreeAtOnce
