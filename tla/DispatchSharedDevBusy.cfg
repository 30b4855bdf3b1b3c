SPECIFICATION Spec
CONSTANTS
    h1 = h1
    h2 = h2
    t1 = t1
    Hctxs <- TwoHctxs
    Tasks <- OneTask
    Requests = {1, 2, 10, 11}
    HctxOf <- OnBoth
    NTags = 4
    WaitQueues = 8
    Elevators = {TRUE}
    Direct = FALSE
    Troubles <- Refusals
    MaxTrouble = 3
CHECK_DEADLOCK FALSE
INVARIANT
    QuietMeansDone
CONSTRAINT
    InTurn
