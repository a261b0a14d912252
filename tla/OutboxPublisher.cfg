CONSTANTS
    Events = {e1, e2}
    Workers = {w1, w2}
    BatchSize = 2
    MaxFaults = 2
SPECIFICATION FairSpec
INVARIANT CopiesBounded
INVARIANT LossNeedsCut
INVARIANT OneWorkerKeepsOrder
PROPERTY ImplementsDelivery
CHECK_DEADLOCK FALSE
