SPECIFICATION Spec
CONSTANTS
    Threads = {t1, t2}
    Txns = {x1, x2, x3}
    Targets = {service}
    None = None
    MaxBatch = 2
    MaxDepth = 2
    MaxDaemons = 2
    MayFail = {"parcel", "target"}
INVARIANTS TypeOK QueueAligned ExecutedOnce
PROPERTIES EveryAnswered AnsweredForGood
CHECK_DEADLOCK FALSE
