SPECIFICATION FairSpec
CONSTANTS
    t1 = t1
    t2 = t2
    Threads = {t1, t2}
    MOD = 8
    Requests <- SmallRequests
    KeyValues <- SmallKeyValues
    NextValues = {4}
INVARIANTS TypeOK FirstIsNext
PROPERTIES IntervalsDisjoint CounterMonotone FailsAtEndOnly CallsReturn
