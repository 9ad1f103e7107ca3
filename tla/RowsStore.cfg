SPECIFICATION Spec
CONSTANTS
    t1 = t1
    t2 = t2
    t3 = t3
    Threads <- ThreeThreads
    NoThread = NoThread
    Words = {w1}
    Recs = {r1}
    NoRec = NoRec
    FM_CHUNK_SIZE = 2
    max_records = 2
    SEQ_MOD = 2
    MaxGen = 2
    Calls <- StoreCalls
INVARIANTS TypeOK SlotsAccounted RecordsExact WritersOwnTheirRow
