SPECIFICATION FairSpec
CONSTANTS
    t1 = t1
    t2 = t2
    t3 = t3
    Threads <- TwoThreads
    NoThread = NoThread
    Words = {w1}
    Recs = {r1}
    NoRec = NoRec
    FM_CHUNK_SIZE = 1
    max_records = 2
    SEQ_MOD = 2
    MaxGen = 1
    Calls <- LiveCalls
INVARIANTS ScanComplete NoCircularWait
PROPERTIES WritersReturn ReadersReturn
