SPECIFICATION Spec
CONSTANTS
    t1 = t1
    t2 = t2
    t3 = t3
    Threads <- ThreeThreads
    NoThread = NoThread
    Words = {w1, w2}
    Recs = {r1, r2}
    NoRec = NoRec
    FM_CHUNK_SIZE = 2
    max_records = 1
    SEQ_MOD = 4
    MaxGen = 1
    Calls <- ReadCalls
SYMMETRY DataSymmetry
INVARIANTS PublishedImageWhole FreshGeneration RowLimit
PROPERTIES ReadReturnsCurrentRow
