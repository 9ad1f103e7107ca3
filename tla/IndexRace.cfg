CONSTANTS
    t1 = t1  t2 = t2  va = va  vb = vb  vc = vc  vn = vn
    Threads <- TwoThreads
    NoThread = NoThread
    keys = 2
    Unique = {1}
    Vals <- MCVals
    NullVals = {vn}
    Hash <- MCHash
    nbuckets = 2
    Recs <- RaceRecs
    Lookups <- IndexLookups
    max_records = 2
    MaxGen = 1
    Calls <- RaceCalls
    KeyColumns <- MCKeyColumns
    ImagesOf <- MCImagesOf
SPECIFICATION Spec
INVARIANT UniqueKeys
