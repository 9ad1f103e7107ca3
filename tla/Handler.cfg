SPECIFICATION Spec
CONSTANTS
    h1 = h1  h2 = h2  h3 = h3  h4 = h4
    Handlers <- TwoHandlers
    NoHandler = NoHandler
    Thd <- OwnThread
    Slots = {0, 1}
    Rows <- OneTable
    Vals <- MCVals
    Calc <- MCCalc
    NewVals = {0}
    NoRow = NoRow
    ReadCheck <- FirstChecks
    Calls <- MixedCalls
    MaxGen = 1
INVARIANTS TypeOK LocksAgree ReadRowIsCurrent NoHoldAndWait
PROPERTIES AtomicWrites
