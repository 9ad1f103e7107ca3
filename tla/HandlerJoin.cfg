SPECIFICATION Spec
CONSTANTS
    h1 = h1  h2 = h2  h3 = h3  h4 = h4
    Handlers <- FourHandlers
    NoHandler = NoHandler
    Thd <- TwoThreads
    Slots = {0, 1}
    Rows <- TwoTables
    Vals <- MCVals
    Calc <- MCCalc
    NewVals = {0}
    NoRow = NoRow
    ReadCheck <- AllCheck
    Calls <- JoinCalls
    MaxGen = 0
INVARIANT NoCircularWait
