CONSTANTS
    h1 = h1  h2 = h2  h3 = h3
    Handlers <- ThreeHandlers
    Names = {"a", "b"}
    MaxShares = 3
SPECIFICATION Spec
SYMMETRY HandlerSymmetry
INVARIANTS
    TypeOK
    HandlesLive
    HandlesCounted
    ListExact
    DroppedFreed
PROPERTY KeepsRows
