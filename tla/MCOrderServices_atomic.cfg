\* Three calls of the atomic service over a pool of two, with a fault and a crash.
SPECIFICATION Spec
CONSTANTS
    alice = alice
    ALICE = ALICE
    apple = apple
    APPLE = APPLE
    pear = pear
    ghost = ghost
    k1 = k1
    k2 = k2
    old = old
    Null = Null
    HttpRequests = {}
    AtomicRequests = {a1, a2, a3}
    Inputs <- ContendingInputs
    Ids <- MCIds
    Lower <- MCLower
    Keys = {k1, k2}
    Products = {apple, pear}
    Stock0 <- MCStock
    Orders0 <- NoOrders
    PoolMax = 2
    MaxFaults = 1
    MaxCrashes = 1
SYMMETRY RequestSymmetry
INVARIANTS
    AtomicVisibility
    NoSpuriousInsufficient
    StockConserved
PROPERTIES
    ImplementsLedger
\* Every request has been answered.
CHECK_DEADLOCK FALSE
