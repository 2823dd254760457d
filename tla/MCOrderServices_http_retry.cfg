\* A POST /orders call and a twin stored by the atomic service.
SPECIFICATION FairSpec
CONSTANTS
    alice = alice
    ALICE = ALICE
    apple = apple
    APPLE = APPLE
    pear = pear
    ghost = ghost
    k1 = k1
    k2 = k2
    old = old
    Null = Null
    HttpRequests = {h1}
    AtomicRequests = {a1}
    Inputs <- ContendingInputs
    Ids <- MCIds
    Lower <- MCLower
    Keys = {k1, k2}
    Products = {apple, pear}
    Stock0 <- MCStock
    Orders0 <- NoOrders
    PoolMax = 2
    MaxFaults = 0
    MaxCrashes = 0
PROPERTIES
    HttpRetryReturnsOriginal
\* Every request has been answered.
CHECK_DEADLOCK FALSE
