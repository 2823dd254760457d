\* Both services on one database, with a row from before the fingerprint column.
SPECIFICATION FairSpec
CONSTANTS
    alice = alice
    ALICE = ALICE
    apple = apple
    APPLE = APPLE
    pear = pear
    ghost = ghost
    k1 = k1
    k2 = k2
    old = old
    Null = Null
    HttpRequests = {h1}
    AtomicRequests = {a1, a2}
    Inputs <- MixedInputs
    Ids <- MCIds
    Lower <- MCLower
    Keys = {k1, k2}
    Products = {apple, pear}
    Stock0 <- MCStock
    Orders0 <- OldOrder
    PoolMax = 2
    MaxFaults = 1
    MaxCrashes = 1
INVARIANTS
    AnswerTruthful
PROPERTIES
    EveryCallSettles
\* Every request has been answered.
CHECK_DEADLOCK FALSE
