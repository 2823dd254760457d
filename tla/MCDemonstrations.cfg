\* Three workers; three owners with up to two leases, and one whose TTL is refused; two replicas.
SPECIFICATION FairSpec
CONSTANTS
    a = a
    b = b
    c = c
    configuredWorkers <- MCWorkers
    Strangers = {stranger}
    heartbeatTimeoutMs = 2
    MaxTime = 5
    Nobody = Nobody
    Owners = {o1, o2, o3, o4}
    InvalidTtl = {o4}
    Quantity = 1
    InitialStock = 2
    MaxLeases = 2
    MaxLockFaults = 1
    NoLease = NoLease
    Orders = {order1, order2}
    Statuses = {PENDING, COMPLETED}
    Copies = {r1, r2}
    Sessions = {s1, s2}
    MaxWrites = 3
    Absent = Absent
INVARIANTS
    TermsInOrder
    ExactWithinLease
    OwnTokenMeansExclusive
    CopiesArePrefixes
    ReadsOwnWrites
PROPERTIES
    DeadlineIsFinal
    SimulationsReturn
\* The simulations return and the bounds are reached.
CHECK_DEADLOCK FALSE
