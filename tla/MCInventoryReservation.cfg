\* Callers of both strategies and a stock that cannot serve them all.
SPECIFICATION FairSpec
CONSTANTS
    o1 = o1
    o2 = o2
    o3 = o3
    p1 = p1
    p2 = p2
    None = None
    Optimistic = {o1, o2, o3}
    Pessimistic = {p1, p2}
    quantity <- MCQuantity
    Missing = {o3}
    Stock0 = 3
    maxRetries = 1
    MaxFaults = 1
INVARIANTS
    RowConserved
    ReservationTruthful
    ContentionMeansProgress
PROPERTIES
    EveryReservationSettles
\* Every call has been answered.
CHECK_DEADLOCK FALSE
