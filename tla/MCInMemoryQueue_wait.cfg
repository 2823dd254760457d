\* A queue of two whose publishers wait when it is full.
SPECIFICATION FairSpec
CONSTANTS
    m1 = m1
    m2 = m2
    m3 = m3
    m4 = m4
    bad = bad
    c1 = c1
    c2 = c2
    Messages = {m1, m2, m3, m4, bad}
    Malformed = {bad}
    Capacity = 2
    overflowStrategy = "wait"
    Closers = {c1, c2}
    NoMessage = NoMessage
INVARIANTS
    Fifo
    NoLostWakeup
    OutcomeTruthful
    ShutdownQuiesces
PROPERTIES
    ImplementsDelivery
    ShutdownReturnsEventually
    ConsumerServesAll
\* A closed queue whose calls have all returned has nothing left to do.
CHECK_DEADLOCK FALSE
