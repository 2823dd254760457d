\* A dead letter queue of one that parks or refuses its publishers when it is full.
SPECIFICATION FairSpec
CONSTANTS
    m1 = m1
    m2 = m2
    m3 = m3
    None = None
    Messages = {m1, m2, m3}
    Unprocessable = {m3}
    MaxAttempts = 2
    SourceCapacity = 3
    Capacity = 1
INVARIANTS
    NothingLost
    DeadLettersInOrder
    OneOutcome
PROPERTIES
    ProcessingEnds
\* Both queues may be closed and empty.
CHECK_DEADLOCK FALSE
