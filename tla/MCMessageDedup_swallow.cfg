\* A handler that hides a failed statement.
SPECIFICATION Spec
CONSTANTS
    m1 = m1
    m2 = m2
    None = None
    Messages = {m1}
    Malformed = {}
    Workers = {w1}
    MaxFaults = 1
INVARIANTS
    ProcessedMeansCommitted
CHECK_DEADLOCK FALSE
