\* Two messages, one of them no event, two workers and two failures.
SPECIFICATION FairSpec
CONSTANTS
    m1 = m1
    m2 = m2
    None = None
    Messages = {m1, m2}
    Malformed = {m2}
    Workers = {w1, w2}
    MaxFaults = 2
INVARIANTS
    NoUnexplainedRepeat
    AcknowledgedMeansCommitted
    ClaimBacked
    MetricsTruthful
PROPERTIES
    EveryMessageTakesEffect
\* Every message is acknowledged.
CHECK_DEADLOCK FALSE
