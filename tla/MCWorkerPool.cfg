\* Four jobs for two workers.
SPECIFICATION FairSpec
CONSTANTS
    j1 = j1
    j2 = j2
    j3 = j3
    j4 = j4
    Jobs = {j1, j2, j3, j4}
    maximumWorkers = 2
    None = None
INVARIANTS
    CountersAgree
    WorkConserving
    StartedInOrder
    ShutdownDrains
PROPERTIES
    EveryJobSettles
    ShutdownResolves
\* A closed pool that has drained has nothing left to do.
CHECK_DEADLOCK FALSE
