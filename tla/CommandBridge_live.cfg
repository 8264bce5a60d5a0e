SPECIFICATION FairSpec
CONSTANTS
    Commands = {1, 2}
    NonIdempotent = {2}
    MaxAttempts = 2
    BatchLimit = 1
    ExecutorsWithinLease = TRUE
    MaxFaults = 1
INVARIANTS NonIdempotentAtMostOnce
PROPERTIES ImplementsLifecycle EveryCommandEnds
