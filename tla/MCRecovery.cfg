SPECIFICATION FairSpec
CONSTANTS
    Jobs = {a, q}
    Resumable = {a}
    MaxAttempts = 1
    MaxStops = 4
    Windows = {"dispatch", "account_loop", "account_queue", "planning"}
INVARIANT RetriesBounded
INVARIANT InFlightHasTask
PROPERTY ComesToRest
CHECK_DEADLOCK FALSE
