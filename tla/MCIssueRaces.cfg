SPECIFICATION Spec
CONSTANTS
    MaxJobs = 1
    MaxProcs = 2
    MaxRequests = 2
    MaxQuestions = 1
    RoundSize = 1
    MaxStops = 1
    Kinds = {"triage", "reply", "comment", "cancel"}
    Channels = {"issue"}
    Faults = {"crash", "drain", "reenroll", "gate"}
    Patient = FALSE
INVARIANT StartedOnce
INVARIANT ClosedByCompletion
PROPERTY TransitionsLegal
CHECK_DEADLOCK FALSE
