SPECIFICATION FairSpec
CONSTANTS
    MaxJobs = 1
    MaxProcs = 2
    MaxRequests = 1
    MaxQuestions = 2
    RoundSize = 2
    MaxStops = 2
    Kinds = {"triage", "reply", "continue", "cancel"}
    Channels = {"job", "issue", "inbound"}
    Faults = {"crash", "drain", "reenroll"}
    Patient = TRUE
INVARIANT NoStrandedRun
INVARIANT ActiveJobHoldsIssue
INVARIANT HeldJobResumable
INVARIANT CancelResolves
PROPERTY JobSettles
CHECK_DEADLOCK FALSE
