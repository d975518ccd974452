SPECIFICATION Spec
CONSTANTS
    MaxJobs = 1
    MaxProcs = 2
    MaxRequests = 2
    MaxQuestions = 2
    RoundSize = 2
    MaxStops = 0
    Kinds = {"triage", "reply"}
    Channels = {"inbound"}
    Faults = {}
    Patient = TRUE
INVARIANT OneRunner
CHECK_DEADLOCK FALSE
