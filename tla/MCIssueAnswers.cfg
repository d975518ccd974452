SPECIFICATION Spec
CONSTANTS
    MaxJobs = 2
    MaxProcs = 2
    MaxRequests = 1
    MaxQuestions = 2
    RoundSize = 2
    MaxStops = 0
    Kinds = {"triage", "reply", "continue"}
    Channels = {"job", "issue", "inbound"}
    Faults = {}
    Patient = TRUE
INVARIANT TypeOK
INVARIANT AnsweredJobGoesOn
INVARIANT IssueShowsJob
PROPERTY ResumedWithAnswers
CHECK_DEADLOCK FALSE
