SPECIFICATION FairSpec
CONSTANTS
    d1 = d1
    d2 = d2
    h1 = h1
    h2 = h2
    Asks = {1, 2}
    Heads = {h1, h2}
    FirstHead = h1
    Deciders = {d1, d2}
    Modes = {"on", "dry_run"}
    SlowCalls = FALSE
    MaxJobs = 2
    MaxPushes = 1
    MaxAnswers = 2
    MaxFaults = 1
INVARIANT MergedAsAsked
INVARIANT OneHolder
INVARIANT RowsTellMerge
PROPERTY MergesUnderClaim
PROPERTY AsksMoveOn
CHECK_DEADLOCK FALSE
