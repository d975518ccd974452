SPECIFICATION FairSpec
CONSTANTS
    a = a
    b = b
    Jobs = {a, b}
    Linear = TRUE
    MaxPauses = 2
    MaxRestarts = 2
INVARIANT OneRun
PROPERTY LiveJobKeepsBox
PROPERTY ParkedIssueHeld
PROPERTY NothingLeft
CHECK_DEADLOCK FALSE
