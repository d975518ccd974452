SPECIFICATION FairSpec
CONSTANTS
    a = a
    b = b
    i = i
    p = p
    q = q
    PRs = {p, q}
    Jobs = {a, b}
    Issues = {i}
    NoPR = NoPR
    Created <- MCCreated
    IssueOf <- MCIssueOf
    BranchOf <- TwoBranches
    HeadOf <- TwoHeads
    Opened <- MCOpened
    Forks = {}
    Before = {p, q}
    Earlier = {b}
    FollowUps = {b}
    Renamed = {p}
    Passes = {FALSE, TRUE}
    Hooked = {}
    MaxMatches = 1
    Movable = {}
    MaxRequests = 2
    MaxWrites = 1
    MaxTime = 2
    MaxFaults = 1
PROPERTY RowsCatchUp
