SPECIFICATION Spec
CONSTANTS
    a = a
    b = b
    i = i
    p = p
    q = q
    PRs = {p}
    Jobs = {a, b}
    Issues = {i}
    NoPR = NoPR
    Created <- MCCreated
    IssueOf <- MCIssueOf
    BranchOf <- OneBranch
    HeadOf <- OneHead
    Opened <- MCOpened
    Forks = {}
    Before = {}
    Earlier = {a}
    FollowUps = {}
    Renamed = {p}
    Passes = {FALSE}
    Hooked = {p}
    MaxMatches = 1
    Movable = {"cancelled"}
    MaxRequests = 2
    MaxWrites = 1
    MaxTime = 4
    MaxFaults = 1
INVARIANT RowsTellTruth
INVARIANT LatestWins
INVARIANT MergeClosesIssue
PROPERTY NeverBack
