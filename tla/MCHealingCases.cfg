SPECIFICATION FairSpec
CONSTANTS
    p = p
    q = q
    PRs = {p, q}
    NoSha = NoSha
    Owned = {p}
    Closable = {p}
    MaxReopens = 1
    MaxTime = 3
    MaxRestarts = 1
INVARIANT TypeOK
INVARIANT FixAnchored
INVARIANT MergeIsItsOwn
INVARIANT VerdictFromAnchor
PROPERTY FixJudged
