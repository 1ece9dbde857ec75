CONSTANTS
    r1 = r1  r2 = r2  r3 = r3  l1 = l1
    k1 = k1  k2 = k2  s1 = s1  s2 = s2  p1 = p1  p2 = p2
    None = None
    Requests <- TwoRequests
    Releasers <- OneReleaser
    Keys <- OneKey
    Specs <- OneSpec
    Providers <- OneProvider
    Removable <- Nothing
    TTL = 1
    MaxTime = 0
    MaxCompleted = 1
    MaxJoiners = 1
    GlobalMax = 2
    SweepAt = 2
SPECIFICATION FairSpec
PROPERTY Answered
CHECK_DEADLOCK FALSE
