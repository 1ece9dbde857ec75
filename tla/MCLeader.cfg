\* Leadership: three processes in two pods, of which one leads.
CONSTANTS
    r1 = r1
    r2 = r2
    slow = slow
    Replicas <- TwoReplicas
    Providers <- OneProvider
    Timeouts = {1, 2}
    ClaimTimeout = 2
    Default = 1
    Grace = 2
    LeaseTime = 2
    RenewTime = 1
    MaxProcs = 3
SPECIFICATION FairSpec
INVARIANTS NoOverlap OnlyLeaderSelected
PROPERTY Served
