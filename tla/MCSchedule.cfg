CONSTANTS
    r1 = r1  r2 = r2
    Providers <- ThreeProviders
    Requests <- TwoRequests
    Fleets <- MCFleets
    Policies <- MCPolicies
    DefaultPolicy <- MCDefault
    Asks <- MCAsks
    MaxWarm = 1
    MaxPolls = 1
SPECIFICATION ScheduleSpec
INVARIANTS EndsInTime NoNeedlessCold AskedIsGiven
SYMMETRY Symmetry
CHECK_DEADLOCK FALSE
