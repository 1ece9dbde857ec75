\* The E2B adapter: creates in time, late and marked, and late and unmarked (the short
\* TTL), lists that leave one out, answers lost at any time.
CONSTANTS
    s1 = s1  s2 = s2  AnySpec = AnySpec
    Specs <- TwoSpecs
    TTLs <- ShortAndLong
    Timeout = 1
    MaxDelay = 2
    Slack = 0
    Limit = 1
    MaxTime = 4
    MaxBoxes = 2
    MaxCalls = 3
SPECIFICATION Spec
INVARIANTS OneSandbox NotFoundIsFinal
SYMMETRY Symmetry
CHECK_DEADLOCK FALSE
