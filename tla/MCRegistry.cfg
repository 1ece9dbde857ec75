CONSTANTS
    p1 = p1  p2 = p2  c1 = c1  c2 = c2
    Providers <- OneProvider
    Callers <- TwoCallers
    MaxTime = 3
    MaxGen = 2
    MaxWarm = 1
    Grace = 1
    Ring = 2
    MaxStrays = 1
    Default = 2
    Intervals <- Faster
    MaxWait = 2
SPECIFICATION Spec
INVARIANTS NoOverplacement OnePoll NeverOversleeps
PROPERTY NoOldAnswer
SYMMETRY Symmetry
CONSTRAINT Budget
CHECK_DEADLOCK FALSE
