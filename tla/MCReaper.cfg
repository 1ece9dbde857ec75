\* The reaper: renewals, lost answers and two sandboxes that cannot be deleted, as many
\* as a pass may delete, and one more key than a pass has pages.
CONSTANTS
    NumKeys = 4
    Undeletable <- FirstKeys
    PageSize = 1
    MaxPages = 3
    MaxPerCycle = 2
    MaxVersion = 2
    MaxFaults = 2
SPECIFICATION ReaperSpec
INVARIANT CircuitBreaker
PROPERTIES OnlyExpired Reaped
CHECK_DEADLOCK FALSE
