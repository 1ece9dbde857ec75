CONSTANTS
    NumCallers = 2
    RingSize = 2
    Seconds <- MCSeconds
    Cutoffs <- MCCutoffs
    Reports <- MCReports
    MaxWord = 3
    Ticketless = TRUE
SPECIFICATION FairSpec
INVARIANTS TypeOK Accounting NoUnderflow
PROPERTIES ImplementsCounter NothingLeaks
