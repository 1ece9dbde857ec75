CONSTANTS
    f1 = f1  f2 = f2  p1 = p1  p2 = p2
    Flights <- TwoFlights
    Providers <- TwoProviders
    WarmOnly <- FirstFlight
    Limit = 1
    MaxSpill = 2
    InitBoxes <- MCBoxes
SPECIFICATION Spec
INVARIANTS Balanced OneSandbox AnswersAreTrue OnlyWhereBusy TicketsSettled WarmHonoured
SYMMETRY Symmetry
CHECK_DEADLOCK FALSE
