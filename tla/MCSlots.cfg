\* Retries in batches of two beside claims and probes, two slots for them all.
CONSTANTS
    c1 = c1
    c2 = c2
    c3 = c3
    Callers <- ThreeCallers
    Held <- OneHeld
    MaxBatch = 2
    Limit = 2
    Window = 2
SPECIFICATION FairSpec
INVARIANTS OneAnswer ShutdownWaits
PROPERTIES Settled Recovers
