\* The controller: edits, failing reads and writes, and a late election.
CONSTANTS
    hosted = hosted
    capacity = capacity
    typo = typo
    key = key
    empty = empty
    None = None
    Configs <- MCConfigs
    Creds <- MCCreds
    KnownAdapter <- MCKnown
    Referring <- MCReferring
    Capable <- MCReferring
    Lists <- MCReferring
    Builds <- MCBuilds
    Written <- MCWritten
    MaxUpsets = 2
    MaxReports = 1
SPECIFICATION Spec
INVARIANTS OneProvider NotBilled
PROPERTIES Undisturbed Converges
CHECK_DEADLOCK FALSE
