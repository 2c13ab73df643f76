CONSTANTS
    Order <- MCOrder
    Runs <- MCRuns
    None = None
    MaxGen = 3
    MaxFaults = 2
    MaxOutside = 1
SPECIFICATION Spec
INVARIANTS FailureRestores
PROPERTIES CommitIsWhole PushedIsExported
CHECK_DEADLOCK FALSE
