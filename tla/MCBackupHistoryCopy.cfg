SPECIFICATION Spec
CONSTANTS
    r1 = r1
    r2 = r2
    Runs <- MCRuns
    None = None
    MaxFaults = 1
INVARIANT CompletedHasCopy
