SPECIFICATION Spec
CONSTANTS
    r1 = r1
    r2 = r2
    w1 = w1
    w2 = w2
    s1 = s1
    s2 = s2
    c1 = c1
    NoRun = NoRun
    Runs <- TwoRuns
    Workers <- TwoWorkers
    Submitters <- TwoSubmitters
    Cancellers <- OneCanceller
    MaxSlots = 1
    MaxRetries = 2
    MaxFaults = 1
    MaxCrashes = 1
SYMMETRY Symmetry
INVARIANTS
    SlotsConserved
    CompletedIsComplete
    NoAbandonedRun
PROPERTIES
    FinishedWorkKept
