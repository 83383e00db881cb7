SPECIFICATION FairSpec
CONSTANTS
    r1 = r1
    r2 = r2
    w1 = w1
    w2 = w2
    s1 = s1
    s2 = s2
    c1 = c1
    NoRun = NoRun
    Runs <- TwoRuns
    Workers <- TwoWorkers
    Submitters <- OneSubmitter
    Cancellers <- OneCanceller
    MaxSlots = 1
    MaxRetries = 1
    MaxFaults = 0
    MaxCrashes = 1
PROPERTIES
    RunsSettle
    CancelHonoured
