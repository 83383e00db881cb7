SPECIFICATION FairSpec
CONSTANTS
    j1 = j1
    j2 = j2
    j3 = j3
    w1 = w1
    w2 = w2
    s1 = s1
    s2 = s2
    c1 = c1
    c2 = c2
    NoJob = NoJob
    Jobs <- TwoJobs
    Workers <- TwoWorkers
    Submitters <- OneSubmitter
    Cancellers <- OneCanceller
    MaxFaults = 0
    MaxCrashes = 1
PROPERTIES
    JobsSettle
    CancelHonoured
