SPECIFICATION Spec
CONSTANTS
    j1 = j1
    j2 = j2
    j3 = j3
    w1 = w1
    w2 = w2
    s1 = s1
    s2 = s2
    c1 = c1
    c2 = c2
    NoJob = NoJob
    Jobs <- TwoJobs
    Workers <- TwoWorkers
    Submitters <- TwoSubmitters
    Cancellers <- TwoCancellers
    MaxFaults = 1
    MaxCrashes = 1
SYMMETRY Symmetry
INVARIANTS
    TypeOK
    TerminalRowsDated
    AtMostOnce
    BilledWork
    NoOrphans
    CleanShutdown
PROPERTIES
    ImplementsLedger
    RequestNotOverrun
