SPECIFICATION Spec
CONSTANTS
    None = None
    ValueError = ValueError
    Z2 = 4
    Stride = 3
    Run = run
    StatSamples = 2
    MaxWorks = 2
    MaxFaults = 2
    MaxReports = 1
    CliSpec <- MCCliSpec
    RunSpec <- MCRunSpec
    CliVerdicts <- MCCliVerdicts
    RunVerdicts <- MCRunVerdicts
    Profiles <- MCProfiles
    Baseline <- MCBaseline
    CategoryOf <- MCCategoryOf
    StatLengths <- MCStatLengths
    Thresholds <- MCThresholds
    Scores <- MCScores
INVARIANTS
    RatesArePaired
    TablesAddUp
    CountedAsAsked
    CompletedIsReported
CHECK_DEADLOCK FALSE
