SPECIFICATION Spec
CONSTANTS
    None = None
    VocabSize = 3
    WordSize = 4096
    Multiplier = 1103
    Increment = 577
    Rounds = 12
    Shift = 4
    GBit = 64
    HashIv = 1234
    MaxLogit = 1
    Top = 2
    MaxTokens = 6
    KGWConfigs <- MCKGWConfigs
    Oracles <- MCOracles
    SynthIDConfigs <- MCSynthIDConfigs
    SimTables <- MCSimTables
INVARIANTS
    KgwCounts
    MarkIsRead
    ChosenIsScored
    RepeatsDoNotCount
CHECK_DEADLOCK FALSE
