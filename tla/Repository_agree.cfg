SPECIFICATION Spec
CONSTANTS
    Keys <- MCKeys
    Families <- MCFamilies
    CallsPerDay = 3
    MaxCalls = 5
    MaxFaults = 1
    None = None
INVARIANTS
    BackendsAgree
    AnsweredIsDurable
