SPECIFICATION Spec
CONSTANTS
    t1 = t1
    t2 = t2
    t3 = t3
    k1 = k1
    k2 = k2
    k3 = k3
    Threads <- ThreeThreads
    Keys <- ThreeKeys
    MaxSize = 2
    MaxLoads = 4
SYMMETRY Symmetry
INVARIANTS
    Bounded
    RightArtifact
    Conserved
PROPERTIES
    StoredStays
\* The bound on loads ends a behaviour with an empty cache.
CHECK_DEADLOCK FALSE
