SPECIFICATION Spec
CONSTANTS
    u1 = u1
    u2 = u2
    c1 = c1
    c2 = c2
    s1 = s1
    s2 = s2
    h1 = h1
    h2 = h2
    None = None
    Users <- TwoUsers
    Customers <- TwoCustomers
    Subs <- TwoSubs
    Handlers <- TwoHandlers
    MaxEvents = 3
    MaxClock = 1
    MaxRequests = 3
    MaxFailures = 1
SYMMETRY Symmetry
INVARIANTS
    AppliedOnce
    
    
    RowsFollowProvider
\* The bounds on events, requests and the clock end a behaviour.
CHECK_DEADLOCK FALSE
