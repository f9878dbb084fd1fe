CONSTANTS
    inside = inside
    outside = outside
    op1 = op1
    op2 = op2
    run1 = run1
    run2 = run2
    req1 = req1
    req2 = req2
    Users <- TheUsers
    Bucket <- TheBuckets
    Operators = {op1, op2}
    Canaries = {run1}
    Requests = {req1, req2}
    UserOf <- TheOwners
    Policies <- ThePolicies
    ContainerFirst = TRUE
    MaximumSessions = 1
    TTL = 2
    Latency = 1
    MaxTime = 4
    MaxActs = 2
SYMMETRY Symmetric
CHECK_DEADLOCK FALSE
SPECIFICATION RolloutSpec
INVARIANTS
    EnabledIsEarned
    FreshAuthorization
