SPECIFICATION Spec
CONSTANTS
    s1 = s1  s2 = s2  h1 = h1  h2 = h2  a1 = a1  a2 = a2
    Sessions = {s1, s2}
    Students = {h1, h2}
    Cycles = {a1, a2}
    RetryLimit = 2
    ResetLimit = 1
    MaxCalls = 5
INVARIANTS ProvisionedOnce
PROPERTIES NotRevived
SYMMETRY Alike
CHECK_DEADLOCK FALSE
