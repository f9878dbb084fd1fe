\* Two administrators correct certificates that may expire meanwhile, or one does while they are read.
SPECIFICATION MCSpec
CONSTANTS
    c1 = c1  c2 = c2  c3 = c3  s1 = s1  s2 = s2  k1 = k1  a1 = a1  a2 = a2
    NoKey = NoKey  NoCertificate = NoCertificate  NoFilter = NoFilter  Nothing = Nothing
    Certificates = {c1, c2, c3}
    Owner <- TwoOwners
    Expiring = {c1}
    Keys = {k1}
    Admins = {a1, a2}
    Inputs <- AllInputs
    MaxHistory = 2
    Student = s1
    Reference = c1
    Filters <- SomeFilters
    Mounts <- OneOrNone
    MaxAborted = 1
INVARIANTS HistoriesAgree ToldAsItWas ShowsItsFilters
PROPERTIES ImplementsStatus RequestsEnd
