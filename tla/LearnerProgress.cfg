\* A student records progress from two tabs while the course page asks what comes next.
SPECIFICATION MCSpec
CONSTANTS
    m1 = m1  m2 = m2  m3 = m3  q1 = q1  r1 = r1  r2 = r2
    NoMission = NoMission  Nobody = Nobody
    Tree <- ThePath
    Needs <- NeedsOf
    Requires <- RequiresOf
    Requirements = {q1}
    Known = {m1, m2, m3}
    Requests = {r1, r2}
    Moving = {m2}
    MaxClock = 3
INVARIANTS StartedIsEntitled HistoryExplainsRow OfferIsTrue
SYMMETRY Tabs
CHECK_DEADLOCK FALSE
