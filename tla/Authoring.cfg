\* Certificate Definitions, or a lab with its profile and a student who is validated.
SPECIFICATION BothSpec
CONSTANTS
    s1 = s1  s2 = s2  c1 = c1  c2 = c2  t1 = t1  t2 = t2  p1 = p1  a1 = a1  a2 = a2
    l1 = l1  k1 = k1  k2 = k2  m1 = m1  h1 = h1
    Labs = {l1}  Profiles = {p1}  Checks = {k1, k2}  Missions = {m1}
    LabCompetencies = {c1}
    MaxLabVersion = 1
    LabDrafts <- OneLabDraft
    Additions <- OneByOne
    Tabs = {h1}
    MaxSessions = 1
    MaxRuns = 1
    Absent = Absent  NoDefinition = NoDefinition
    Definitions <- Versions
    StableIds = {s1}
    MaxVersion = 3
    Admins = {a1, a2}
    Competencies = {c1, c2}
    Terms = {t1, t2}
    Policies = {p1}
    Edits <- AllEdits
    Drafts <- AllDrafts
INVARIANTS PassedShowsSomething
PROPERTIES ImplementsRows
