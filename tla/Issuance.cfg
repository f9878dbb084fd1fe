\* Two requests for one certificate, Evidence of two students, a definition that lives on.
SPECIFICATION Spec
CONSTANTS
    d1 = d1  d2 = d2  e1 = e1  e2 = e2  c1 = c1  c2 = c2  s1 = s1  s2 = s2
    p1 = p1  t1 = t1  r1 = r1  r2 = r2
    Absent = Absent  NoDefinition = NoDefinition  NoEvidence = NoEvidence
    NoKey = NoKey  NoRequest = NoRequest
    Keys = {}
    Terms = {t1}
    Definitions = {d1, d2}
    Competencies = {c1, c2}
    Policies = {p1}
    Source <- OneSource
    Evidence = {e1, e2}
    Positive = {e1, e2}
    Owner <- TwoStudents
    Students = {s1, s2}
    Links <- FewLinks
    Asks <- AskForFirst
    Requests = {r1, r2}
    Moves <- NoReopening
    Writes <- LifeOfFirst
    Corrections <- OwnReviews
    MaxCorrections = 1
SYMMETRY RequestSymmetry
INVARIANTS RestsOnOwnEvidence
PROPERTIES IssuedWhilePublished
