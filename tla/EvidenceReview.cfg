\* Two administrators correct one record; every interleaving, lost answers.
\* Or: a student reads the portfolio under corrections, or exports from two tabs.
SPECIFICATION MCSpec
CONSTANTS
    e1 = e1  e2 = e2  e3 = e3  s1 = s1  k1 = k1  a1 = a1  a2 = a2  x1 = x1  x2 = x2
    NoEvidence = NoEvidence  NoKey = NoKey  NoCourse = NoCourse  AnyValue = AnyValue
    NoReference = NoReference  Nothing = Nothing
    Evidence = {e1, e2, e3}
    Owner <- TwoOwners
    Admins = {a1, a2}
    Keys = {k1}
    Inputs <- AllInputs
    MaxHistory = 3
    Competencies <- AllCompetencies
    Definition <- Published
    Course <- Courses
    Result <- Passed
    SourceType <- Sources
    Limit = 2
    Student = s1
    Links <- LinkedTo
    Panels = {x1, x2}
    FilterChoices <- SomeFilters
    Initially <- Openings
    Mounts <- OneOrTwo
    MaxAborted = 1
SYMMETRY Alike
INVARIANTS HistoriesReplay ReplacementMatchesState AnswersAreBacked
    ReferencesAreForGood ToldTogether NothingWithheld
PROPERTY ImplementsTrust
