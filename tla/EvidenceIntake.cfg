\* A submission by racing requests, or a validation run consumed by several workers.
SPECIFICATION BothSpec
CONSTANTS
    c1 = c1  c2 = c2  r1 = r1  r2 = r2  l1 = l1  l2 = l2
    NoEvidence = NoEvidence
    NoAuthority = NoAuthority
    Sources <- AllSources
    Results <- ResultsDef
    Competencies = {c1}
    Workers = {r1, r2, o1}
    Operators = {o1}
    MaxVersion = 2
    MaxNumber = 1
    MaxAttempts = 1
    TestOut <- ExceptLast
    EvidenceProducing <- ExceptLast
    Mapping <- MapsAll
    LabRuns = {s1}
    LabWorkers = {h1, l1, l2}
    LabOperators = {l1, l2}
    LabCompetencies = {c1, c2}
    MaxMission = 3
    LabMapping <- MissionMaps
    Declared = {c1, c2}
INVARIANTS DerivedFromResult OneLabAuthority
PROPERTIES ImplementsLedger
SYMMETRY Alike
