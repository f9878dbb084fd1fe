SPECIFICATION Spec
CONSTANTS
    o1 = o1  o2 = o2
    NoNode = NoNode
    Needs <- NeedsOf
    Operators = {o1, o2}
    Document <- SmallRevised
    Earlier <- Small
    Targets = {"review", "published"}
    Budget = 5
INVARIANTS ReferencesResolve Reimportable
PROPERTIES PublishedNodesStay
SYMMETRY Alike
CHECK_DEADLOCK FALSE
