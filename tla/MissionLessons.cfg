CONSTANTS
    lesson1 = lesson1
    lesson2 = lesson2
    bad = bad
    good = good
    hop = hop
    left = left
    right = right
    Level = "ask_me"
    AskedAfterStop = FALSE
    NoneOpen = NoneOpen
    NoQuestion = NoQuestion
    NoAction = NoAction
    MissionIds <- TheMissions
    Lesson <- TheLessons
    Published0 <- ThePublished
    MaxGeneration = 3
    MaxReleases = 2
SPECIFICATION LessonSpec
INVARIANTS
    InstructionBelongs
    VerdictIsOfAnswer
    JourneyInOrder
    OnlyAuthoringStrands
