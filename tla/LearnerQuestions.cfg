CONSTANTS
    mine = mine
    theirs = theirs
    intro = intro
    terms = terms
    extra = extra
    vlan = vlan
    vlans = vlans
    lan = lan
    lans = lans
    network = network
    terraform = terraform
    terrafrom = terrafrom
    ad = ad
    directory = directory
    n1 = n1
    Kinds <- TheKinds
    Tasks = {"explain"}
    QuestionLimit = 1
    ExcerptLimit = 2
    MaxExcerpts = 2
    MaxRefs = 3
    MaxSegments = 2
    TextBudget = 3
    SegmentLimit = 3
    MaxAttempts = 2
    Unseen = extra
    Inputs <- TheInputs
    Resolutions <- TheResolutions
    Outputs <- TheOutputs
    Capabilities <- TheCapabilities
    OwnNotes = {mine}
    Failures = {"provider_unavailable", "provider_disabled", "rate_limited"}
    Terms <- TheTerms
    NoTerm = NoTerm
    Groups <- TheGroups
    Acronyms = {vlan}
    Singular <- SingularOf
    Within <- WithinOf
    Curated <- TheCurated
    Mentions <- MentionsOf
    Short = {ad}
    Correction <- CorrectionOf
    Rows <- AllRows
    Title <- TitleOf
    Description <- DescriptionOf
    StepText <- StepsOf
    Queries <- TheQueries
    EmptyQuery <- Refused
    Limit = 1
    OverFetch = 1
    PageSize = 2
    FilterTypes = {"mission"}
    CourseOf <- CoursesOf
    Published0 <- AllPublished
    Releases <- Released
    MaxReleases = 1
    MaxSearches = 3
    NotYet = NotYet
    Notes = {n1}
    Tags = {t1}
    Names = {"vlan", "routing"}
    Edits <- TheEdits
    ContextLists <- TheContextLists
    Contents = {"title"}
    Marks <- TheMarks
    Requests = {laptop, phone}
    MaxAsked = 4
    MaxBookmarks = 2
    Unborn = Unborn
    Gone = Gone
    Absent = Absent
    Params = {"x", "7", "", "%", "definitions"}
    Undecodable = "%"
    Versions = {"7"}
    Methods = {"GET", "POST", "PUT", "PATCH", "DELETE", "OPTIONS"}
    Users <- TheUsers
    Confirmed = {"sam", "fay"}
    Tokens <- TheTokens
    Owner <- OwnerOf
    Assured <- AssuredTokens
    Role0 <- FirstRole
    Live0 <- ValidTokens
    Origins = {"web", "elsewhere", "unset"}
    Unconfigured = {"unset"}
    NoOrigin = "none"
    Development = "web"
    Environments <- TheEnvironments
    OperationFailures = {"NOT_FOUND"}
    Bodies = {"object", "unfit", "rejected"}
    MaxChanges = 1
    None = None
SPECIFICATION BothSpec
INVARIANTS
    AnswersAreGrounded
    ShowsItsSearch
    RankedAsIfUnbounded
    BlocksAreOfOneEdit
    OnlyTheTrustedAct
PROPERTIES
    TurnEnds
    NoneIsShadowed
