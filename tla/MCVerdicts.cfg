SPECIFICATION Spec
CONSTANTS
    None = None
    Malformed = Malformed
    Allowed <- AllowedDirs
    Protected <- ProtectedDirs
    Steering = {"agents.md"}
    MaxFiles = 2
    MaxLines = 3
    MaxNodes = 9
    MaxFlows = 9
    MaxProblems = 3
    PageMax = 3
    ListBudget = 6
    InputValuesMax = 2
    FunctionValuesMax = 3
    FieldValuesMax = 2
    TableColumnsMax = 2
    ConditionsMax = 2
    NodesShownMax = 2
    EdgesShownMax = 2
    FullBudget = 101
    FullCaps <- Caps
    TextLimit = 20
    Marker = 3
    SimilarMax = 2
    MaxResults = 3
    Secrets <- AllSecrets
    Sensitive <- OwnSecrets
    MinSecret = 2
    Long <- LongPieces
    MaxResponse = 3
    MaxMessage = 4
    Ttl = 2
    MaxQueryLength = 50
    MaxBytes = 3
INVARIANTS
    VerdictStands
    EachProofIsOfTheHead
    RoundTrip
    AppliedIsAllowed
    HighTierIsAsked
    StricterIsStricter
    TrustIsAsNamed
    GraphIsTold
    SpentOnce
    ReadsAreWhole
    ShownAsStated
    ClientIsToldTruly
CHECK_DEADLOCK FALSE
