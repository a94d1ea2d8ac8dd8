SPECIFICATION Spec
CONSTANTS
    Callers = {c1}
    Serial = TRUE
    QueryCap = 3
    FullSlots = 1
    SummarySlots = 2
    RecentSize = 2
    FlushEvery = 2
    Newcomers <- MCNewcomers
    Names <- MCNames
    Similarity <- MCSimilarity
    LabelSimilarity <- MCLabels
    Weights <- MCWeights
    Explores <- MCExplores
    Paths <- MCPaths
    NodeQueries <- MCNodeQueries
    SpaceTypes = {"person", "beast", "ship"}
    Sets <- MCSets
    PropertyKeys <- MCKeys
    SnakeOf <- MCSnake
    InternalKeys = {"6a4d"}
    Texts <- MCTexts
    Summaries <- MCSummaries
    FieldValues <- MCFieldValues
    Starts <- MCStarts
CHECK_DEADLOCK FALSE
INVARIANTS
    WalksExact
    QueryExact
    
    PageKept
