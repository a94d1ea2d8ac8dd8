SPECIFICATION Spec
CONSTANTS
    Types = {"mode", "context", "task", "city"}
    Keys = {"detail", "link", "theirs", "mood", "knows", "done"}
    Names = {"knows", "done"}
    Slug <- MCSlug
    Formats = {"select", "objects", "text"}
    Options = {"minimal", "low"}
    Spaces <- MCSpaces
    Budget <- MCBudget
    Together <- MCTogether
    InfraTypes <- MCInfraTypes
    Inline <- MCInline
    FormatOf <- MCFormatOf
    Selects <- MCSelects
    Explained = {"context"}
    SeedModes <- MCSeedModes
    OwnModes = {"own"}
    Example = "example"
    Calls = {c1, c2}
    Requests <- MCRequests
    Window = 1
    Attempts = 3
    Serving <- MCServing
CHECK_DEADLOCK FALSE
INVARIANTS
    ApprovalMintsNothing
PROPERTIES
    
    SchemaWhole
    CallsEnd
    StartRecovers
