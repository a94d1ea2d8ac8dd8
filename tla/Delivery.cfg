SPECIFICATION Spec
CONSTANTS
    History = 1
    Adopted = FALSE
    IdentityKnown = TRUE
    Window = 2
    Replay = 20
    SentMax = 20
    HumanKinds = {"text", "command", "file"}
    Human = 2
    Sched = 1
    Crashes = 2
    Sleeps = 1
    Net = 1
    Disk = 1
    Odd = 1
    Budget <- MCBudget
    Together <- MCTogether
CHECK_DEADLOCK FALSE
INVARIANTS
    AtMostOneTurn
    NoSilentSkip
    
PROPERTIES
    TurnsInOrder
    EveryRequestTaken
