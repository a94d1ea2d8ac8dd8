SPECIFICATION Spec
CONSTANTS
    MaxDrafts = 3
    MaxPending = 2
    NewTypes = {1}
    Seeds = 1
    Turns = 1
    Prompts = 1
    Notes = 1
    Reactions = 2
    Drops = 1
    Restarts = 1
    Net = 1
    Budget <- MCBudget
    Together <- OneLoader
CHECK_DEADLOCK FALSE

    
PROPERTIES
    AppliedOnce
    ThumbAnswered
