SPECIFICATION Spec
CONSTANTS
    Keys = {c1, c2}
    Modes = {1, 2}
    Specs <- MCSpecs
    Nodes = {"n"}
    CallIds <- MCCallIds
    SearchIds <- MCSearchIds
    Tools = {"edit", "file", "draft"}
    Answers <- MCAnswers
    Histories <- MCHistories
    MaxEvents = 3
    MaxChars = 4
    MaxPauseResumes = 1
    MaxToolCalls = 2
    FlushEvery = 1
    Edits <- MCEdits
    Together <- MCTogether
    Budget <- MCBudget
SYMMETRY Chats
CHECK_DEADLOCK FALSE
INVARIANTS
    CreditedOnce
    DeliversOwn
    
    
