SPECIFICATION RosterSpec
CONSTANTS
    Chats = {1, 2, 3}
    Cap = 1
    AtStart = {1, 2}
    Backlog = {1, 2}
    PlacedAtStart = {1, 2}
    Human = 2
    NewChats = 1
    Sched = 1
    Confirms = 1
    Crashes = 1
    Net = 1
    RosterBudget <- MCBudget
    RosterTogether <- MCTogether
INVARIANTS
    OneCatchUp
PROPERTIES
    PromiseKept
    RecentServed
