SPECIFICATION Spec
CONSTANTS
    Details = {"off", "minimal", "tools", "full"}
    Decisions <- MCDecisions
    Endings <- MCEndings
    MaxDecisions = 2
    LineLimit = 3
    MinInterval = 2
    Turns = 2
    Faults = 2
    Raising = 1
    Persons = 1
    Crashes = 1
    Budget <- MCBudget
    Together <- MCTogether
CHECK_DEADLOCK FALSE
INVARIANTS
    OutcomeTold
    TraceLeaves
PROPERTIES
    TraceTrue
