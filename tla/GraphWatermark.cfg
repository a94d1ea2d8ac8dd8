SPECIFICATION Spec
CONSTANTS
    a = a
    b = b
    t = t
    Nodes = {a, b}
    Existing = {a, b}
    Tasks = {t}
    Serial = TRUE
    Ties = FALSE
    Writes = 1
    Resyncs = 1
    Persons = 1
    Net = 0
    Restarts = 0
    Budget <- MCBudget
    Together <- Anything
SYMMETRY Interchangeable
CHECK_DEADLOCK FALSE
PROPERTIES
    EditsReported
