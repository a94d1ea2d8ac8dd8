SPECIFICATION Spec
CONSTANTS
    a = a
    b = b
    c = c
    t = t
    u = u
    Nodes = {a, b, c}
    Existing = {a, b}
    Tasks = {t, u}
    Serial = TRUE
    Ties = TRUE
    Writes = 2
    Resyncs = 2
    Persons = 1
    Net = 1
    Restarts = 1
    Budget <- MCBudget
    Together <- Anything
SYMMETRY Interchangeable
CHECK_DEADLOCK FALSE
INVARIANTS
    NeverLeads
    FooterKept
PROPERTIES
    SelfWritesSilent
    ImplementsPort
