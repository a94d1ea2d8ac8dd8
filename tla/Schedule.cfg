SPECIFICATION Spec
CONSTANTS
    Ids = {once, cron}
    Recurring = {cron}
    Verbatim = {once}
    Period = 2
    MaxTime = 4
    Human = 2
    Turns = 1
    Crashes = 1
    Net = 1
    Budget <- MCBudget
    Together <- MCTogether
CHECK_DEADLOCK FALSE
INVARIANTS
    AtMostOnce
PROPERTIES
    DueFires
