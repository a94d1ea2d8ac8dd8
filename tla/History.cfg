SPECIFICATION Spec
CONSTANTS
    Texts <- MCTexts
    HashOf <- MCHashOf
    WordsOf <- MCWordsOf
    Resembles <- MCResembles
    Interval = 2
    Cap = 3
    Bodies <- Plain
    Marks <- MCMarks
    Notes = {n1}
    Rewordings = {n2}
    Sections = {"dawn broke"}
    Human = 3
    Turns = 1
    Patches = 1
    Splices = 1
    Saves = 1
    Marking = 1
    Noting = 2
    Resyncs = 1
    Crashes = 1
    Faults = 1
    Twins = 1
    Budget <- MCBudget
    Together <- MCTogether
CHECK_DEADLOCK FALSE
INVARIANTS
    ReadsBack
PROPERTIES
    
    EditRecorded
