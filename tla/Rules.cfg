SPECIFICATION Spec
CONSTANTS
    Rules = {1, 2}
    Objects = {11, 12}
    Config <- MCConfig
    Starts <- MCStarts
    Rewrites <- MCRewrites
    Effects <- MCEffects
    Words <- MCWords
    Budget <- MCBudget
    Together <- MCTogether
INVARIANTS
    ClaimedOnce
PROPERTIES
    CascadesUnheard
    
    RulesSettle
