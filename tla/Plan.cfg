SPECIFICATION Spec
CONSTANTS
    Components <- MCComponents
    Keys <- MCKeys
    Values <- MCValues
    NoValue = NoValue
    Order <- MCOrder
    Depends <- MCDepends
    TypeFacts <- MCTypeFacts
    States <- MCStates
    DefaultState <- MCDefault
    Rules <- MCRules
    Suspects = {}
    Worlds <- PlainWorlds
    PlanOptions <- AnyOptions
    Failures = {"forbidden"}
    SaveMayFail = TRUE
    MaxPlanIterations = 6
    Recalled <- MCRecalled
INVARIANTS PathsCoverTheWalk CauseHasAPath PlanNamesTheCause
PROPERTIES EliminationStands
