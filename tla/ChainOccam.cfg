SPECIFICATION Spec
CONSTANTS
    Components <- MCComponents
    Keys <- MCKeys
    Values <- MCValues
    NoValue = NoValue
    Order <- MCOrder
    Depends <- MCDepends
    TypeFacts <- MCTypeFacts
    States <- MCStates
    DefaultState <- MCDefault
    Rules <- MCRules
    Suspects <- MCSuspects
    Worlds <- MCWorlds
    Generic <- MCGeneric
    OperatorFact = "says"
    SkipMark = "skipped"
    True = "yes"
    Options <- OnlyAttended
    Writers = {}
    MaxProbes = 7
    Incident = FALSE
    Failures = {"forbidden", "transient"}
    SaveMayFail = FALSE
    MayCrash = FALSE
    MayAddLive = FALSE
    MaxSessions = 1
    MaxAdded = 0
INVARIANTS
    TypeOK
    BudgetBuysFacts
    ConclusionHolds
    VerdictIsSound
CHECK_DEADLOCK FALSE
