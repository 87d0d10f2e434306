SPECIFICATION Spec
CONSTANTS
    Components <- MCComponents
    Keys <- MCKeys
    Values <- MCValues
    NoValue = NoValue
    Order <- MCOrder
    Depends <- MCDepends
    TypeFacts <- MCTypeFacts
    States <- OwnStates
    DefaultState <- MCDefault
    Rules <- MCRules
    Suspects = {}
    Worlds <- MCWorlds
    Generic = {}
    OperatorFact = "says"
    SkipMark = "skipped"
    True = "yes"
    Options <- OnlyUnlisted
    Writers = {}
    MaxProbes = 7
    Incident = FALSE
    Failures = {"forbidden"}
    SaveMayFail = FALSE
    MayCrash = FALSE
    MayAddLive = FALSE
    MaxSessions = 1
    MaxAdded = 0
INVARIANTS
    UnreadNeverClears
CHECK_DEADLOCK FALSE
