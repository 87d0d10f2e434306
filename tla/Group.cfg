SPECIFICATION Spec
CONSTANTS
    Components <- MCComponents
    Keys <- MCKeys
    Values <- MCValues
    NoValue = NoValue
    Order <- MCOrder
    Depends <- MCDepends
    TypeFacts <- MCTypeFacts
    States <- MCStates
    DefaultState <- MCDefault
    Rules <- MCRules
    Suspects = {}
    Worlds <- PlainWorlds
    Generic = {}
    OperatorFact = "says"
    SkipMark = "skipped"
    True = "yes"
    Options <- AnyOptions
    Writers = {}
    MaxProbes = 7
    Incident = FALSE
    Failures = {"forbidden"}
    SaveMayFail = FALSE
    MayCrash = FALSE
    MayAddLive = FALSE
    MaxSessions = 1
    MaxAdded = 0
INVARIANTS
    TruthStaysLive
    BfsConclusionIsComplete
    AllClearIsEarned
    CountsMatchListing
CHECK_DEADLOCK FALSE
