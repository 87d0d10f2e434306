SPECIFICATION Spec
CONSTANTS
    Components <- MCComponents
    Keys <- MCKeys
    Values <- MCValues
    NoValue = NoValue
    Order <- MCOrder
    Depends <- MCDepends
    TypeFacts <- MCTypeFacts
    States <- MCStates
    DefaultState <- MCDefault
    Rules <- MCRules
    Suspects <- MCSuspects
    Worlds <- FewWorlds
    Generic <- MCGeneric
    OperatorFact = "says"
    SkipMark = "skipped"
    True = "yes"
    Options <- AnyOptions
    Writers = {"api"}
    MaxProbes = 3
    Incident = TRUE
    Failures = {"transient"}
    SaveMayFail = TRUE
    MayCrash = TRUE
    MayAddLive = FALSE
    MaxSessions = 2
    MaxAdded = 1
INVARIANTS
    PromptsAreAttended
PROPERTIES
    DiskOnlyGrows
    NeverAsksAgain
    LoopEnds
CHECK_DEADLOCK FALSE
