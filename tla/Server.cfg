SPECIFICATION Spec
CONSTANTS
    Incidents = {inc}
    Requests = {r1, r2, r3}
    Keys = {up, lag}
    Held = {}
    MaxExecute = 1
    None = None
    Ops <- AllTools
    MayReuseId = FALSE
    SaveMayFail = TRUE
    MayCrash = TRUE
INVARIANTS OneWriterUntilEnded AnsweredIsOnDisk ProbesAreRationed
PROPERTIES   EveryRequestIsAnswered
CHECK_DEADLOCK FALSE
