CONSTANTS
    t1 = t1
    t2 = t2
    Turn = {t1, t2}
    Modes = {"sync", "stream"}
    Endpoints = {"import"}
    Backend = "postgres"
    Window = 2
    DailyRequests = 3
    DailyTokens = 3
    AnswerTokens = {1}
    ImportSize = 2
    MaxConv = 3
    MaxDay = 1
    MaxInFlight = 2
SPECIFICATION FairSpec
INVARIANTS
    UsageNeverOvercounts
    AcknowledgedTurnStored
PROPERTIES
    EveryTurnEnds
    OnlyOverflowIsPruned
