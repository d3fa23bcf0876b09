CONSTANTS
    t1 = t1
    t2 = t2
    Turn = {t1, t2}
    Modes = {"sync", "stream"}
    Endpoints = {"rename", "delete"}
    Backend = "sqlite"
    Window = 2
    DailyRequests = 1
    DailyTokens = 3
    AnswerTokens = {0, 2}
    ImportSize = 2
    MaxConv = 2
    MaxDay = 2
    MaxInFlight = 1
SPECIFICATION Spec
SYMMETRY TurnSymmetry
INVARIANTS
    TypeOK
    UsageExact
    DailyLimitsEnforced
    HistoryExcludesOwnMessage
