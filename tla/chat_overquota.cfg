CONSTANTS
    t1 = t1
    t2 = t2
    Turn = {t1, t2}
    Modes = {"sync", "stream"}
    Endpoints = {}
    Backend = "postgres"
    Window = 2
    DailyRequests = 1
    DailyTokens = 3
    AnswerTokens = {1}
    ImportSize = 2
    MaxConv = 2
    MaxDay = 1
    MaxInFlight = 2
SPECIFICATION Spec
SYMMETRY TurnSymmetry
INVARIANTS
    DailyLimitsEnforced
