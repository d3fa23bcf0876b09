CONSTANTS
    t1 = t1
    t2 = t2
    Turn = {t1, t2}
    Modes = {"sync", "stream"}
    Endpoints = {"post", "rename", "delete"}
    Backend = "postgres"
    Window = 2
    DailyRequests = 3
    DailyTokens = 3
    AnswerTokens = {1}
    ImportSize = 2
    MaxConv = 2
    MaxDay = 1
    MaxInFlight = 2
SPECIFICATION Spec
SYMMETRY TurnSymmetry
INVARIANTS
    NoDanglingMessages
    GeneratedTitleFollowsAnswer
