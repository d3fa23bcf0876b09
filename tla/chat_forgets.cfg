CONSTANTS
    t1 = t1
    Turn = {t1}
    Modes = {"sync", "stream"}
    Endpoints = {"import"}
    Backend = "postgres"
    Window = 2
    DailyRequests = 3
    DailyTokens = 3
    AnswerTokens = {1}
    ImportSize = 2
    MaxConv = 2
    MaxDay = 1
    MaxInFlight = 2
SPECIFICATION Spec
SYMMETRY TurnSymmetry
PROPERTIES
    UserMessagesKept
