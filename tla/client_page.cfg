CONSTANTS
    User = {"alice"}
    StreamingConfig = TRUE
    MaxClicks = 4
    MaxCalls = 2
SPECIFICATION FairSpec
INVARIANTS
    TypeOK
    LeftStaysLeft
    ThreadIsCurrent
    GuestAnswersFiled
PROPERTIES
    SendingResumes
