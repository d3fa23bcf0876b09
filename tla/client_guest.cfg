CONSTANTS
    User = {"alice"}
    StreamingConfig = FALSE
    MaxClicks = 3
    MaxCalls = 2
SPECIFICATION Spec
INVARIANTS
    GuestsStayAnonymous
