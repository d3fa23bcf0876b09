CONSTANTS
    u1 = u1
    i1 = i1
    NoUser = NoUser
    Pattern = {"chat"}
    ByUser = {"chat"}
    User = {u1}
    Ip = {i1}
    Limit <- Limits
    Window = 4
    Second = 2
    Interval = 3
    Retention = 4
    MaxExcess = 2
    MaxTime = 8
SPECIFICATION Spec
CHECK_DEADLOCK FALSE
INVARIANTS
    TypeOK
    TwiceTheLimit
    RefusedOnlyIfServed
PROPERTIES
    WaitingHelps
    OldEntriesGo
