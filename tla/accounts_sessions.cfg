CONSTANTS
    r1 = r1
    r2 = r2
    p1 = p1
    p2 = p2
    Request = {r1, r2}
    Ops = {"register", "login", "google", "logout", "logout_all", "profile", "chat", "delete"}
    Person = {p1, p2}
    Backends = {"postgres", "sqlite"}
    MaxUser = 3
SPECIFICATION FairSpec
INVARIANTS
    TypeOK
    PostgresLeavesNothing
    LogoutAllIsComplete
    OneRegistrationWins
PROPERTIES
    MeetsContract
    EveryRequestEnds
