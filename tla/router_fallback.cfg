CONSTANTS
    r1 = r1
    r2 = r2
    r3 = r3
    Request = {r1, r2, r3}
    Modes = {"generate", "stream"}
    Configs <- EveryConfig
    Threshold = 2
    Recovery = 2
SPECIFICATION Spec
SYMMETRY RequestSymmetry
INVARIANTS
    TypeOK
    BreakerMatchesCount
    PrimaryFailureHidden
PROPERTIES
    OfflineOnlyWhileFailing
    MeetsContract
