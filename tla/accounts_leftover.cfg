CONSTANTS
    r1 = r1
    r2 = r2
    p1 = p1
    p2 = p2
    Request = {r1, r2}
    Ops = {"login", "delete"}
    Person = {p1, p2}
    Backends = {"sqlite"}
    MaxUser = 3
SPECIFICATION Spec
SYMMETRY RequestSymmetry
INVARIANTS
    AccountLeavesNothing
