CONSTANTS
    g1 = g1
    g2 = g2
    g3 = g3
    p1 = p1
    p2 = p2
    p3 = p3
    p4 = p4
    Scripts = {g1, g2}
    Ptrs = {p1, p2, p3}
    MaxStmts = 3
    Faults = {"malloc", "prepare"}
    Uses = {"leave", "abandon", "close"}
    none = none
SPECIFICATION Spec
INVARIANTS
    TypeOK
    NoDangling
    NothingLeaks
    EndedGivesBack
CHECK_DEADLOCK FALSE
