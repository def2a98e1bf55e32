CONSTANTS
    g1 = g1
    g2 = g2
    g3 = g3
    p1 = p1
    p2 = p2
    p3 = p3
    p4 = p4
    Scripts = {g1}
    Ptrs = {p1, p2, p3}
    MaxStmts = 2
    Faults = {}
    Uses = {"break", "leave"}
    none = none
SPECIFICATION Spec
INVARIANT NoUseAfterFinalize
CHECK_DEADLOCK FALSE
