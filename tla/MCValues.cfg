CONSTANTS
    Pointers = {p1, p2}
    Statements = {s1, s2}
    Names = {f, g}
    MaxFuncs = 3
SPECIFICATION Spec
SYMMETRY Symmetry
INVARIANTS
    TypeOK
    Accounted
    FunctionsKnown
CHECK_DEADLOCK FALSE
