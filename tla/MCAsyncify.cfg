CONSTANTS
    call1 = call1
    call2 = call2
    call3 = call3
    s1 = s1
    s2 = s2
    s3 = s3
    Calls = {call1, call2, call3}
    Stacks = {s1, s2, s3}
    undefined = undefined
    MaxImports = 2
    Faults = {"throw", "reject", "malloc"}
SPECIFICATION Spec
INVARIANTS
    TypeOK
    FramesPreserved
    NeverCorrupt
    NoStackLost
PROPERTIES
    ImplementsCoroutines
    SettledCallsGoOn
CHECK_DEADLOCK FALSE
