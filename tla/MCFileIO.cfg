CONSTANTS
    Files = {f1, f2}
    MaxPages = 3
    MaxTx = 3
    Uses = {"spill", "reread", "rollback", "shrink", "create", "write", "close", "get", "crash"}
    none = none
    errored = errored
SPECIFICATION Spec
SYMMETRY Symmetry
CONSTRAINT Kept
INVARIANTS
    TypeOK
    AllOrNothing
PROPERTIES StartsCommitted CommitsForward
