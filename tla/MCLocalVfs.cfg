CONSTANTS
    Calls = {c1, c2}
    Dirs <- MCDirs
    Names = {"d", "x"}
    Shared <- MCShared
    Pathnames <- MCPathnames
    Mountable <- MCMountable
SPECIFICATION LocalSpec
INVARIANTS
    LocalTypeOK
    AnswersHold
PROPERTY CallsSettle
CHECK_DEADLOCK FALSE
