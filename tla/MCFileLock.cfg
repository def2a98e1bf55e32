CONSTANTS
    f1 = f1
    f2 = f2
    f3 = f3
    f4 = f4
    f5 = f5
    k1 = k1
    k2 = k2
    k3 = k3
    main = main
    other = other
    Clients = {f1, f2, f3}
    Connections = {k1, k2, k3}
    Dbs = {main, other}
    ConnOf <- MCConnOf
    DbOf <- MCDbOf
    LockNames <- MCLockNames
    LockName <- ByFileName
    ResName <- MCResName
SPECIFICATION Spec
INVARIANTS
    TypeOK
    MutualExclusion
    SnapshotNotOvertaken
    NoneHoldsNothing
PROPERTIES
    ImplementsDbLock
    CallsAnswered
