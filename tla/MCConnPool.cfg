CONSTANTS
    c1 = c1
    c2 = c2
    c3 = c3
    c4 = c4
    k1 = k1
    k2 = k2
    k3 = k3
    Calls <- MCCalls
    Conns <- MCConns
    NoConn = NoConn
    Gone = Gone
    max_conns = 2
    MaxDelays <- AllDelays
    Initialized = {"function", "resolved"}
    Faults = {"initialized", "open", "init", "rollback"}
SPECIFICATION Spec
INVARIANTS
    TypeOK
    ExclusiveCustody
    OpenedBound
    NoIdleWhileWaiting
PROPERTIES
    CleanHandover
    NoOvertaking
    EveryCallSettles
CHECK_DEADLOCK FALSE
