\* One device with two neighbours, one of which is the destination every message
\* is about.  The times are scaled down; they keep the order of the values in
\* the code: ACTIVE < 2 * NET_TRAVERSAL < DELETE_PERIOD.
SPECIFICATION Spec
CONSTANTS
    a = a
    b = b
    Node = {a, b}
    ACTIVE_ROUTE_TIMEOUT = 1
    HELLO_INTERVAL = 1
    NODE_TRAVERSAL_TIME = 1
    NET_DIAMETER = 1
    RERR_LIMIT = 1
    CONGESTION_LIMIT = 1
    COUNTER_MOD = 2
    Dest = {a}
    SeqNumber = {0, 1, 2}
    HopNumber = {0, 2}
    RrepLifetime = {3, 6}
    MaxTime = 3
INVARIANTS
    TypeOK
    TimersCoverRoutes
    LifetimesBounded
    SequenceFlagExact
    PrecursorsReady
    NoStaleRoute
PROPERTIES
    FresherOnly
    ImplementsCache
