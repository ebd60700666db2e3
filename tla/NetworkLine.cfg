\* A line of three, everything within one unit of time: discovery, replies by
\* the destination and by an intermediate device, multi-hop data, route errors.
SPECIFICATION Spec
CONSTANTS
    a = a
    b = b
    c = c
    Broadcast = Broadcast
    Node = {a, b, c}
    Link <- LineLink
    Flow <- MergeFlow
    ACTIVE_ROUTE_TIMEOUT = 75
    HELLO_INTERVAL = 25
    NODE_TRAVERSAL_TIME = 1
    NET_DIAMETER = 35
    RERR_LIMIT = 1
    CONGESTION_LIMIT = 25
    COUNTER_MOD = 65536
    MaxData = 3
    MaxDelay = 0
    MaxAckLoss = 1
    SimTime = 0
INVARIANTS
    TypeOK
    SeqNotAhead
    NoSelfRoute
    DataConserved
    FloodMarked
    RrepLifetimeBounded
