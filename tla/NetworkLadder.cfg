\* Two devices with two packets, both ways, over a lossy radio, without hellos
\* (the first one would come after the end): the whole ladder of retries, the
\* last of which ends 212 units after the first RREQ.
SPECIFICATION FairSpec
CONSTANTS
    a = a
    b = b
    c = c
    Broadcast = Broadcast
    Node = {a, b}
    Link <- PairLink
    Flow <- LadderFlow
    ACTIVE_ROUTE_TIMEOUT = 75
    HELLO_INTERVAL = 300
    NODE_TRAVERSAL_TIME = 1
    NET_DIAMETER = 35
    RERR_LIMIT = 1
    CONGESTION_LIMIT = 25
    COUNTER_MOD = 65536
    MaxData = 2
    MaxDelay = 0
    MaxAckLoss = 0
    SimTime = 260
INVARIANT DiscoveryArmed
PROPERTY BufferDrains
