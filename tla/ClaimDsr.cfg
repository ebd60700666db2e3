SPECIFICATION Spec
CONSTANTS
    Dev = {1, 2, 3}
    Links <- Triangle
    Breakable = {}
    Pkt <- TwoTargets
    PktBound = 2
    LossBound = 1
    DSR_MAX_REQUEST_REXMT = 2
    DSR_MaxMaintRexmt = 1
    DSR_DISCOVERY_HOP_LIMIT = 3
    NonpropRequestTimeout = 3
    DSR_REQUEST_PERIOD = 5
    DSR_MAX_REQUEST_PERIOD = 8
    ROUTE_CACHE_TIMEOUT = 20
    MAINT_HOLD_OFF_TIME = 4
    Gap = 0
PROPERTY SendBufferServed
CHECK_DEADLOCK FALSE
