SPECIFICATION Spec
CONSTANTS
    Dev = {1, 2, 3}
    Pkt <- Traffic
    ARP_RETRY_LIMIT = 2
    RetryInterval = 2
    Delay = 1
INVARIANT BufferedTillDecided
CHECK_DEADLOCK FALSE
