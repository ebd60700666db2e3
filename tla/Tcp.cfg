\* Three packets; two faults (losses, overtakings, early timers) are enough
\* for a fast retransmission and for a handshake that is given up.
CONSTANTS
    Packets = 3
    Variant = "NEWRENO"
    Delayed = TRUE
    MaxSynRetries = 2
    InitSSThresh = 3
    FaultBound = 2
    DialBound = 2
SPECIFICATION Spec
INVARIANTS InOrderOnce NoneLost SenderAlive
PROPERTY AllDelivered
CHECK_DEADLOCK FALSE
