SPECIFICATION FairSpec
CONSTANTS
    Sta = {1, 2, 3}
    Hears <- Line
    Pkt <- Pkts
    Loads <- Traffic
    CWmin = 1
    CWmax = 3
    dot11ShortRetryLimit = 2
    dot11LongRetryLimit = 1
    SIFS = 1
    DataTime = 6
    CtrlTime = 4
    ACK_SLACK = 1
    QMAX = 1
INVARIANTS
    TypeOK
    ExchangeHeld
    AckMeansDelivered
    HeldOnce
    RetryOwned
    OneTimer
PROPERTY SenderGetsOn
CHECK_DEADLOCK FALSE
