\* One order, one provider, a chain that may fail; fair goroutines.
CONSTANTS
    o1 = o1
    o2 = o2
    d1 = d1
    d2 = d2
    Order = {o1}
    DataId = {d1}
    DataOf <- OneOrder
    Sp = {p1}
    Task = {t1}
    MaxHeight = 3
    TIMEOUT = 1
    MAX_RETRIES = 2
    TxFails = TRUE
    QueryFails = TRUE
    None = None
SPECIFICATION FairSpec
PROPERTIES NoticeAnswered EveryOrderLeavesQueue
