CONSTANTS
    s1 = s1
    s2 = s2
    c1 = c1
    Shard = {s1, s2}
    Cid = {c1}
    CidOf <- MCCidOf
    Renewal = {s2}
    Task = {t1, t2}
    Timeout = {1}
    MaxHeight = 0
    MAX_RETRIES = 2
    WINDOW_SIZE = 1
    None = None
SPECIFICATION FairSpec
PROPERTY EveryTaskEnds
