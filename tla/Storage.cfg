\* One shard, two tasks at a time; the order may expire.
CONSTANTS
    s1 = s1
    s2 = s2
    c1 = c1
    Shard = {s1}
    Cid = {c1}
    CidOf <- MCCidOf
    Renewal = {}
    Task = {t1, t2}
    Timeout = {0, 1}
    MaxHeight = 2
    MAX_RETRIES = 3
    WINDOW_SIZE = 2
    None = None
SPECIFICATION Spec
SYMMETRY TaskSymmetry
INVARIANTS CompletedIsStored CompleteIsOnChain UnfinishedIsScheduled
