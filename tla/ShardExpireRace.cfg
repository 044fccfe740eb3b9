\* A shard is assigned while processExpire works.
CONSTANTS
    s1 = s1
    s2 = s2
    s3 = s3
    c1 = c1
    c2 = c2
    Shard = {s1, s2}
    Cid = {c1}
    CidOf <- Shared
    Limit = 50
    Quiet = FALSE
    OneWriter = FALSE
    None = None
SPECIFICATION Spec
INVARIANT CompletedIsStored
CHECK_DEADLOCK FALSE
