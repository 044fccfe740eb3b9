\* Three shards, two of them with the same content.
CONSTANTS
    s1 = s1
    s2 = s2
    s3 = s3
    c1 = c1
    c2 = c2
    Shard = {s1, s2, s3}
    Cid = {c1, c2}
    CidOf <- SharedAndOwn
    Limit = 50
    Quiet = TRUE
    OneWriter = TRUE
    None = None
SPECIFICATION FairSpec
INVARIANTS CompletedIsStored ExpiredHasEnded
PROPERTY ExpiredIsRemoved
