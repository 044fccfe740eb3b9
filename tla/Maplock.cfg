CONSTANTS
    Session = {s1, s2, s3}
    Name = {a, b}
    LockCtr = {c1, c2, c3}
    Nil = Nil
SPECIFICATION FairSpec
INVARIANTS MutualExclusion NoLeakedLock
PROPERTY EveryWaiterLocks
