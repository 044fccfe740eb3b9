\* Two uploads by one peer or by two, or three requests by two accounts.
CONSTANTS
    c1 = c1
    c2 = c2
    c3 = c3
    p1 = p1
    p2 = p2
    owner = owner
    reader = reader
    Client = {c1, c2, c3}
    PeerOf <- MCPeerOf
    Length = {2, 3}
    CHUNK_SIZE = 2
    MaxUploadFaults = 1
    Absent = Absent
    Task = {1, 2, 3}
    Account = {owner, reader}
    Owner = owner
    FirstLength = 3
    MaxCommits = 3
    Large = {3}
    CacheCapacity = 3
    MaxModelFaults = 1
    MaxUploads = 2
    MaxCreates = 1
    MaxFaults = 1
SPECIFICATION MCSpec
\* Requests and uploads come to an end.
CHECK_DEADLOCK FALSE
INVARIANTS  LoadIsFresh  OwnerNeverPanics CleanUploadSucceeds
PROPERTIES SuccessIsWhole RequestEnds
