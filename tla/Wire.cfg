\* Every protocol and every record, with limits small enough to be reached.
CONSTANTS
    MaxLength = 16
    ByteArrayMaxLen = 3
    MaxShards = 2
    Provider <- MCProvider
    Value <- MCValue
    Forwarded <- MCForwarded
    RelayPeers = 2
    MaxSaves = 2
    None = None
SPECIFICATION Spec
\* A call that has returned and a record saved often enough stay as they are.
CHECK_DEADLOCK FALSE
INVARIANTS HandledIsSent SuccessMeansHandled
INVARIANT UnknownFieldIgnored
PROPERTIES LoadGivesSaved 
