SPECIFICATION MCSpec
CONSTANTS
    main = main
    g1 = g1
    g2 = g2
    n = n
    a0 = a0
    none = none
    Goroutine = {main, g1, g2}
    Main = main
    Node = n
    PoolAddress = {a0, n}
    Root = a0
    NoAddress = none
    MaxCalls = 3
INVARIANTS AddressIsExclusive SuccessIsOnChain OneJobPerCall
PROPERTIES AddressComesBack ShutdownEnds
CHECK_DEADLOCK FALSE
