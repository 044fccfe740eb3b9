\* Two data with an order each, or one of them with two; two calls of Migrate.
CONSTANTS
    d1 = d1
    d2 = d2
    o1 = o1
    o2 = o2
    NoData = nodata
    Key = {d1, d2, nodata}
    Val <- MCVal
    Order = {o1, o2}
    Layout <- MCLayout
    r2 = r2
    Rpc = {r1, r2}
    Loop = loop
    Goroutine = {r1, r2, loop}
    IndexLimit = 2
    MaxFaults = 1
    MaxCalls = 3
    None = None
SPECIFICATION MCSpec
\* Calls return and the loop may be stopped.
CHECK_DEADLOCK FALSE
INVARIANTS IndexedHasRecord SavedIsIndexed
INVARIANTS MigratedIsStored CompleteIsMigrated
PROPERTIES CompleteIsFinal 
