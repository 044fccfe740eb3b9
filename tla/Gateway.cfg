\* One order, two providers, reliable chain; the deadline passes.
CONSTANTS
    o1 = o1
    o2 = o2
    d1 = d1
    d2 = d2
    Order = {o1}
    DataId = {d1}
    DataOf <- OneOrder
    Sp = {p1, p2}
    Task = {t1, t2}
    MaxHeight = 3
    TIMEOUT = 2
    MAX_RETRIES = 2
    TxFails = FALSE
    QueryFails = FALSE
    None = None
SPECIFICATION Spec
SYMMETRY Symmetry
INVARIANTS ContentStaged CompleteIsOnChain NotForgotten
