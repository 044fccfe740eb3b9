\* Capacity two, three keys: entries are replaced; the last one is never evicted.
CONSTANTS
    Key = {a, b, c}
    Value = {v, w}
    Node = {1, 2, 3, 4}
    Capacity = 2
    EvictsLast = FALSE
    Nil = Nil
SPECIFICATION Spec
SYMMETRY Symmetry
INVARIANTS NeverPanics
PROPERTY ImplementsLru
