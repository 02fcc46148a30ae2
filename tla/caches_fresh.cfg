SPECIFICATION Spec
CONSTANTS
    Nil = Nil
    Functions = {f1, f2}
    Labels = {d}
    Callers = {f1, f2}
    Cap = 1
    Readers = {r1}
    Listers = {l1}
    Writers = {w1, w2}
    Faults = {"name", "reply"}
    MaxWrites = 2
SYMMETRY CacheSymmetry
INVARIANTS FunctionsFresh TextsFresh XRefsFresh LRUSound
CONSTRAINT OneKind
CHECK_DEADLOCK FALSE
