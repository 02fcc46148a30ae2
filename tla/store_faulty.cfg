SPECIFICATION StartedSpec
CONSTANTS
    Ids = {i1, i2, i3}
    Faults = {"exit", "write"}
    Garbage = Garbage
    Ints <- FewInts
    Strings = {"", "one", "two"}
INVARIANTS DiskAgrees LayersDecide
SYMMETRY IdSymmetry
CHECK_DEADLOCK FALSE
