SPECIFICATION Spec
CONSTANTS
    Ids = {i1, i2, i3}
    Faults = {"exit"}
PROPERTIES Recovers
CHECK_DEADLOCK FALSE
