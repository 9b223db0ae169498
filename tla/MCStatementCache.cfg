CONSTANTS
    Key = {k1, k2, k3, k4}
    Capacity = 3
    MaxClock = 8
SPECIFICATION Spec
SYMMETRY KeySymmetry
PROPERTY ImplementsLru
CHECK_DEADLOCK FALSE
