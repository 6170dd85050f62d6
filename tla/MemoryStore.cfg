SPECIFICATION Spec
CONSTANTS
    Calls = {c1, c2, c3, c4}
    Keys = {k1, k2}
    Values = {v1, v2}
    MaxInFlight = 1
    MaxCrashes = 2
SYMMETRY Symmetries
CHECK_DEADLOCK FALSE
PROPERTY
    ImplementsStore
