SPECIFICATION Spec
CONSTANTS
    Calls = {c1, c2}
    Keys = {k1, k2}
    Values = {v1, v2}
    MaxInFlight = 2
    MaxCrashes = 0
SYMMETRY Symmetries
CHECK_DEADLOCK FALSE
INVARIANT
    AnsweredSetIsStored
