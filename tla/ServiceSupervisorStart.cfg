SPECIFICATION Spec
CONSTANTS
    Names = {"web"}
    Entries = {"e1"}
    Policies = {"always"}
    MaxRestarts = {1}
CHECK_DEADLOCK FALSE
INVARIANT
    StartIsHonoured
