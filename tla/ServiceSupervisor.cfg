SPECIFICATION FairSpec
CONSTANTS
    Names = {"web", "db"}
    Entries = {"e1", "e2"}
    Policies = {"always", "on-failure"}
    MaxRestarts = {0, 2}
CHECK_DEADLOCK FALSE
INVARIANTS
    OneIncarnation
    CrashLoopBound
    ShellsAreAccounted
PROPERTIES
    LaunchWasAsked
    ImplementsContract
    RestartSettles
