SPECIFICATION FairSpec
CONSTANTS
    MaxSpawns = 1
    Names = {"docs"}
    Ports = {80, 81}
    Servers = {"s1", "s2"}
    Requests = {"r1"}
    Execs = {"e1"}
    MaxKids = 1
    AllowDestructive = FALSE
CHECK_DEADLOCK FALSE
INVARIANTS
    ProcessesAreKnown
    ListenersAreListed
    TrafficIsPerServer
    AnswerIsTrue
PROPERTIES
    CallIsAnswered
