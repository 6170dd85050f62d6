SPECIFICATION Spec
CONSTANTS
    Names = {"digest"}
    Jobs = {"j1", "j2"}
    Counts = {0, 1}
    MaxFires = 2
    MaxWakes = 3
    MaxSignals = 2
    Configs <- TellingConfigs
CHECK_DEADLOCK FALSE
INVARIANTS
    OnePendingStep
    RunsWithinCount
    WakeupsExactlyOnce
    OrderlyStop
PROPERTIES
    WakeupsAreRun
    HaltsInTheEnd
