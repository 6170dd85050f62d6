SPECIFICATION Spec
CONSTANTS
    Tools = {"fs.read", "shell.exec", "unknown"}
    ReadCaps = {"fs.read"}
    RiskyCaps = {"shell.exec"}
    Modes = {"permissive", "guarded", "paranoid"}
    MaxSteps = 2
    MaxCalls = 2
    MaxTurns = 2
    MaxHistory = 6
    MaxBoots = 2
    OtherClients = TRUE
CHECK_DEADLOCK FALSE
INVARIANTS
    RunsWereApproved
    ResultsAreGrouped
    SameConversation
