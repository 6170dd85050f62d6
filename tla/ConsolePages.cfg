SPECIFICATION Spec
CONSTANTS
    Reqs = {"r1", "r2"}
    Backends = {"ollama", "openai"}
    Models = {"m1"}
    Installed = {"openai"}
    Reboots = 1
    Windows = {"console", "mind"}
CHECK_DEADLOCK FALSE
INVARIANTS
    CompanionIsCurrent
    SurfaceAnswers
    TurnsAreAuthorised
PROPERTIES
    HerIsPrompt
    PagesAreAnswered
