SPECIFICATION IconsSpec
CONSTANTS
    Names = {"welcome", "projects"}
    Seeds <- FirstFiles
    Far = 9
    NoChain = NoChain
    IconsOut = 2
    MaxOps = 3
CHECK_DEADLOCK FALSE
INVARIANTS
    IconsAreCurrent
    DraggedIconsStay
    SeededOnce
