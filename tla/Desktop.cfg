SPECIFICATION Spec
CONSTANTS
    W = 1100
    H = 720
    PANEL_H = 28
    TITLE_H = 22
    Apps <- AllApps
    Opening <- AtBoot
    Points <- Places
    Probes <- Pixels
    Asked = {"files", "system"}
    MaxInputs = 3
CHECK_DEADLOCK FALSE
INVARIANTS
    DragIsHeld
    PressHitsWhatIsSeen
PROPERTIES
    FramesInOrder
    ScreenCatchesUp
