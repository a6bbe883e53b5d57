SPECIFICATION Spec
CONSTANTS
    Cameras = {c1, c2}
    None = None
    MaxEffects = 3
    MaxFrames = 2
    MaxOutages = 1
INVARIANTS
    TypeOK
    OneLiveSocket
    BadgeTellsTruth
PROPERTIES
    CanvasFollowsSelection
    ReopensWhenServed
CHECK_DEADLOCK FALSE
