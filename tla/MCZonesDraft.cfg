SPECIFICATION Spec
CONSTANTS
    MaxCameras = 2
    MaxZones = 1
    MaxCalls = 2
    Slots = {k1, k2}
    Other = Other
    None = None
INVARIANTS
    DraftSavedToItsCamera
CHECK_DEADLOCK FALSE
