SPECIFICATION Spec
CONSTANTS
    MaxCameras = 1
    MaxZones = 1
    MaxCalls = 1
    Slots = {k1, k2}
    Other = Other
    None = None
PROPERTIES
    ZonesReachRunningEngine
CHECK_DEADLOCK FALSE
