SPECIFICATION Spec
CONSTANTS
    MaxCameras = 2
    MaxZones = 2
    MaxCalls = 2
    Slots = {k1, k2}
    Other = Other
    None = None
INVARIANTS
    TypeOK
    ZonesHaveCameras
    StrayDraftsAreEarlyAndNew
    PageConverges
CHECK_DEADLOCK FALSE
