SPECIFICATION FairSpec
CONSTANTS
    Ids = {t1, t2, t3}
    MaxArea = 2
    Ttl = 1
    HeartbeatEvery = 2
    MaxBackoff = 4
INVARIANTS
    TypeOK
    CropIsBestOfVisit
PROPERTIES
    HeartbeatsResume
