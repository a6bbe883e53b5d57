SPECIFICATION StoreSpec
CONSTANTS
    CameraIds = {c1, c2}
    Ids = {i1, i2}
    Day = 2
    Fresh = 2
    Retention = 2
    MaxTime = 3
    MaxVisits = 2
    MaxSnapshots = 2
    MaxRuns = 2
SYMMETRY Alike
INVARIANTS
    StoreTypeOK
    OverviewTrue
PROPERTIES
    TasksTrue
CHECK_DEADLOCK FALSE
