SPECIFICATION Spec
CONSTANTS
    Tracks = {p1, p2}
    ZoneList <- AisleZones
    Places <- AislePlaces
    MaxProducts = 1
    LoiterSeconds = 2
    TtlS = 1
    ShelfEmptyAfterS = 1
    SnapshotIntervalS = 2
    Steps <- FrameSteps
    MaxTime = 6
SYMMETRY Symmetry
INVARIANTS
    TypeOK
    VisitorsConserved
    ReportsAgree
CHECK_DEADLOCK FALSE
