SPECIFICATION Spec
CONSTANTS
    Tracks = {p1}
    ZoneList <- TillZones
    Places <- TillPlaces
    MaxProducts = 0
    LoiterSeconds = 3
    TtlS = 2
    ShelfEmptyAfterS = 2
    SnapshotIntervalS = 2
    Steps <- FrameSteps
    MaxTime = 6
INVARIANT QueueLeaveRecordsWait
CHECK_DEADLOCK FALSE
