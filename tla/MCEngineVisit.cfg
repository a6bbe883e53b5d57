SPECIFICATION Spec
CONSTANTS
    Tracks = {p1}
    ZoneList <- StoreZones
    Places <- StorePlaces
    MaxProducts = 0
    LoiterSeconds = 2
    TtlS = 1
    ShelfEmptyAfterS = 2
    SnapshotIntervalS = 2
    Steps <- FrameSteps
    MaxTime = 11
INVARIANTS
    PerTrackStateInSync
    LedgerMatchesEngine
PROPERTIES
    AlarmsExact
    WaitSampleIsTimeInQueue
CHECK_DEADLOCK FALSE
