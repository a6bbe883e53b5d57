SPECIFICATION FairSpec
CONSTANTS
    Cameras = {"c1", "c2"}
    Closings <- TwoCameras
    Score <- Likeness
    Threshold = 70
    Ttl = 3
    MaxFaults = 1
INVARIANTS
    TypeOK
    LinksAreSound
    DuplicatesOnlyFromOverlap
PROPERTIES
    TablesExactUnlessContended
    EmbeddingGetsLinked
CHECK_DEADLOCK FALSE
