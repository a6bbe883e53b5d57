SPECIFICATION Spec
CONSTANTS
    Cameras = {"c1", "c2"}
    Closings <- TwoCameras
    Score <- Likeness
    Threshold = 70
    Ttl = 3
    MaxFaults = 0
INVARIANT TrackCountIsLinks
CHECK_DEADLOCK FALSE
