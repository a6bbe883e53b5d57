SPECIFICATION Spec
CONSTANTS
    Cameras = {"c1"}
    Closings <- Restarted
    Score <- Likeness
    Threshold = 70
    Ttl = 3
    MaxFaults = 1
INVARIANT NothingDropped
CHECK_DEADLOCK FALSE
