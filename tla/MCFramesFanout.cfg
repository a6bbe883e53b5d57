SPECIFICATION Spec
CONSTANTS
    Cameras = {c1}
    Sockets = {s1, s2}
    DedupWindow = 0
    MaxFrames = 1
    MaxErrors = 1
    Idle = Idle
INVARIANTS
    SubscribersMissNothing
PROPERTIES
    FramesAndSocketsEnd
    BrokenSocketsDropped
CHECK_DEADLOCK FALSE
