SPECIFICATION Spec
CONSTANTS
    Cameras = {c1}
    Sockets = {s1}
    DedupWindow = 1
    MaxFrames = 2
    MaxErrors = 1
    Idle = Idle
INVARIANTS
    TypeOK
PROPERTIES
    InOrderUnlessAbandoned
    AlertsDeduplicated
CHECK_DEADLOCK FALSE
