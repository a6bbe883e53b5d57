SPECIFICATION Spec
CONSTANTS
    Cameras = {c1}
    Sockets = {}
    DedupWindow = 1
    MaxFrames = 2
    MaxErrors = 0
    Idle = Idle
PROPERTIES
    ChannelFailureNeverBreaksIngestion
CHECK_DEADLOCK FALSE
