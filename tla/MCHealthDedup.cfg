SPECIFICATION FairSpec
CONSTANTS
    Cameras = {c1}
    Sweeps = {s1, s2}
    OfflineAfter = 1
    DedupWindow = 2
    MaxCrashes = 0
PROPERTY AlertsDeduped
