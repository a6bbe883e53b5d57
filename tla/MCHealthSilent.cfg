SPECIFICATION FairSpec
CONSTANTS
    Cameras = {c1, c2}
    Sweeps = {s1}
    OfflineAfter = 1
    DedupWindow = 2
    MaxCrashes = 0
PROPERTY OfflineOnlyWhenSilent
