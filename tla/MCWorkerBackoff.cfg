SPECIFICATION FairSpec
CONSTANTS
    Ids = {t1}
    MaxArea = 2
    Ttl = 1
    HeartbeatEvery = 2
    MaxBackoff = 4
PROPERTY BackoffDoubles
