SPECIFICATION FairSpec
CONSTANTS
    Consumers = {udp, gb}
    Timed = {udp}
    LowLatency = FALSE
    Fps = 2
    MaxFrames = 5
INVARIANTS
    TypeOK NoLostWakeup QueueIsNewest StaleBounded
PROPERTIES
    StopReleasesWaiters FeedSpec
