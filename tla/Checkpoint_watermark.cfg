\* One thread submits to the stream; two pollers race with it.
CONSTANTS
    NumStreams = 1
    SlotsPerStream = 2
    CursorMod = 2
    Budget = 1
    Submitters = {t1}
    Feeds <- SharedFeeds
    Callers = {c1}
    Poller = pl
    MaxCalls = 3
    MaxFaults = 1
SPECIFICATION Spec
INVARIANTS WatermarkSound PoolFullHonest
CHECK_DEADLOCK FALSE
