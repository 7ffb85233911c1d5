\* Two threads submit to one stream.
CONSTANTS
    NumStreams = 1
    SlotsPerStream = 2
    CursorMod = 2
    Budget = 1
    Submitters = {t1, t2}
    Feeds <- SharedFeeds
    Callers = {}
    Poller = pl
    MaxCalls = 2
    MaxFaults = 0
SPECIFICATION Spec
INVARIANTS WatermarkSound
CHECK_DEADLOCK FALSE
