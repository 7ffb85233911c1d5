\* One stream may hang for ever; the checkpoint of the other is still confirmed.
CONSTANTS
    NumStreams = 2
    SlotsPerStream = 1
    CursorMod = 2
    Budget = 1
    Submitters = {t1}
    Feeds <- SharedFeeds
    Callers = {c1}
    Poller = pl
    MaxCalls = 2
    MaxFaults = 1
SPECIFICATION FairSpec
PROPERTIES PassedIsConfirmed StopReturns
CHECK_DEADLOCK FALSE
