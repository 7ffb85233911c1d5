\* One event used again and again: three checkpoints through one slot.
CONSTANTS
    NumStreams = 1
    SlotsPerStream = 1
    CursorMod = 2
    Budget = 1
    Submitters = {t1, t2}
    Feeds <- SharedFeeds
    Callers = {c1}
    Poller = pl
    MaxCalls = 3
    MaxFaults = 2
SPECIFICATION Spec
INVARIANTS TypeOK ExclusiveSlot EventKeptWhilePending DestroyIsFinal ConfirmationIsFact
           StatusOncePerUse
PROPERTIES ImplementsLedger
CHECK_DEADLOCK FALSE
