SPECIFICATION FairSpec
CONSTANTS
    QueueSize = 2
    MaxActivities = 1
    MaxToggles = 1
    MaxFaults = 1
INVARIANTS TypeOK CleanSummaryIsTrue MonitorsAgree
PROPERTIES ImplementsLog PeriodicallyDurable FollowsControl
CHECK_DEADLOCK FALSE
