\* Three toggles and two failures; more activities than buffers complete.
CONSTANTS
    NumBuffers = 2
    NumSwitches = 3
    MaxToggles = 3
    MaxFaults = 2
    MaxActivities = 4
SPECIFICATION FairSpec
INVARIANTS TypeOK BufferHasOneHolder AccountedFor KeptAcrossStop MirrorsLibrary SwitchesAsReported
PROPERTIES FollowsControl
CHECK_DEADLOCK FALSE
