\* Two processes, one of them monitored: stalls and exits while the loop runs.
CONSTANTS
    NumProcs = 2
    Early = {1}
    Monitored = {1}
    MaxRecords = 1
SPECIFICATION FairSpec
INVARIANTS TypeOK ExitDumpIsFinal CapturedOnce
PROPERTIES DumpsAreComplete StallCaptured ExitCaptured
CHECK_DEADLOCK FALSE
