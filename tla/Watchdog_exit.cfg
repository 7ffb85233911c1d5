\* A process that exits between the two alive tests of one round.
CONSTANTS
    NumProcs = 1
    Early = {1}
    Monitored = {1}
    MaxRecords = 1
SPECIFICATION Spec
INVARIANTS NoExitMissed
CHECK_DEADLOCK FALSE
