\* The example with two ranks; programs of one rank with five calls.
CONSTANTS
    Ranks = {4, 6}
    Streams <- AllStreams
    MissingRank = 6
    SlowCalls <- Waits
    MaxDumps = 2
    ProgramLength = 5
    Jobs <- FewJobs
SPECIFICATION Spec
INVARIANTS TypeOK  CyclesAreDeadlocks DeadlocksAreReported
CHECK_DEADLOCK FALSE
