\* Stores of one call become visible in any order before seq is published.
CONSTANTS
    w1 = w1
    w2 = w2
    w3 = w3
    Writers = {w1, w2}
    Capacity = 2
    MaxSeq = 3
    InOrder = FALSE
SPECIFICATION Spec
INVARIANTS TypeOK FinishedIsRetained QuietSlotsAreRead
SYMMETRY WriterSymmetry
CHECK_DEADLOCK FALSE
