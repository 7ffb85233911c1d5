\* A live copy: the weakest case, stores in program order.
CONSTANTS
    w1 = w1
    w2 = w2
    w3 = w3
    Writers = {w1, w2}
    Capacity = 2
    MaxSeq = 3
    InOrder = TRUE
SPECIFICATION Spec
INVARIANTS AcceptedIsIntact
SYMMETRY WriterSymmetry
CHECK_DEADLOCK FALSE
