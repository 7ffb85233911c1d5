\* Two writers wrap a three-slot ring under a reader; stores in order.
CONSTANTS
    w1 = w1
    w2 = w2
    Writers = {w1, w2}
    Capacity = 3
    MaxSeq = 4
    MaxDepth = 2
    Gaps <- OneGap
    InOrder = TRUE
SPECIFICATION RingSpec
INVARIANTS ReadIsIntact ReadIsComplete OpenCallsAreOpen
CHECK_DEADLOCK FALSE
