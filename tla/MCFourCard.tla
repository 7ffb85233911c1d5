----------------------------- MODULE MCFourCard -----------------------------
(***************************************************************************)
(* Instances of FourCard for TLC: the example itself, and every program of *)
(* one rank with ProgramLength calls that record two events on, or have    *)
(* them waited for by, two streams.                                        *)
(***************************************************************************)
EXTENDS FourCard

CONSTANT ProgramLength

AllStreams == {"compute", "transfer", "default"}

Calls == {"record", "wait"} \X {"compute", "transfer"} \X {1, 2}

\* A call submits an operation, then logs it.
Call(c, first) ==
    IF first THEN Submit(c[1], c[2], c[3])
             ELSE Record(IF c[1] = "record" THEN "EVENT_RECORD" ELSE "EVENT_WAIT", c[2], c[3])

\* Streams and events are numbered as they come.
Programs == {p \in [1..ProgramLength -> Calls] : p[1][2] = "compute" /\ p[1][3] = 1}

Program(p) == [i \in 1..(2 * ProgramLength) |-> Call(p[(i + 1) \div 2], i % 2 = 1)]

\* The first collective, whose call may block, and whatever waits.
Waits == {Submit("collective", "default", 1), Synchronize, Gate}

FewJobs ==
    {[r \in Ranks |-> Worker(r)]} \cup
    {[r \in Ranks |-> IF r = MissingRank THEN Program(p) ELSE << >>] : p \in Programs}
=============================================================================
