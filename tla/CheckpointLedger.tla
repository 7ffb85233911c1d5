-------------------------- MODULE CheckpointLedger --------------------------
(***************************************************************************)
(* What the checkpoint manager promises its client, without slots, events  *)
(* or threads: a checkpoint is put on the device, accepted (the log has    *)
(* its SUBMITTED record) and reported (its CONFIRMED record); it is        *)
(* reported at most once, never before the device has passed it, and at    *)
(* most Capacity accepted checkpoints of a stream are unreported.          *)
(***************************************************************************)
EXTENDS Integers, FiniteSets

CONSTANTS Streams, Tokens, Capacity

VARIABLES
    queued,    \* checkpoints on the device
    passed,    \* checkpoints the device has passed
    accepted,  \* checkpoints whose submission is on record
    reported   \* checkpoints whose completion is on record

ledger == <<queued, passed, accepted, reported>>

Checkpoints == Streams \X Tokens

Outstanding(s) == {c \in accepted \ reported : c[1] = s}

Init == queued = {} /\ passed = {} /\ accepted = {} /\ reported = {}

Enqueue(c) ==
    /\ c \notin queued \cup passed
    /\ queued' = queued \cup {c}
    /\ UNCHANGED <<passed, accepted, reported>>

Pass(c) ==
    /\ c \in queued
    /\ queued' = queued \ {c}
    /\ passed' = passed \cup {c}
    /\ UNCHANGED <<accepted, reported>>

Accept(c) ==
    /\ c \in (queued \cup passed) \ accepted
    /\ Cardinality(Outstanding(c[1])) < Capacity
    /\ accepted' = accepted \cup {c}
    /\ UNCHANGED <<queued, passed, reported>>

Report(c) ==
    /\ c \in (passed \cap accepted) \ reported
    /\ reported' = reported \cup {c}
    /\ UNCHANGED <<queued, passed, accepted>>

Next == \E c \in Checkpoints : Enqueue(c) \/ Pass(c) \/ Accept(c) \/ Report(c)

Spec == Init /\ [][Next]_ledger
=============================================================================
