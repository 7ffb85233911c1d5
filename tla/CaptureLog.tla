----------------------------- MODULE CaptureLog -----------------------------
(***************************************************************************)
(* What a capture promises: a log that is written in the order in which    *)
(* its records were accepted, that counts every record it was offered and  *)
(* did not accept, and that is closed only when it holds all it accepted.  *)
(***************************************************************************)
EXTENDS Naturals, Sequences

CONSTANT Records

VARIABLES
    offered,   \* how many records it was offered
    accepted,  \* the records taken so far, in order
    stored,    \* how many of them the file has
    lost,      \* records refused, as reported
    ended      \* "no", "closed" or "failed"

vars == <<offered, accepted, stored, lost, ended>>

Init == offered = 0 /\ accepted = << >> /\ stored = 0 /\ lost = 0 /\ ended = "no"

\* A record offered is taken, or counted.
Accept(r) ==
    /\ offered' = offered + 1 /\ accepted' = Append(accepted, r)
    /\ UNCHANGED <<stored, lost, ended>>

Refuse ==
    /\ offered' = offered + 1 /\ lost' = lost + 1
    /\ UNCHANGED <<accepted, stored, ended>>

Store ==
    /\ ended = "no" /\ stored < Len(accepted)
    /\ stored' = stored + 1
    /\ UNCHANGED <<offered, accepted, lost, ended>>

\* A record may be taken from the queue and never written when the log fails.
Fail ==
    /\ ended = "no" /\ ended' = "failed"
    /\ UNCHANGED <<offered, accepted, stored, lost>>

Close ==
    /\ ended = "no" /\ stored = Len(accepted)
    /\ ended' = "closed"
    /\ UNCHANGED <<offered, accepted, stored, lost>>

Next == (\E r \in Records : Accept(r)) \/ Refuse \/ Store \/ Fail \/ Close

Spec == Init /\ [][Next]_vars
=============================================================================
