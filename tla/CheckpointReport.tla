-------------------------- MODULE CheckpointReport --------------------------
(***************************************************************************)
(* What src/flightrecorder/analyzer.py concludes from the checkpoint       *)
(* records of one rank.  A view V is any set of records the reader may     *)
(* hand to it: the recorder's ring forgets, so V need not be the full log. *)
(* The analyzer sorts a stream's SUBMITTED records by seq and speaks of    *)
(* list positions; here the seq itself stands for the position.            *)
(***************************************************************************)
EXTENDS Integers, FiniteSets

\* (stream, correlation_id, arg0, arg1): the exact pairing.
Key(r) == <<r.stream, r.tok, r.gen>>

SubmittedIn(V) == {r \in V : r.kind = "SUBMITTED"}
ConfirmedIn(V) == {r \in V : r.kind = "CONFIRMED" /\ r.gen # 0}

ExactKeys(V) == {Key(r) : r \in ConfirmedIn(V)}

ConfirmedSubmits(V, s) ==
    {r \in SubmittedIn(V) : r.stream = s /\ Key(r) \in ExactKeys(V)}

\* Everything up to the last exactly confirmed checkpoint of the stream is
\* reported as confirmed: exactly, or "confirmed_by_later_checkpoint".
ReportedConfirmed(V, s) ==
    {r \in SubmittedIn(V) : /\ r.stream = s
                            /\ \E c \in ConfirmedSubmits(V, s) : r.seq =< c.seq}

Status(V, r) ==
    IF Key(r) \in ExactKeys(V) THEN "confirmed_exact"
    ELSE IF r \in ReportedConfirmed(V, r.stream) THEN "confirmed_by_later_checkpoint"
    ELSE "unconfirmed"

\* "after": the checkpoints past the watermark.
Unconfirmed(V, s) ==
    {r \in SubmittedIn(V) : r.stream = s} \ ReportedConfirmed(V, s)

\* The count behind "explicit NOT_READY observations".
NotReadyObserved(V, s) ==
    {r \in Unconfirmed(V, s) :
        \E n \in V : n.kind = "NOT_READY" /\ Key(n) = Key(r)}

\* Confirmations listed as stale/unmatched.
Stale(V) == {r \in ConfirmedIn(V) : \A q \in SubmittedIn(V) : Key(q) # Key(r)}

\* The pool-full and query-error records a report prints as warnings.
Warnings(V) == {r \in V : r.kind \in {"POOL_FULL", "QUERY_ERROR"}}
=============================================================================
