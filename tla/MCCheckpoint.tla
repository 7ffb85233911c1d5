---------------------------- MODULE MCCheckpoint ----------------------------
(* Instances of Checkpoint for TLC: who submits to which stream. *)
EXTENDS CheckpointProps

\* Every thread submits to every stream.
SharedFeeds == [t \in Submitters |-> Streams]
=============================================================================
