----------------------------- MODULE MCMsptiRing -----------------------------
(* Instance of the msPTI ring for model checking.                          *)
EXTENDS MsptiRing

CONSTANTS w1, w2

\* A thread may lose the records of some callbacks once a record has been written,
\* its own or the other's.
OneGap == {<<w1, 1>>}
=============================================================================
