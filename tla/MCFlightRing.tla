---------------------------- MODULE MCFlightRing ----------------------------
(* Instances of FlightRing for TLC. *)
EXTENDS FlightRing, TLC

CONSTANTS w1, w2, w3

WriterSymmetry == Permutations(Writers)
=============================================================================
