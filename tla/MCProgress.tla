----------------------------- MODULE MCProgress -----------------------------
(* Instances of Progress for TLC: two chunks of two reads. *)
EXTENDS Progress

CONSTANTS c1, c2
=============================================================================
