----------------------------- MODULE MCDeqarray -----------------------------
(* Deqarray for TLC: two elements.                                         *)
EXTENDS Deqarray
CONSTANTS a, b
MCValue == {a, b}
=============================================================================
