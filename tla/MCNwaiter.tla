------------------------------ MODULE MCNwaiter ------------------------------
(* Nwaiter for TLC: tickets that are put together, in one round. *)
EXTENDS Nwaiter
CONSTANTS k1, k2, k3
MCTicket == {k1, k2, k3}
=============================================================================
