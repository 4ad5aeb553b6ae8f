-------------------------------- MODULE MCUchan --------------------------------
(***************************************************************************)
(* Uchan for TLC: the two ends of one uchan are closed when its messages   *)
(* have been received, by calls of uchan_unref that may overlap.           *)
(***************************************************************************)
EXTENDS Uchan

MCPrograms ==
    {[t \in 0..1 |-> IF t = 0 THEN <<"remove", "remove", "remove", "close_in">>
                     ELSE <<"insert", "insert", "insert", "close_out">>]}
=============================================================================
