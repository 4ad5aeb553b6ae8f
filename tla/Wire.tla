--------------------------------- MODULE Wire ---------------------------------
(***************************************************************************)
(* What linking promises (basis_ssntype.sats, channel1_link): who holds    *)
(* the writing end of one channel and the reading end of the next may join *)
(* the two and leave.  What the writer of the second sends then reaches    *)
(* the reader of the first, after what was sent on the first.              *)
(*                                                                         *)
(* Segment k of the wire is written by thread k, and read by thread k - 1  *)
(* and, after that, by whom thread k - 1 has joined it to.                 *)
(***************************************************************************)
EXTENDS Naturals, Sequences

CONSTANTS N, Cap, Messages

VARIABLES
    segs,     \* segs[k]: the messages on segment k
    joined,   \* the threads that have joined the segments beside them
    rcvd      \* rcvd[t]: what thread t has received, in order

vars == <<segs, joined, rcvd>>

Init ==
    /\ segs = [k \in 1..N |-> <<>>]
    /\ joined = {}
    /\ rcvd = [t \in 0..N |-> <<>>]

Insert(t, x) ==
    /\ t \notin joined
    /\ Len(segs[t]) < Cap
    /\ segs' = [segs EXCEPT ![t] = Append(@, x)]
    /\ UNCHANGED <<joined, rcvd>>

\* From the first segment that has a message, up to where the wire is joined.
Remove(t, k) ==
    /\ t \notin joined
    /\ segs[k] # <<>>
    /\ \A j \in t + 1..k - 1 : j \in joined /\ segs[j] = <<>>
    /\ rcvd' = [rcvd EXCEPT ![t] = Append(@, Head(segs[k]))]
    /\ segs' = [segs EXCEPT ![k] = Tail(@)]
    /\ UNCHANGED joined

Link(t) ==
    /\ t \notin joined
    /\ joined' = joined \cup {t}
    /\ UNCHANGED <<segs, rcvd>>

Next ==
    \/ \E t \in 1..N : \E x \in Messages : Insert(t, x)
    \/ \E t \in 0..N - 1 : \E k \in t + 1..N : Remove(t, k)
    \/ \E t \in 1..N - 1 : Link(t)

Spec == Init /\ [][Next]_vars
=============================================================================
