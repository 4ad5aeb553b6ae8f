---------------------------- MODULE BoundedDeque ----------------------------
(***************************************************************************)
(* What libats/SATS/deqarray.sats promises of deqarray(a, m, n): a         *)
(* double-ended queue of at most m elements.  The statically typed         *)
(* preconditions (m > n to insert, n > 0 to take out, i < n to index) are  *)
(* guards here.  An Option_vt(a) result is a sequence: <<>> is None_vt,    *)
(* <<x>> is Some_vt(x).                                                    *)
(***************************************************************************)
EXTENDS Naturals, Sequences

CONSTANTS Value, Cap

VARIABLES
    content,   \* the n elements, first to last
    ret        \* the result of the last operation

vars == <<content, ret>>

Init == content = <<>> /\ ret = <<>>

InsertAtBeg(x) ==
    /\ Len(content) < Cap
    /\ content' = <<x>> \o content
    /\ ret' = <<>>

InsertAtEnd(x) ==
    /\ Len(content) < Cap
    /\ content' = Append(content, x)
    /\ ret' = <<>>

\* A refused insertion hands the element back to its (linear) owner.
InsertRefused(x) ==
    /\ Len(content) = Cap
    /\ ret' = <<x>>
    /\ UNCHANGED content

TakeoutAtBeg ==
    /\ content # <<>>
    /\ ret' = <<Head(content)>>
    /\ content' = Tail(content)

TakeoutAtEnd ==
    /\ content # <<>>
    /\ ret' = <<content[Len(content)]>>
    /\ content' = SubSeq(content, 1, Len(content) - 1)

TakeoutRefused ==
    /\ content = <<>>
    /\ ret' = <<>>
    /\ UNCHANGED content

GetAt(i) ==
    /\ i < Len(content)
    /\ ret' = <<content[i + 1]>>
    /\ UNCHANGED content

SetAt(i, x) ==
    /\ i < Len(content)
    /\ content' = [content EXCEPT ![i + 1] = x]
    /\ ret' = <<>>

\* Operations whose result is not an element: observers, foreach, free, make.
Quiet == UNCHANGED content /\ ret' = <<>>

Next ==
    \/ \E x \in Value : InsertAtBeg(x) \/ InsertAtEnd(x) \/ InsertRefused(x)
    \/ TakeoutAtBeg \/ TakeoutAtEnd \/ TakeoutRefused
    \/ \E i \in 0 .. Cap : GetAt(i) \/ \E x \in Value : SetAt(i, x)
    \/ Quiet

Spec == Init /\ [][Next]_vars
=============================================================================
