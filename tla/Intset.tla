-------------------------------- MODULE Intset --------------------------------
(***************************************************************************)
(* mysession-g/DATS/basis_intset.dats: a set of roles is the list of its   *)
(* elements in increasing order.                                           *)
(***************************************************************************)
EXTENDS Integers, Sequences

intset(n) == {xs \in UNION {[1..k -> 0..n - 1] : k \in 0..n} :
                 \A h, k \in DOMAIN xs : h < k => xs[h] < xs[k]}

elements(xs) == {xs[k] : k \in DOMAIN xs}

\* The merge of two lists.
intset_union[xs \in Seq(Int) \X Seq(Int)] ==
    LET xs1 == xs[1]
        xs2 == xs[2]
        x1 == Head(xs1)
        x2 == Head(xs2)
    IN  IF xs1 = <<>> THEN xs2
        ELSE IF xs2 = <<>> THEN xs1
        ELSE IF x1 < x2 THEN <<x1>> \o intset_union[<<xs2, Tail(xs1)>>]
        ELSE IF x1 > x2 THEN <<x2>> \o intset_union[<<xs1, Tail(xs2)>>]
        ELSE <<x1>> \o intset_union[<<Tail(xs1), Tail(xs2)>>]

aux1(i, n) == [k \in 1..n - i |-> i + k - 1]

\* The numbers below n that are not in xs: aux2 looks at those from i on.
intset_ncomplement(xs, n) ==
    LET aux2[a \in Nat \X Seq(0..n - 1)] ==
            LET i == a[1]
                ys == a[2]
            IN  IF ys = <<>> THEN aux1(i, n)
                ELSE IF i < Head(ys) THEN <<i>> \o aux2[<<i + 1, ys>>]
                ELSE aux2[<<i + 1, Tail(ys)>>]
    IN  aux2[<<0, xs>>]

\* The pairs that intset2_foreach_cloref visits.
intset2_foreach(xs, ys) == elements(xs) \X elements(ys)
=============================================================================
