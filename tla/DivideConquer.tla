---------------------------- MODULE DivideConquer ----------------------------
(***************************************************************************)
(* What DivideConquer$solve promises (libats/BUCS320/DivideConquer): each  *)
(* subproblem is solved once, after the subproblems it was divided into,   *)
(* and the caller is given the solution of the whole.                      *)
(***************************************************************************)
EXTENDS Sequences

CONSTANTS
    Problem,  \* the root and every subproblem it is divided into
    Sub,      \* Sub[p]: the list that divide returns; <<>> for a base case too
    Root

VARIABLES
    solved,   \* the problems that have a solution
    answered  \* has the caller got the solution of Root?

Subproblems(p) == {Sub[p][i] : i \in DOMAIN Sub[p]}

Init == solved = {} /\ answered = FALSE

Solve(p) ==
    /\ p \notin solved /\ Subproblems(p) \subseteq solved
    /\ solved' = solved \cup {p}
    /\ UNCHANGED answered

Answer ==
    /\ Root \in solved /\ ~answered
    /\ answered' = TRUE
    /\ UNCHANGED solved

Next == Answer \/ \E p \in Problem : Solve(p)

Spec == Init /\ [][Next]_<<solved, answered>>
=============================================================================
