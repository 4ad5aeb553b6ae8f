---------------------------- MODULE MCPatsopt ------------------------------
(* Patsopt for TLC:   two names, two files besides the input.  Names, and  *)
(* files, are interchangeable.                                             *)
EXTENDS Patsopt, TLC
CONSTANTS n1, n2, f1, f2

MCName == {n1, n2}
MCFile == {f1, f2}
Symmetry == Permutations(MCName) \cup Permutations(MCFile)
=============================================================================
