--------------------------- MODULE MCLinearTypes ---------------------------
(* LinearTypes for TLC: two variables; spec is a subtype of gen.           *)
EXTENDS LinearTypes, TLC
CONSTANTS x, y, gen, spec

MCVar == {x, y}
MCType == {gen, spec}
MCSub == {<<gen, gen>>, <<spec, spec>>, <<spec, gen>>}
Symmetry == Permutations(MCVar)
=============================================================================
