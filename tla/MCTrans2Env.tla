---------------------------- MODULE MCTrans2Env ----------------------------
(***************************************************************************)
(* Trans2Env, Trans1Files and Trywith for TLC.  A behaviour is one of the  *)
(* module that use names; the variables of the others keep their initial   *)
(* values.  Names, and two of the files, are interchangeable.              *)
(***************************************************************************)
EXTENDS Trans2Env, TLC

CONSTANTS
    SourceFile, MaxSource, MaxInputs,   \* of Trans1Files
    MaxCalls, MaxNest                   \* of Trywith

CONSTANTS n1, n2, f1, f2, f3

VARIABLES
    use,
    text, stack, calls, table, failed, broken, given, combined, phase,
    within, frames, status

trans2env == vars
trans1files == <<text, stack, calls, table, failed, broken, given, combined, phase>>
trywith == <<within, frames, status>>
mcvars == <<use, trans2env, trans1files, trywith>>

MCName == {n1, n2}
MCFile == {f1, f2}
MCSourceFile == {f1, f2, f3}
Symmetry == Permutations(MCName) \cup Permutations(MCFile)

\* Three declarations make a cycle of three files, or a second staload of a
\* file; two inputs, of which the first has no errors.
T1 == INSTANCE Trans1Files
    WITH File <- SourceFile, NoFile <- Main, MaxDecls <- MaxSource,
         MaxCombined <- 1, KeepGoing <- FALSE

\* No try is left by $break or $continue.
TW == INSTANCE Trywith WITH JumpOut <- FALSE, calls <- within

ASSUME Trans1FilesAssumption == T1!Trans1FilesAssumption
ASSUME TrywithAssumption == TW!TrywithAssumption

MCInit ==
    /\ use \in {"trans2env", "trans1files", "trywith"}
    /\ Init /\ T1!Init /\ TW!Init

MCNext ==
    /\ \/ use = "trans2env" /\ Next /\ UNCHANGED <<trans1files, trywith>>
       \/ use = "trans1files" /\ T1!Next /\ UNCHANGED <<trans2env, trywith>>
       \/ use = "trywith" /\ TW!Next /\ UNCHANGED <<trans2env, trans1files>>
    /\ UNCHANGED use

MCSpec == MCInit /\ [][MCNext]_mcvars

-----------------------------------------------------------------------------
\* Trans2Env is extended: its properties are checked as they stand there.

\* A file is refused exactly if it would be translated within itself: see
\* NoCycle and RefusedLoops in Trans1Files.
CyclesRefused == T1!NoCycle /\ T1!RefusedLoops
\* The current file follows the recursion of the first translation.
CurrentFile == T1!CurrentFile
\* A raised exception goes to the innermost try: see Trywith.
HandledInnermost == TW!HandledInnermost
=============================================================================
