----------------------------- MODULE MCParallel -----------------------------
(***************************************************************************)
(* DivideConquerPar, StreamPar and Fworkshop for TLC.  A behaviour is one  *)
(* of the call, or of the workshop by itself, that use names; the          *)
(* variables of the others keep their initial values.  The two calls,      *)
(* which both wait on a nwaiter, have the workshop's store and the         *)
(* nwaiter's variables in common.                                          *)
(***************************************************************************)
EXTENDS Naturals, Sequences

CONSTANTS
    caller,                             \* the thread that calls
    Problem, Sub, Root, Base, Solver, Cap,   \* of DivideConquerPar
    Streamer, Size,                     \* of StreamPar
    Worker, Fwork, None, NoThread       \* of Fworkshop

CONSTANTS w1, w2, w3, x1, x2, x3

VARIABLES
    use,
    store, n, mtx, owner, ticket, round,
    stack, cells, count, freed, solved,
    nwork, at, elt, done, main,
    workerlst, state, adding, processed, late, buf, mut, pc, call, val, given

common == <<store, n, mtx, owner, ticket, round>>
solver == <<stack, cells, count, freed, solved>>
streampar == <<nwork, at, elt, done, main>>
workshop == <<workerlst, state, adding, processed, late,
              buf, mut, pc, call, val, given>>
vars == <<use, common, solver, streampar, workshop>>

\* Problem 1 is divided into three, of which 2 is divided again, 3 has one
\* subproblem and 4 divides into nothing although it is no base case.
MCProblem == 1..7
MCSub == <<<<2, 3, 4>>, <<5, 6>>, <<7>>, <<>>, <<>>, <<>>, <<>>>>
MCBase == {5, 6, 7}
MCWorker == {w1, w2}
MCStreamer == {w1, w2, w3}
MCFwork == {x1, x2, x3}

\* Over a list, and over a channel, which in the run holds one element and is
\* mostly full.
DL == INSTANCE DivideConquerPar WITH Worker <- Solver, Main <- caller, Cap <- 0
DQ == INSTANCE DivideConquerPar WITH Worker <- Solver, Main <- caller

SP == INSTANCE StreamPar WITH Worker <- Streamer

\* Workers may be added at any time, and works may end them.
WS == INSTANCE Fworkshop
        WITH Main <- caller, Status <- {"negative", "nonnegative"}

ASSUME DivideConquerParAssumption ==
    /\ DL!DivideConquerParAssumption /\ DQ!DivideConquerParAssumption
    /\ Cap # 0
ASSUME StreamParAssumption == SP!StreamParAssumption
ASSUME FworkshopAssumption == WS!FworkshopAssumption

Init ==
    /\ use \in {"solve", "solve_channel", "streampar", "workshop"}
    /\ DL!Init /\ SP!Init /\ WS!Init

Next ==
    /\ \/ use = "solve" /\ DL!Next /\ UNCHANGED <<streampar, workshop>>
       \/ use = "solve_channel" /\ DQ!Next /\ UNCHANGED <<streampar, workshop>>
       \/ use = "streampar" /\ SP!Next /\ UNCHANGED <<solver, workshop>>
       \/ use = "workshop" /\ WS!Next /\ UNCHANGED <<common, solver, streampar>>
    /\ UNCHANGED use

solving == <<common, solver>>
streaming == <<common, streampar>>

\* The fairness of each module, in the behaviours that use it.
Spec ==
    /\ Init /\ [][Next]_vars
    /\ WF_solving(use = "solve" /\ DL!Caller)
    /\ \A t \in Solver : WF_solving(use = "solve" /\ DL!Takeout(t))
    /\ \A t \in Solver \cup {caller} : WF_solving(use = "solve" /\ DL!Work(t))
    /\ WF_solving(use = "solve_channel" /\ DQ!Caller)
    /\ \A t \in Solver : WF_solving(use = "solve_channel" /\ DQ!Takeout(t))
    /\ \A t \in Solver \cup {caller} : WF_solving(use = "solve_channel" /\ DQ!Work(t))
    /\ WF_streaming(use = "streampar" /\ SP!Caller)
    /\ \A t \in Streamer : WF_streaming(use = "streampar" /\ SP!Work(t))
    /\ WS!Fairness

-----------------------------------------------------------------------------
Solving == use \in {"solve", "solve_channel"}
Streaming == use = "streampar"

\* Results are read after they were written: see DivideConquerPar.
CellsWritten == Solving => DL!CellsWritten
\* No counter is decremented after it was destroyed.
CounterAlive == DL!CounterAlive
\* Every problem is solved once, after its subproblems, and the caller gets
\* the result after that, whoever solves what in which order: what
\* DivideConquerPar does is what DivideConquer promises.
DC == INSTANCE DivideConquer
        WITH answered <- Solving /\ owner = "destroyed"
ImplementsDivideConquer == DC!Spec
\* The caller's frame outlives all accesses to nwork: see StreamPar.
FrameOutlived == Streaming => SP!FrameOutlived
\* No element of the stream is given to two threads, and no work of the
\* workshop is called twice.
HandedOnce == (Streaming => SP!OneHand) /\ WS!CalledOnce
\* A call of DivideConquer$solve or of streampar_foreach returns: the one
\* thread that waits never waits in vain.
CallReturns == (Solving => DL!Answers) /\ (Streaming => SP!Returns)

\* get_nworker: see Fworkshop.
WorkersListed == WS!WorkersListed
\* Every work inserted is called, unless works end the last worker.
WorkDone == WS!WorkDone
=============================================================================
