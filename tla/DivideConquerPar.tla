--------------------------- MODULE DivideConquerPar ---------------------------
(***************************************************************************)
(* libats/BUCS320/DivideConquerPar: divide and conquer in continuation-    *)
(* passing style.  conquer submits one task per subproblem to a workshop;  *)
(* the continuation of a subproblem stores its result in a cell of the     *)
(* list the parent waits for and decrements the parent's counter, and who  *)
(* brings the counter to zero runs the parent's continuation.  Only the    *)
(* thread that called solve ever waits, on a nwaiter with one ticket.      *)
(*                                                                         *)
(* The workshop's store is the list of fworkshop_chanlst (last in, first   *)
(* out, never full) or the channel of fworkshop_channel (first in, first   *)
(* out; a thread that finds it full runs the task itself).  A call that is *)
(* in progress is a frame on the stack of its thread.                      *)
(***************************************************************************)
EXTENDS Integers, Sequences, FiniteSets

CONSTANTS
    Problem, Sub, Root,   \* see DivideConquer
    Base,                 \* the problems that pass base_test
    Worker,               \* the threads of the workshop
    Main,                 \* the thread that calls solve
    Cap                   \* the capacity of the channel; 0 stands for a chanlst

Subproblems(p) == {Sub[p][i] : i \in DOMAIN Sub[p]}

\* The problems are what divide makes of the root, each of them once.
Tree ==
    /\ \A p \in Problem : Root \notin Subproblems(p)
    /\ \A p, q \in Problem : \A i \in DOMAIN Sub[p], j \in DOMAIN Sub[q] :
          Sub[p][i] = Sub[q][j] => p = q /\ i = j
    /\ \A S \in SUBSET Problem :
          Root \in S /\ (\A p \in S : Subproblems(p) \subseteq S) => S = Problem

DivideConquerParAssumption ==
    /\ Sub \in [Problem -> Seq(Problem)] /\ Root \in Problem /\ Tree
    /\ \A p \in Base : Sub[p] = <<>>
    /\ Main \notin Worker /\ IsFiniteSet(Worker)
    /\ Cap \in Nat

Thread == Worker \cup {Main}

VARIABLES
    store,    \* the submitted tasks, as a sequence of problems
    stack,    \* stack[t]: the calls of t, innermost first
    cells,    \* the problems whose result is in its cell, the root in res
    count,    \* count[p]: the counter that p's subproblems decrement
    freed,    \* the problems whose counter was destroyed
    solved,   \* history: the problems whose continuation was called
    n, mtx, owner, ticket, round   \* the nwaiter: see Nwaiter

Ticket == {"NWT"}
NW == INSTANCE Nwaiter WITH Rounds <- 1, Overlapping <- TRUE, pc <- ticket

waiter == <<n, mtx, owner, ticket, round>>
vars == <<store, stack, cells, count, freed, solved, waiter>>

parent(p) == CHOOSE q \in Problem : p \in Subproblems(q)
IsOnly(p) == Len(Sub[parent(p)]) = 1

\* A call of solve, of loop2 with its list at the i-th subproblem, of the
\* continuation k0 of p, of spinref_decget for p, of nwaiter_ticket_put.
Frame(op, p, i) == [op |-> op, p |-> p, i |-> i]
solve(p) == Frame("solve", p, 0)
loop2(p, i) == Frame("loop2", p, i)
k0(p) == Frame("k0", p, 0)
decget(p) == Frame("decget", p, 0)
put == Frame("put", Root, 0)

FrameSet ==
    [op : {"solve", "loop2", "k0", "decget", "put"}, p : Problem, i : Nat]

Calls(t, op) == stack[t] # <<>> /\ Head(stack[t]).op = op
Top(t) == Head(stack[t]).p
\* The innermost call of t becomes the calls fs.
Becomes(t, fs) == stack' = [stack EXCEPT ![t] = fs \o Tail(@)]

Init ==
    /\ store = <<>>
    /\ stack = [t \in Thread |-> <<>>]
    /\ cells = {} /\ freed = {} /\ solved = {}
    /\ count = [p \in Problem |-> 0]
    /\ NW!Init

\* DivideConquer$solve, up to its call of DivideConquer_cont$solve.
Initiate ==
    /\ NW!Initiate
    /\ UNCHANGED <<store, stack, cells, count, freed, solved>>

Start ==
    /\ \E k \in Ticket : NW!InitiateLock(k)
    /\ stack' = [stack EXCEPT ![Main] = <<solve(Root)>>]
    /\ UNCHANGED <<store, cells, count, freed, solved>>

\* fworker: takes out a task when it has none.
Takeout(t) ==
    /\ stack[t] = <<>> /\ store # <<>>
    /\ stack' = [stack EXCEPT ![t] = <<solve(Head(store))>>]
    /\ store' = Tail(store)
    /\ UNCHANGED <<cells, count, freed, solved, waiter>>

\* Base case, or divide returned no subproblem.
SolveBase(t) ==
    /\ Calls(t, "solve")
    /\ Top(t) \in Base \/ Sub[Top(t)] = <<>>
    /\ Becomes(t, <<k0(Top(t))>>)
    /\ solved' = solved \cup {Top(t)}
    /\ UNCHANGED <<store, cells, count, freed, waiter>>

SolveOne(t) ==
    /\ Calls(t, "solve") /\ Top(t) \notin Base
    /\ Len(Sub[Top(t)]) = 1
    /\ Becomes(t, <<solve(Sub[Top(t)][1])>>)
    /\ UNCHANGED <<store, cells, count, freed, solved, waiter>>

ConquerOneShort(t) ==
    /\ Calls(t, "solve") /\ Top(t) \notin Base
    /\ Len(Sub[Top(t)]) >= 2
    /\ count' = [count EXCEPT ![Top(t)] = Len(Sub[Top(t)]) - 1]
    /\ Becomes(t, <<loop2(Top(t), 1)>>)
    /\ UNCHANGED <<store, cells, freed, solved, waiter>>

Conquer(t) ==
    /\ Calls(t, "solve") /\ Top(t) \notin Base
    /\ Len(Sub[Top(t)]) >= 2
    /\ count' = [count EXCEPT ![Top(t)] = Len(Sub[Top(t)])]
    /\ Becomes(t, <<loop2(Top(t), 1)>>)
    /\ UNCHANGED <<store, cells, freed, solved, waiter>>

\* What is left of loop2 when its current subproblem has been submitted.
Rest(t) ==
    LET f == Head(stack[t])
    IN  IF f.i < Len(Sub[f.p]) THEN <<loop2(f.p, f.i + 1)>> ELSE <<>>

Current(t) == Sub[Top(t)][Head(stack[t]).i]

Submit(t) ==
    /\ Calls(t, "loop2")
    /\ Cap = 0 \/ Len(store) < Cap
    /\ store' = IF Cap = 0 THEN <<Current(t)>> \o store
                           ELSE Append(store, Current(t))
    /\ Becomes(t, Rest(t))
    /\ UNCHANGED <<cells, count, freed, solved, waiter>>

SubmitFullDrop(t) ==
    /\ Calls(t, "loop2")
    /\ Cap # 0 /\ Len(store) = Cap
    /\ Becomes(t, Rest(t))
    /\ UNCHANGED <<store, cells, count, freed, solved, waiter>>

SubmitFull(t) ==
    /\ Calls(t, "loop2")
    /\ Cap # 0 /\ Len(store) = Cap
    /\ Becomes(t, <<solve(Current(t))>> \o Rest(t))
    /\ UNCHANGED <<store, cells, count, freed, solved, waiter>>

\* The continuation of the root: the lambda of DivideConquer$solve.
ReturnRoot(t) ==
    /\ Calls(t, "k0") /\ Top(t) = Root
    /\ cells' = cells \cup {Root}
    /\ Becomes(t, <<put>>)
    /\ UNCHANGED <<store, count, freed, solved, waiter>>

ReturnOnly(t) ==
    /\ Calls(t, "k0") /\ Top(t) # Root /\ IsOnly(Top(t))
    /\ Becomes(t, <<k0(parent(Top(t)))>>)
    /\ solved' = solved \cup {parent(Top(t))}
    /\ UNCHANGED <<store, cells, count, freed, waiter>>

ReturnLate(t) ==
    /\ Calls(t, "k0") /\ Top(t) # Root /\ ~IsOnly(Top(t))
    /\ Becomes(t, <<decget(parent(Top(t)))>>)
    /\ UNCHANGED <<store, cells, count, freed, solved, waiter>>

Return(t) ==
    /\ Calls(t, "k0") /\ Top(t) # Root /\ ~IsOnly(Top(t))
    /\ cells' = cells \cup {Top(t)}
    /\ Becomes(t, <<decget(parent(Top(t)))>>)
    /\ UNCHANGED <<store, count, freed, solved, waiter>>

DecgetTwoLast(t) ==
    /\ Calls(t, "decget")
    /\ LET p == Top(t) IN
          /\ count' = [count EXCEPT ![p] = @ - 1]
          /\ IF count[p] > 2
               THEN Becomes(t, <<>>) /\ UNCHANGED <<freed, solved>>
               ELSE /\ Becomes(t, <<k0(p)>>)
                    /\ freed' = freed \cup {p}
                    /\ solved' = solved \cup {p}
    /\ UNCHANGED <<store, cells, waiter>>

\* The section under the counter's spinlock; the last one destroys the
\* counter and calls the continuation of the parent.
Decget(t) ==
    /\ Calls(t, "decget")
    /\ LET p == Top(t) IN
          /\ count' = [count EXCEPT ![p] = @ - 1]
          /\ IF count[p] > 1
               THEN Becomes(t, <<>>) /\ UNCHANGED <<freed, solved>>
               ELSE /\ Becomes(t, <<k0(p)>>)
                    /\ freed' = freed \cup {p}
                    /\ solved' = solved \cup {p}
    /\ UNCHANGED <<store, cells, waiter>>

TicketPut(t) ==
    /\ Calls(t, "put")
    /\ \E k \in Ticket :
          /\ NW!Put(k)
          /\ Becomes(t, IF ticket'[k] = "spent" THEN <<>> ELSE <<put>>)
    /\ UNCHANGED <<store, cells, count, freed, solved>>

\* The end of DivideConquer$solve, once its call has returned.
Wait ==
    /\ stack[Main] = <<>>
    /\ NW!Waitfor \/ NW!WaitforLock \/ NW!WaitforUnlock \/ (NW!Destroy /\ round = 1)
    /\ UNCHANGED <<store, stack, cells, count, freed, solved>>

Work(t) ==
    \/ SolveBase(t) \/ SolveOne(t) \/ Conquer(t)
    \/ Submit(t) \/ SubmitFull(t)
    \/ ReturnRoot(t) \/ ReturnOnly(t) \/ Return(t) \/ Decget(t) \/ TicketPut(t)

Caller == Initiate \/ Start \/ Wait
Next ==
    \/ Caller
    \/ \E t \in Worker : Takeout(t)
    \/ \E t \in Thread : Work(t)

Spec == Init /\ [][Next]_vars

\* Every thread runs, and a takeout from a store that is not empty returns:
\* Channel and Chanlst show that nobody sleeps beside a task.
Fairness ==
    /\ WF_vars(Caller)
    /\ \A t \in Worker : WF_vars(Takeout(t))
    /\ \A t \in Thread : WF_vars(Work(t))

-----------------------------------------------------------------------------
\* The store holds submitted problems, each thread's stack is made of frames of
\* solve, loop2 and k0, and no counter goes below zero.
TypeOK ==
    /\ store \in Seq(Problem)
    /\ stack \in [Thread -> Seq(FrameSet)]
    /\ cells \subseteq Problem /\ freed \subseteq Problem /\ solved \subseteq Problem
    /\ count \in [Problem -> Nat]
    /\ NW!TypeOK

Combining(t, p) == Calls(t, "k0") /\ Top(t) = p

\* combine never reads a cell that no subproblem has written yet, although the
\* list is made of uninitialised cells and read without a lock; and when solve
\* reads res, the root's continuation has stored it, every task is done and no
\* thread touches the nwaiter that is destroyed next.
CellsWritten ==
    /\ \A t \in Thread, p \in Problem :
          Combining(t, p) /\ Len(Sub[p]) >= 2 => Subproblems(p) \subseteq cells
    /\ owner \in {"idle", "destroyed"} /\ round = 1 =>
          /\ Root \in cells /\ solved = Problem /\ store = <<>>
          /\ \A t \in Thread : ~Calls(t, "put")

\* Nobody decrements a counter after the last one has destroyed it.
CounterAlive == \A t \in Thread : Calls(t, "decget") => Top(t) \notin freed

\* A call of solve returns: the one thread that waits never waits in vain.
Answers == <>(owner = "destroyed")
=============================================================================
