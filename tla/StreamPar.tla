------------------------------- MODULE StreamPar -------------------------------
(***************************************************************************)
(* libats/BUCS320/StreamPar: streampar_foreach applies a function to every *)
(* element of a lazy stream, in the threads of a workshop.  One task at a  *)
(* time holds the rest of the stream; it takes the next element, submits   *)
(* the task for what follows and then processes its element.  nwork counts *)
(* that task and the elements being processed; it is a variable in the     *)
(* stack frame of the caller, accessed under the workshop's spinlock, and  *)
(* who sees it at zero puts the one ticket the caller waits for.           *)
(*                                                                         *)
(* A section under the spinlock is one step.  Between steps a thread is at *)
(* a label; the store is a chanlst, as the code's fworkshop is.            *)
(***************************************************************************)
EXTENDS Integers, Sequences, FiniteSets

CONSTANTS
    Worker,    \* the threads of the workshop
    Size       \* bound: the number of elements of the stream

StreamParAssumption == Size \in Nat /\ IsFiniteSet(Worker)

Element == 1..Size
Ticket == {"NWT"}

VARIABLES
    store,     \* the submitted tasks; task i is fwork2 at the i-th element
    nwork,     \* the counter
    at,        \* at[t]: where worker t is
    elt,       \* elt[t]: the element that t is at
    done,      \* history: the elements processed
    main,      \* the caller: "create", "insert", "wait"
    n, mtx, owner, ticket, round   \* the nwaiter: see Nwaiter

NW == INSTANCE Nwaiter WITH Rounds <- 1, Overlapping <- TRUE, pc <- ticket

waiter == <<n, mtx, owner, ticket, round>>
vars == <<store, nwork, at, elt, done, main, waiter>>

\* "fwork2": about to lock and look at the stream; "insert": about to submit
\* the rest; "fwork": processing elt[t]; "sub": about to lock and uncount it;
\* "put": in nwaiter_ticket_put.
At == {"idle", "fwork2", "insert", "fwork", "sub", "put"}

\* The counter of elements never goes below zero, and each worker is at a place
\* of fwork2.
TypeOK ==
    /\ store \in Seq(1..Size + 1)
    /\ nwork \in Nat
    /\ at \in [Worker -> At]
    /\ elt \in [Worker -> 0..Size + 1]
    /\ done \subseteq Element
    /\ main \in {"create", "insert", "wait"}
    /\ NW!TypeOK

Init ==
    /\ store = <<>>
    /\ nwork = 1
    /\ at = [t \in Worker |-> "idle"]
    /\ elt = [t \in Worker |-> 0]
    /\ done = {}
    /\ main = "create"
    /\ NW!Init

Create ==
    /\ main = "create"
    /\ \/ NW!Initiate /\ UNCHANGED main
       \/ main' = "insert" /\ \E k \in Ticket : NW!InitiateLock(k)
    /\ UNCHANGED <<store, nwork, at, elt, done>>

Insert ==
    /\ main = "insert"
    /\ store' = <<1>> \o store
    /\ main' = "wait"
    /\ UNCHANGED <<nwork, at, elt, done, waiter>>

Wait ==
    /\ main = "wait"
    /\ NW!Waitfor \/ NW!WaitforLock \/ NW!WaitforUnlock \/ NW!Destroy
    /\ UNCHANGED <<store, nwork, at, elt, done, main>>

Takeout(t) ==
    /\ at[t] = "idle" /\ store # <<>>
    /\ elt' = [elt EXCEPT ![t] = Head(store)]
    /\ at' = [at EXCEPT ![t] = "fwork2"]
    /\ store' = Tail(store)
    /\ UNCHANGED <<nwork, done, main, waiter>>

\* freturn_spin_unlock: after the counter was set to m under the lock.
Goes(t, m) == at' = [at EXCEPT ![t] = IF m <= 0 THEN "put" ELSE "idle"]

StreamNil(t) ==
    /\ at[t] = "fwork2" /\ elt[t] > Size
    /\ nwork' = nwork - 1
    /\ Goes(t, nwork')
    /\ UNCHANGED <<store, elt, done, main, waiter>>

StreamConsUncounted(t) ==
    /\ at[t] = "fwork2" /\ elt[t] <= Size
    /\ nwork' = IF elt[t] = Size THEN nwork ELSE nwork + 1
    /\ at' = [at EXCEPT ![t] = "insert"]
    /\ UNCHANGED <<store, elt, done, main, waiter>>

StreamCons(t) ==
    /\ at[t] = "fwork2" /\ elt[t] <= Size
    /\ nwork' = nwork + 1
    /\ at' = [at EXCEPT ![t] = "insert"]
    /\ UNCHANGED <<store, elt, done, main, waiter>>

SubmitSame(t) ==
    /\ at[t] = "insert"
    /\ store' = <<elt[t]>> \o store
    /\ at' = [at EXCEPT ![t] = "fwork"]
    /\ UNCHANGED <<nwork, elt, done, main, waiter>>

Submit(t) ==
    /\ at[t] = "insert"
    /\ store' = <<elt[t] + 1>> \o store
    /\ at' = [at EXCEPT ![t] = "fwork"]
    /\ UNCHANGED <<nwork, elt, done, main, waiter>>

\* streampar_foreach$fwork.
Process(t) ==
    /\ at[t] = "fwork"
    /\ done' = done \cup {elt[t]}
    /\ at' = [at EXCEPT ![t] = "sub"]
    /\ UNCHANGED <<store, nwork, elt, main, waiter>>

Finish(t) ==
    /\ at[t] = "sub"
    /\ nwork' = nwork - 1
    /\ Goes(t, nwork')
    /\ UNCHANGED <<store, elt, done, main, waiter>>

TicketPut(t) ==
    /\ at[t] = "put"
    /\ \E k \in Ticket :
          /\ NW!Put(k)
          /\ at' = [at EXCEPT ![t] = IF ticket'[k] = "spent" THEN "idle" ELSE "put"]
    /\ UNCHANGED <<store, nwork, elt, done, main>>

Caller == Create \/ Insert \/ Wait
Work(t) ==
    \/ Takeout(t) \/ StreamNil(t) \/ StreamCons(t) \/ Submit(t)
    \/ Process(t) \/ Finish(t) \/ TicketPut(t)
Next == Caller \/ \E t \in Worker : Work(t)

Spec == Init /\ [][Next]_vars

\* Threads run, spinlocks are granted, and the processing of an element ends.
Fairness == WF_vars(Caller) /\ \A t \in Worker : WF_vars(Work(t))

-----------------------------------------------------------------------------
Counting == {t \in Worker : at[t] \in {"insert", "fwork", "sub"}}
\* Does some task or thread still hold the rest of the stream?
Chain == store # <<>> \/ \E t \in Worker : at[t] \in {"fwork2", "insert"}

\* When the caller goes on, every element has been processed, and no thread
\* can touch nwork any more, which goes out of scope with the caller's frame.
FrameOutlived ==
    main = "wait" /\ owner \in {"passed", "idle", "destroyed"} =>
        /\ done = Element
        /\ Counting = {} /\ ~Chain

\* The rest of the stream is in one hand: no element is given to two threads,
\* although tasks are handed from thread to thread through the store.
OneHand ==
    /\ Len(store) + Cardinality({t \in Worker : at[t] \in {"fwork2", "insert"}}) <= 1
    /\ \A t, u \in Counting : elt[t] = elt[u] => t = u

\* streampar_foreach returns: somebody brings the counter to zero.
Returns == <>(owner = "destroyed")
=============================================================================
