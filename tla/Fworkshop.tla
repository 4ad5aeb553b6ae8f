------------------------------ MODULE Fworkshop ------------------------------
(***************************************************************************)
(* fworkshop/DATS/fworkshop.dats over a chanlst (fworkshop_chanlst.dats):  *)
(* workers are detached threads that take a fwork out of the store, call   *)
(* it, and go on while its status is not negative; a worker that ends      *)
(* takes its thread identifier off the workshop's list.  It was put there  *)
(* by the thread that created it, after the creation.                      *)
(*                                                                         *)
(* The sections under FWS_spin touch the list of identifiers alone and are *)
(* one step.  The identifier of a thread that is gone may be given to the  *)
(* next one, as pthread_create does.                                       *)
(***************************************************************************)
EXTENDS Naturals, Sequences, FiniteSets

CONSTANTS
    Worker, Main,          \* the workers, and the thread that uses the workshop
    Fwork,                 \* bound: the works inserted
    Status,                \* what works may return
    None, NoThread

FworkshopAssumption ==
    /\ None \notin Worker \cup Fwork
    /\ Main \notin Worker /\ NoThread \notin Worker \cup {Main}
    /\ Status \subseteq {"negative", "nonnegative"}

VARIABLES
    workerlst,   \* FWS_workerlst
    state,       \* state[w]: what became of worker w
    adding,      \* the worker Main has created and not yet added, or None
    processed,   \* history: how often each work was called
    late,        \* history: was a worker added after the first insertion?
    buf, mut, pc, call, val, given   \* the store: see Chanlst

Store == INSTANCE Chanlst WITH Thread <- Worker \cup {Main}, Element <- Fwork

store == <<buf, mut, pc, call, val, given>>
vars == <<workerlst, state, adding, processed, late, store>>

State == {"unborn", "fworker", "takeout", "process", "exit", "gone"}
Living == {w \in Worker : state[w] \notin {"unborn", "gone"}}
Listed == {workerlst[i] : i \in DOMAIN workerlst}

\* The list of workers, the works and the chanlst are well formed; a worker is
\* in a call of the chanlst only where its loop takes a work out.
TypeOK ==
    /\ workerlst \in Seq(Worker)
    /\ state \in [Worker -> State]
    /\ adding \in Worker \cup {None}
    /\ processed \in [Fwork -> Nat]
    /\ late \in BOOLEAN
    /\ Store!TypeOK
    /\ \A w \in Worker : pc[w] # "idle" => state[w] = "takeout"

Init ==
    /\ workerlst = <<>>
    /\ state = [w \in Worker |-> "unborn"]
    /\ adding = None
    /\ processed = [x \in Fwork |-> 0]
    /\ late = FALSE
    /\ Store!Init

Goto(w, s) == state' = [state EXCEPT ![w] = s]
MainFree == adding = None /\ pc[Main] = "idle"

\* add_worker: athread_create_cloptr, then add_tid under the spinlock.
AddWorker(w) ==
    /\ MainFree
    /\ state[w] \in {"unborn", "gone"}
    /\ Goto(w, "fworker")
    /\ adding' = w
    /\ late' = (late \/ given # {})
    /\ UNCHANGED <<workerlst, processed, store>>

AddTid ==
    /\ adding # None
    /\ workerlst' = <<adding>> \o workerlst
    /\ adding' = None
    /\ UNCHANGED <<state, processed, late, store>>

InsertWork ==
    /\ \/ /\ MainFree
          /\ \E x \in Fwork : Store!CallInsert(Main, x)
       \/ Store!Inside(Main)
    /\ UNCHANGED <<workerlst, state, adding, processed, late>>

TakeoutWork(w) ==
    /\ state[w] = "fworker"
    /\ Store!CallTakeout(w, "takeout")
    /\ Goto(w, "takeout")
    /\ UNCHANGED <<workerlst, adding, processed, late>>

TakeoutInside(w) ==
    /\ state[w] = "takeout"
    /\ Store!Inside(w)
    /\ Goto(w, IF pc'[w] = "idle" THEN "process" ELSE "takeout")
    /\ UNCHANGED <<workerlst, adding, processed, late>>

Wakeup(w) ==
    /\ Store!SpuriousWakeup(w)
    /\ UNCHANGED <<workerlst, state, adding, processed, late>>

ProcessWork(w) ==
    /\ state[w] = "process"
    /\ processed' = [processed EXCEPT ![val[w]] = @ + 1]
    /\ \E s \in Status : Goto(w, IF s = "negative" THEN "exit" ELSE "fworker")
    /\ UNCHANGED <<workerlst, adding, late, store>>

\* auxrmv: the list without the first occurrence of w.
RemovedLast(w) ==
    IF w \notin Listed THEN workerlst ELSE SubSeq(workerlst, 1, Len(workerlst) - 1)

Removed(w) ==
    IF w \notin Listed THEN workerlst
    ELSE LET i == CHOOSE j \in DOMAIN workerlst :
                     /\ workerlst[j] = w
                     /\ \A h \in 1..j - 1 : workerlst[h] # w
         IN  SubSeq(workerlst, 1, i - 1) \o SubSeq(workerlst, i + 1, Len(workerlst))

Exit(w) ==
    /\ state[w] = "exit"
    /\ workerlst' = Removed(w)
    /\ Goto(w, "gone")
    /\ UNCHANGED <<adding, processed, late, store>>

Work(w) ==
    TakeoutWork(w) \/ TakeoutInside(w) \/ ProcessWork(w) \/ Exit(w)
Next ==
    \/ AddTid \/ InsertWork
    \/ \E w \in Worker : AddWorker(w) \/ Work(w) \/ Wakeup(w)

Spec == Init /\ [][Next]_vars

\* A call in progress goes on.  The mutex may be taken by others again and
\* again while one thread waits for it, hence the strong fairness.
Fairness ==
    /\ WF_vars(AddTid)
    /\ SF_vars(pc[Main] # "idle" /\ InsertWork)
    /\ \A w \in Worker : SF_vars(Work(w))

-----------------------------------------------------------------------------
\* What get_nworker returns, the length of the list.  A worker that lives and
\* has been added is on the list, once at least, although a worker may be gone
\* before it is added and its identifier may then stand for another; and the
\* list is exact, whenever nobody is between creation and add_tid, if every
\* worker was added before the first work was inserted, as in the tests.
WorkersListed ==
    /\ Living \ {adding} \subseteq Listed
    /\ ~late /\ adding = None => Len(workerlst) = Cardinality(Living)

\* A work, which is a linear closure that its call frees, is called once.
CalledOnce == \A x \in Fwork :
    /\ processed[x] <= 1
    /\ processed[x] = 1 => \A i \in DOMAIN buf : buf[i] # x

\* Every work that is inserted is called, unless works end the last worker.
WorkDone == \A x \in Fwork : x \in given ~> processed[x] = 1 \/ Living = {}
=============================================================================
