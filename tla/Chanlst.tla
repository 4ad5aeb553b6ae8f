------------------------------- MODULE Chanlst -------------------------------
(***************************************************************************)
(* threadkit/DATS/chanlst_t.dats: a list, a mutex and the condition        *)
(* variable CVisnil.  insert conses and never waits (insert_opt calls it); *)
(* it broadcasts only if the list was nil.  takeout waits while it is nil  *)
(* and tests again afterwards; waits may return spuriously.                *)
(***************************************************************************)
EXTENDS Naturals, Sequences

CONSTANTS
    Thread,
    Element,      \* bound: each element is inserted at most once
    None,         \* the val of a thread that has no element
    NoThread      \* the owner of a free mutex

ChanlstAssumption == None \notin Element /\ NoThread \notin Thread

VARIABLES
    buf,      \* the list
    mut,      \* the thread that holds the mutex
    pc,       \* pc[t]: where in its call t is
    call,     \* call[t]: "none", or the operation t has called
    val,      \* val[t]: its argument, then its result
    given     \* history: the elements passed to insert

vars == <<buf, mut, pc, call, val, given>>

Op == {"none", "insert", "takeout", "takeout_opt"}
\* "enter": in mutex_lock, or woken in condvar_wait; "locked": holds the mutex;
\* "CVisnil": in condvar_wait; "leave": about to unlock.
PC == {"idle", "enter", "locked", "CVisnil", "leave"}

\* The buffer, the mutex and each call are well formed, and a thread is in a
\* call exactly when it is not idle.
TypeOK ==
    /\ buf \in Seq(Element)
    /\ mut \in Thread \cup {NoThread}
    /\ pc \in [Thread -> PC]
    /\ call \in [Thread -> Op]
    /\ val \in [Thread -> Element \cup {None}]
    /\ given \subseteq Element
    /\ \A t \in Thread : pc[t] = "idle" <=> call[t] = "none"

Init ==
    /\ buf = <<>>
    /\ mut = NoThread
    /\ pc = [t \in Thread |-> "idle"]
    /\ call = [t \in Thread |-> "none"]
    /\ val = [t \in Thread |-> None]
    /\ given = {}

Goto(t, l) == pc' = [pc EXCEPT ![t] = l]

Calls(t, f, x) ==
    /\ pc[t] = "idle"
    /\ Goto(t, "enter")
    /\ call' = [call EXCEPT ![t] = f]
    /\ val' = [val EXCEPT ![t] = x]
    /\ UNCHANGED <<buf, mut>>

CallInsert(t, x) ==
    /\ x \notin given
    /\ Calls(t, "insert", x)
    /\ given' = given \cup {x}

CallTakeout(t, f) ==
    /\ f \in {"takeout", "takeout_opt"}
    /\ Calls(t, f, None)
    /\ UNCHANGED given

\* mutex_lock, and the return of condvar_wait.
Lock(t) ==
    /\ pc[t] = "enter" /\ mut = NoThread
    /\ mut' = t
    /\ Goto(t, "locked")
    /\ UNCHANGED <<buf, call, val, given>>

InsertWakingLater(t) ==
    /\ pc[t] = "locked" /\ call[t] = "insert"
    /\ buf' = <<val[t]>> \o buf
    /\ pc' = [u \in Thread |-> IF u = t THEN "leave"
                               ELSE IF buf # <<>> /\ pc[u] = "CVisnil" THEN "enter"
                               ELSE pc[u]]
    /\ UNCHANGED <<mut, call, val, given>>

InsertLast(t) ==
    /\ pc[t] = "locked" /\ call[t] = "insert"
    /\ buf' = Append(buf, val[t])
    /\ pc' = [u \in Thread |-> IF u = t THEN "leave"
                               ELSE IF buf = <<>> /\ pc[u] = "CVisnil" THEN "enter"
                               ELSE pc[u]]
    /\ UNCHANGED <<mut, call, val, given>>

Insert(t) ==
    /\ pc[t] = "locked" /\ call[t] = "insert"
    /\ buf' = <<val[t]>> \o buf
    /\ pc' = [u \in Thread |-> IF u = t THEN "leave"
                               ELSE IF buf = <<>> /\ pc[u] = "CVisnil" THEN "enter"
                               ELSE pc[u]]
    /\ UNCHANGED <<mut, call, val, given>>

Takeout(t) ==
    /\ pc[t] = "locked" /\ call[t] \in {"takeout", "takeout_opt"}
    /\ buf # <<>>
    /\ val' = [val EXCEPT ![t] = Head(buf)]
    /\ buf' = Tail(buf)
    /\ Goto(t, "leave")
    /\ UNCHANGED <<mut, call, given>>

\* condvar_wait gives up the mutex in the same step.
TakeoutWait(t) ==
    /\ pc[t] = "locked" /\ call[t] = "takeout"
    /\ buf = <<>>
    /\ mut' = NoThread
    /\ Goto(t, "CVisnil")
    /\ UNCHANGED <<buf, call, val, given>>

TakeoutNone(t) ==
    /\ pc[t] = "locked" /\ call[t] = "takeout_opt"
    /\ buf = <<>>
    /\ Goto(t, "leave")
    /\ UNCHANGED <<buf, mut, call, val, given>>

Unlock(t) ==
    /\ pc[t] = "leave"
    /\ mut' = NoThread
    /\ Goto(t, "idle")
    /\ call' = [call EXCEPT ![t] = "none"]
    /\ UNCHANGED <<buf, val, given>>

SpuriousWakeup(t) ==
    /\ pc[t] = "CVisnil"
    /\ Goto(t, "enter")
    /\ UNCHANGED <<buf, mut, call, val, given>>

Inside(t) ==
    \/ Lock(t) \/ Insert(t) \/ Takeout(t) \/ TakeoutWait(t) \/ TakeoutNone(t)
    \/ Unlock(t)
Call(t) ==
    \/ \E x \in Element : CallInsert(t, x)
    \/ \E f \in {"takeout", "takeout_opt"} : CallTakeout(t, f)
Next == \E t \in Thread : Call(t) \/ Inside(t) \/ SpuriousWakeup(t)

Spec == Init /\ [][Next]_vars

-----------------------------------------------------------------------------
\* Nobody sleeps beside an element, although an insertion into a list that is
\* not nil wakes nobody.
NoLostWakeup == (\E t \in Thread : pc[t] = "CVisnil") => buf = <<>>

\* Every call takes effect at one instant on a last-in first-out store.
Phase(l) == IF l = "idle" THEN "idle" ELSE IF l = "leave" THEN "done"
            ELSE "called"
Stack == INSTANCE BlockingStack
    WITH phase <- [t \in Thread |-> Phase(pc[t])]
ImplementsStack == Stack!Spec
=============================================================================
