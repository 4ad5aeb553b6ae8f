------------------------------- MODULE Channel -------------------------------
(***************************************************************************)
(* threadkit/DATS/channel_t.dats: a channel is a deqarray of capacity Cap, *)
(* a mutex and the condition variables CVisnil and CVisful.  The deqarray  *)
(* is the sequence that module Deqarray is proved to implement; a thread   *)
(* is one that runs the calls of todo[t] in turn.  The library's waits may *)
(* return spuriously, as POSIX allows.                                     *)
(*                                                                         *)
(* Mutants, each before the definition it is a slip of: GotoSignallingOne, *)
(* InsertPastFull, InsertRefusedNotNil, TakeoutFromEnd, TakeoutWrongCV.    *)
(***************************************************************************)
EXTENDS Naturals, Sequences

CONSTANTS
    Thread,
    Cap,          \* channel_create_exn takes cap: sizeGte(1)
    Programs,     \* the sequences of calls each thread may be given
    NoThread      \* the owner of a free mutex

Op == {"insert", "takeout", "insert_opt", "takeout_opt"}

ChannelAssumption ==
    /\ Cap \in Nat \ {0}
    /\ NoThread \notin Thread
    /\ Programs \subseteq [Thread -> Seq(Op)]

VARIABLES
    buf,      \* the deqarray, first to last
    mut,      \* the thread that holds the mutex
    pc,       \* pc[t]: where in its call t is
    todo,     \* todo[t]: the calls t has still to make, the current one first
    sent,     \* history: the elements inserted, in order
    rcvd      \* history: the elements taken out, in order

vars == <<buf, mut, pc, todo, sent, rcvd>>

\* "enter": in mutex_lock, of the call or of a wait that was woken;
\* "locked": holds the mutex and runs channel_insert_buf or _takeout_buf;
\* "CVisnil", "CVisful": in condvar_wait; "leave": about to unlock.
PC == {"idle", "enter", "locked", "CVisnil", "CVisful", "leave"}

Waiting(cv) == {t \in Thread : pc[t] = cv}

op(t) == Head(todo[t])
Message(t) == <<t, Len(todo[t])>>

Init ==
    /\ buf = <<>> /\ sent = <<>> /\ rcvd = <<>>
    /\ mut = NoThread
    /\ pc = [t \in Thread |-> "idle"]
    /\ todo \in Programs

Goto(t, l) == pc' = [pc EXCEPT ![t] = l]

GotoSignallingOne(t, l, cv, needed) ==
    pc' = [u \in Thread |->
              IF u = t THEN l
              ELSE IF needed /\ pc[u] = cv /\ u = CHOOSE w \in Waiting(cv) : TRUE
                   THEN "enter" ELSE pc[u]]

\* t goes to l, and a broadcast wakes every waiter of cv if needed holds.
GotoSignalling(t, l, cv, needed) ==
    pc' = [u \in Thread |-> IF u = t THEN l
                            ELSE IF needed /\ pc[u] = cv THEN "enter"
                            ELSE pc[u]]

Call(t) ==
    /\ pc[t] = "idle" /\ todo[t] # <<>>
    /\ Goto(t, "enter")
    /\ UNCHANGED <<buf, mut, todo, sent, rcvd>>

\* mutex_lock, and the return of condvar_wait.
Lock(t) ==
    /\ pc[t] = "enter" /\ mut = NoThread
    /\ mut' = t
    /\ Goto(t, "locked")
    /\ UNCHANGED <<buf, todo, sent, rcvd>>

InsertPastFull(t) ==
    /\ pc[t] = "locked" /\ op(t) \in {"insert", "insert_opt"}
    /\ Len(buf) <= Cap
    /\ buf' = Append(buf, Message(t))
    /\ sent' = Append(sent, Message(t))
    /\ GotoSignalling(t, "leave", "CVisnil", buf = <<>>)
    /\ UNCHANGED <<mut, todo, rcvd>>

Insert(t) ==
    /\ pc[t] = "locked" /\ op(t) \in {"insert", "insert_opt"}
    /\ Len(buf) < Cap
    /\ buf' = Append(buf, Message(t))
    /\ sent' = Append(sent, Message(t))
    /\ GotoSignalling(t, "leave", "CVisnil", buf = <<>>)
    /\ UNCHANGED <<mut, todo, rcvd>>

\* condvar_wait gives up the mutex in the same step.
InsertWait(t) ==
    /\ pc[t] = "locked" /\ op(t) = "insert"
    /\ Len(buf) = Cap
    /\ mut' = NoThread
    /\ Goto(t, "CVisful")
    /\ UNCHANGED <<buf, todo, sent, rcvd>>

InsertRefusedNotNil(t) ==
    /\ pc[t] = "locked" /\ op(t) = "insert_opt"
    /\ buf # <<>>
    /\ Goto(t, "leave")
    /\ UNCHANGED <<buf, mut, todo, sent, rcvd>>

InsertRefused(t) ==
    /\ pc[t] = "locked" /\ op(t) = "insert_opt"
    /\ Len(buf) = Cap
    /\ Goto(t, "leave")
    /\ UNCHANGED <<buf, mut, todo, sent, rcvd>>

TakeoutFromEnd(t) ==
    /\ pc[t] = "locked" /\ op(t) \in {"takeout", "takeout_opt"}
    /\ buf # <<>>
    /\ buf' = SubSeq(buf, 1, Len(buf) - 1)
    /\ rcvd' = Append(rcvd, buf[Len(buf)])
    /\ GotoSignalling(t, "leave", "CVisful", Len(buf) = Cap)
    /\ UNCHANGED <<mut, todo, sent>>

TakeoutWrongCV(t) ==
    /\ pc[t] = "locked" /\ op(t) \in {"takeout", "takeout_opt"}
    /\ buf # <<>>
    /\ buf' = Tail(buf)
    /\ rcvd' = Append(rcvd, Head(buf))
    /\ GotoSignalling(t, "leave", "CVisnil", Len(buf) = Cap)
    /\ UNCHANGED <<mut, todo, sent>>

Takeout(t) ==
    /\ pc[t] = "locked" /\ op(t) \in {"takeout", "takeout_opt"}
    /\ buf # <<>>
    /\ buf' = Tail(buf)
    /\ rcvd' = Append(rcvd, Head(buf))
    /\ GotoSignalling(t, "leave", "CVisful", Len(buf) = Cap)
    /\ UNCHANGED <<mut, todo, sent>>

TakeoutWait(t) ==
    /\ pc[t] = "locked" /\ op(t) = "takeout"
    /\ buf = <<>>
    /\ mut' = NoThread
    /\ Goto(t, "CVisnil")
    /\ UNCHANGED <<buf, todo, sent, rcvd>>

TakeoutNone(t) ==
    /\ pc[t] = "locked" /\ op(t) = "takeout_opt"
    /\ buf = <<>>
    /\ Goto(t, "leave")
    /\ UNCHANGED <<buf, mut, todo, sent, rcvd>>

\* mutex_unlock, and the return from the call.
Unlock(t) ==
    /\ pc[t] = "leave"
    /\ mut' = NoThread
    /\ Goto(t, "idle")
    /\ todo' = [todo EXCEPT ![t] = Tail(todo[t])]
    /\ UNCHANGED <<buf, sent, rcvd>>

SpuriousWakeup(t) ==
    /\ pc[t] \in {"CVisnil", "CVisful"}
    /\ Goto(t, "enter")
    /\ UNCHANGED <<buf, mut, todo, sent, rcvd>>

InsertCall(t) == Insert(t) \/ InsertWait(t) \/ InsertRefused(t)
TakeoutCall(t) == Takeout(t) \/ TakeoutWait(t) \/ TakeoutNone(t)

\* The steps the scheduler owes a thread.
Step(t) == Call(t) \/ Lock(t) \/ InsertCall(t) \/ TakeoutCall(t) \/ Unlock(t)

Finished == \A t \in Thread : todo[t] = <<>>
Terminated == Finished /\ UNCHANGED vars

Next == (\E t \in Thread : Step(t) \/ SpuriousWakeup(t)) \/ Terminated

Spec == Init /\ [][Next]_vars

(* A thread that can run does, a mutex that keeps becoming free is in the  *)
(* end granted to each thread that asks for it, and spurious wake-ups do   *)
(* not go on for ever.                                                     *)
Fairness ==
    /\ \A t \in Thread : WF_vars(Step(t)) /\ SF_vars(Lock(t))
    /\ <>[][\A t \in Thread : ~SpuriousWakeup(t)]_vars

FairSpec == Spec /\ Fairness

-----------------------------------------------------------------------------
(* The buffer never outgrows its capacity, and the state of the mutex and  *)
(* of the calls is well formed.                                            *)
TypeOK ==
    /\ buf \in Seq(Thread \X Nat) /\ Len(buf) <= Cap
    /\ sent \in Seq(Thread \X Nat) /\ rcvd \in Seq(Thread \X Nat)
    /\ mut \in Thread \cup {NoThread}
    /\ pc \in [Thread -> PC]
    /\ todo \in [Thread -> Seq(Op)]

(* The body of an operation runs only while its thread holds the mutex,    *)
(* also after a wait has returned.                                         *)
Exclusion ==
    \A t \in Thread : pc[t] \in {"locked", "leave"} <=> mut = t

(* What has been received, followed by what is in the buffer, is what was  *)
(* sent: no element is lost, duplicated or overtaken, whatever the         *)
(* interleaving of the callers.                                            *)
Fifo == sent = rcvd \o buf

(* No wake-up is lost: a takeout sleeps only while the channel is empty    *)
(* and an insert only while it is full, although the broadcasts happen     *)
(* only when the channel stops being empty (full).                         *)
NoLostWakeup ==
    /\ Waiting("CVisnil") # {} => buf = <<>>
    /\ Waiting("CVisful") # {} => Len(buf) = Cap

(* The channel is the atomic bounded queue of its interface: each call     *)
(* takes effect in one step between its start and its return.              *)
Phase(l) == IF l = "idle" THEN "idle" ELSE IF l = "leave" THEN "done"
            ELSE "called"
Abs == INSTANCE BlockingQueue
           WITH phase <- [t \in Thread |-> Phase(pc[t])]
ImplementsQueue == Abs!Spec
=============================================================================
