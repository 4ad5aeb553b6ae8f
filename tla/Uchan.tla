-------------------------------- MODULE Uchan --------------------------------
(***************************************************************************)
(* mysession-g/DATS/basis_uchan.dats: one direction of a session channel,  *)
(* a bounded queue with a mutex, two condition variables, a reference      *)
(* count and the pointer qnext to the uchan that goes on where this one    *)
(* ends.  uchan k is written by thread k and read by thread k - 1, whose   *)
(* channel_posneg made the two references.  A thread between two uchans    *)
(* may send, receive, link the two (auxlink of basis_channel0.dats) or     *)
(* close them.                                                             *)
(*                                                                         *)
(* The queue is the sequence that module Deqarray is proved to implement.  *)
(* Waits may return spuriously.  qnext_insert finds no qnext: only the     *)
(* writer inserts one, and then gives the uchan up; SessionLink shows that *)
(* this is so.                                                             *)
(***************************************************************************)
EXTENDS Naturals, Sequences, FiniteSets

CONSTANTS
    N,             \* the uchans are 1..N, the threads 0..N
    Cap,           \* channel_cap
    Programs,      \* the sequences of calls each thread may be given
    MaxCalls,      \* bound: their length
    NoThread       \* the owner of a free mutex

Thread == 0..N
Uchans == 1..N
Null == 0          \* no uchan

\* "close_in", "close_out": channel_close of the channel that is read, or
\* written.  "link" gives up both ends.
Op == {"insert", "remove", "link", "close_in", "close_out"}

Reading == {"remove", "link", "close_in"}
Writing == {"insert", "link", "close_out"}

\* The calls o of the threads S in p, numbered like messages (see Message).
Calls(p, S, o) ==
    {c \in S \X (1..MaxCalls) :
        c[2] <= Len(p[c[1]]) /\ p[c[1]][Len(p[c[1]]) + 1 - c[2]] = o}

\* Channels are linear: nobody uses an end that it does not have, or has given
\* up.
Linear(p) ==
    /\ \A i \in DOMAIN p[0] : p[0][i] \notin Writing
    /\ \A i \in DOMAIN p[N] : p[N][i] \notin Reading
    /\ \A t \in Thread : \A i, j \in DOMAIN p[t] : i < j =>
          /\ p[t][i] \in {"link", "close_in"} => p[t][j] \notin Reading
          /\ p[t][i] \in {"link", "close_out"} => p[t][j] \notin Writing

\* Both ends of a channel follow one protocol: who closes an end has received
\* what was sent to it, also by and through threads that link.
Agreed(p) == \A a \in Thread, k \in Uchans :
    LET Does(t, o) == \E i \in DOMAIN p[t] : p[t][i] = o
    IN  a < k /\ Does(a, "close_in") /\ (\A t \in a + 1..k - 1 : Does(t, "link"))
          => Cardinality(Calls(p, a + 1..k, "insert"))
                <= Cardinality(Calls(p, a..k - 1, "remove"))

UchanAssumption ==
    /\ N \in Nat \ {0} /\ Cap \in Nat \ {0} /\ MaxCalls \in Nat
    /\ Programs \subseteq [Thread -> Seq(Op)]
    /\ \A p \in Programs : \A t \in Thread : Len(p[t]) <= MaxCalls
    /\ \A p \in Programs : Linear(p) /\ Agreed(p)
    /\ NoThread \notin Thread

VARIABLES
    queue, qnext, mutex, rfcnt,   \* the fields of each uchan
    freed,    \* the uchans whose memory has been freed
    rd, wr,   \* rd[t], wr[t]: the uchan that t reads, and writes
    pc,       \* pc[t]: where in its call t is
    todo,     \* todo[t]: the calls t has still to make, the current one first
    qnxt,     \* qnxt[t]: the local variable of uchan_remove2
    dead,     \* dead[t]: the uchan that t is giving up
    seen,     \* seen[t]: the count that its uchan_unref has read
    rcvd,     \* history: what each thread has received, in order
    joined    \* history: the threads that have linked

fields == <<queue, qnext, mutex, rfcnt, freed>>
history == <<rcvd, joined>>
vars == <<fields, rd, wr, pc, todo, qnxt, dead, seen, history>>

\* "enter": in mutex_lock, or woken in condvar_wait; "locked": holds the mutex;
\* "CVisnil", "CVisful": in condvar_wait; "leave": about to unlock;
\* "unref": in uchan_unref; "counted": there, when it has read the count.
PC == {"idle", "enter", "locked", "CVisnil", "CVisful", "leave", "unref",
       "counted"}

Messages == Uchans \X (1..MaxCalls)

op(t) == Head(todo[t])
Message(t) == <<t, Len(todo[t])>>

\* The uchan that the call of t is about.
chan(t) == IF op(t) \in {"remove", "close_in"} THEN rd[t] ELSE wr[t]

\* No queue outgrows its capacity, each count is 1 or 2, and the link of each
\* uchan leads to another or nowhere.
TypeOK ==
    /\ queue \in [Uchans -> Seq(Messages)]
    /\ \A u \in Uchans : Len(queue[u]) <= Cap
    /\ qnext \in [Uchans -> Uchans \cup {Null}]
    /\ mutex \in [Uchans -> Thread \cup {NoThread}]
    /\ rfcnt \in [Uchans -> 1..2]
    /\ freed \subseteq Uchans
    /\ rd \in [Thread -> Uchans \cup {Null}]
    /\ wr \in [Thread -> Uchans \cup {Null}]
    /\ pc \in [Thread -> PC]
    /\ todo \in [Thread -> Seq(Op)]
    /\ qnxt \in [Thread -> Uchans \cup {Null}]
    /\ dead \in [Thread -> Uchans \cup {Null}]
    /\ seen \in [Thread -> 0..2]
    /\ rcvd \in [Thread -> Seq(Messages)]
    /\ joined \subseteq Thread

\* channel0_posneg has made the uchans and a second reference to each.
Init ==
    /\ queue = [u \in Uchans |-> <<>>]
    /\ qnext = [u \in Uchans |-> Null]
    /\ mutex = [u \in Uchans |-> NoThread]
    /\ rfcnt = [u \in Uchans |-> 2]
    /\ freed = {}
    /\ rd = [t \in Thread |-> IF t < N THEN t + 1 ELSE Null]
    /\ wr = [t \in Thread |-> t]
    /\ pc = [t \in Thread |-> "idle"]
    /\ todo \in Programs
    /\ qnxt = [t \in Thread |-> Null]
    /\ dead = [t \in Thread |-> Null]
    /\ seen = [t \in Thread |-> 0]
    /\ rcvd = [t \in Thread |-> <<>>]
    /\ joined = {}

Goto(t, l) == pc' = [pc EXCEPT ![t] = l]

Waiting(u, cv) == {t \in Thread : pc[t] = cv /\ chan(t) = u}

\* t goes to l, and a broadcast wakes the waiters of u on cv if needed holds.
GotoSignalling(t, l, u, cv, needed) ==
    pc' = [s \in Thread |-> IF s = t THEN l
                            ELSE IF needed /\ s \in Waiting(u, cv) THEN "enter"
                            ELSE pc[s]]

Returns(t) == Goto(t, "idle") /\ todo' = [todo EXCEPT ![t] = Tail(@)]

Call(t) ==
    /\ pc[t] = "idle" /\ todo[t] # <<>>
    /\ op(t) \in {"insert", "remove", "link"}
    /\ Goto(t, "enter")
    /\ UNCHANGED <<fields, rd, wr, todo, qnxt, dead, seen, history>>

\* channel0_free, for the uchan of this wire.
Close(t) ==
    /\ pc[t] = "idle" /\ todo[t] # <<>>
    /\ op(t) \in {"close_in", "close_out"}
    /\ dead' = [dead EXCEPT ![t] = chan(t)]
    /\ IF op(t) = "close_in"
       THEN rd' = [rd EXCEPT ![t] = Null] /\ UNCHANGED wr
       ELSE wr' = [wr EXCEPT ![t] = Null] /\ UNCHANGED rd
    /\ Goto(t, "unref")
    /\ UNCHANGED <<fields, todo, qnxt, seen, history>>

\* mutex_lock, and the return of condvar_wait.
Lock(t) ==
    /\ pc[t] = "enter" /\ mutex[chan(t)] = NoThread
    /\ mutex' = [mutex EXCEPT ![chan(t)] = t]
    /\ Goto(t, "locked")
    /\ UNCHANGED <<queue, qnext, rfcnt, freed, rd, wr, todo, qnxt, dead, seen,
                   history>>

\* condvar_wait gives up the mutex in the same step.
Sleep(t, cv) ==
    /\ mutex' = [mutex EXCEPT ![chan(t)] = NoThread]
    /\ Goto(t, cv)
    /\ UNCHANGED <<queue, qnext, rfcnt, freed, rd, wr, todo, qnxt, dead, seen,
                   history>>

-----------------------------------------------------------------------------
Insert(t) ==
    /\ pc[t] = "locked" /\ op(t) = "insert"
    /\ Len(queue[wr[t]]) < Cap
    /\ queue' = [queue EXCEPT ![wr[t]] = Append(@, Message(t))]
    /\ GotoSignalling(t, "leave", wr[t], "CVisnil", queue[wr[t]] = <<>>)
    /\ UNCHANGED <<qnext, mutex, rfcnt, freed, rd, wr, todo, qnxt, dead, seen,
                   history>>

InsertWait(t) ==
    /\ pc[t] = "locked" /\ op(t) = "insert"
    /\ Len(queue[wr[t]]) = Cap
    /\ Sleep(t, "CVisful")

Remove(t) ==
    /\ pc[t] = "locked" /\ op(t) = "remove"
    /\ queue[rd[t]] # <<>>
    /\ rcvd' = [rcvd EXCEPT ![t] = Append(@, Head(queue[rd[t]]))]
    /\ queue' = [queue EXCEPT ![rd[t]] = Tail(@)]
    /\ GotoSignalling(t, "leave", rd[t], "CVisful", Len(queue[rd[t]]) = Cap)
    /\ UNCHANGED <<qnext, mutex, rfcnt, freed, rd, wr, todo, qnxt, dead, seen,
                   joined>>

RemoveNextFirst(t) ==
    /\ pc[t] = "locked" /\ op(t) = "remove"
    /\ qnext[rd[t]] # Null
    /\ qnxt' = [qnxt EXCEPT ![t] = qnext[rd[t]]]
    /\ qnext' = [qnext EXCEPT ![rd[t]] = Null]
    /\ Goto(t, "leave")
    /\ UNCHANGED <<queue, mutex, rfcnt, freed, rd, wr, todo, dead, seen, history>>

RemoveNextShared(t) ==
    /\ pc[t] = "locked" /\ op(t) = "remove"
    /\ queue[rd[t]] = <<>> /\ qnext[rd[t]] # Null
    /\ qnxt' = [qnxt EXCEPT ![t] = qnext[rd[t]]]
    /\ Goto(t, "leave")
    /\ UNCHANGED <<fields, rd, wr, todo, dead, seen, history>>

\* The queue is nil and another uchan goes on: its reference is taken over.
RemoveNext(t) ==
    /\ pc[t] = "locked" /\ op(t) = "remove"
    /\ queue[rd[t]] = <<>> /\ qnext[rd[t]] # Null
    /\ qnxt' = [qnxt EXCEPT ![t] = qnext[rd[t]]]
    /\ qnext' = [qnext EXCEPT ![rd[t]] = Null]
    /\ Goto(t, "leave")
    /\ UNCHANGED <<queue, mutex, rfcnt, freed, rd, wr, todo, dead, seen, history>>

RemoveWait(t) ==
    /\ pc[t] = "locked" /\ op(t) = "remove"
    /\ queue[rd[t]] = <<>> /\ qnext[rd[t]] = Null
    /\ Sleep(t, "CVisnil")

LinkWakingLater(t) ==
    /\ pc[t] = "locked" /\ op(t) = "link"
    /\ qnext[wr[t]] = Null
    /\ qnext' = [qnext EXCEPT ![wr[t]] = rd[t]]
    /\ rd' = [rd EXCEPT ![t] = Null]
    /\ joined' = joined \cup {t}
    /\ GotoSignalling(t, "leave", wr[t], "CVisnil", queue[wr[t]] # <<>>)
    /\ UNCHANGED <<queue, mutex, rfcnt, freed, wr, todo, qnxt, dead, seen, rcvd>>

\* uchan_qinsert: the reference that t had for reading is put into qnext.
Link(t) ==
    /\ pc[t] = "locked" /\ op(t) = "link"
    /\ qnext[wr[t]] = Null
    /\ qnext' = [qnext EXCEPT ![wr[t]] = rd[t]]
    /\ rd' = [rd EXCEPT ![t] = Null]
    /\ joined' = joined \cup {t}
    /\ GotoSignalling(t, "leave", wr[t], "CVisnil", queue[wr[t]] = <<>>)
    /\ UNCHANGED <<queue, mutex, rfcnt, freed, wr, todo, qnxt, dead, seen, rcvd>>

\* mutex_unlock.  An insertion or a removal that has its element returns.
Unlock(t) ==
    /\ pc[t] = "leave" /\ op(t) # "link" /\ qnxt[t] = Null
    /\ mutex' = [mutex EXCEPT ![chan(t)] = NoThread]
    /\ Returns(t)
    /\ UNCHANGED <<queue, qnext, rfcnt, freed, rd, wr, qnxt, dead, seen, history>>

UnlockKeeping(t) ==
    /\ pc[t] = "leave"
    /\ op(t) = "link" \/ qnxt[t] # Null
    /\ mutex' = [mutex EXCEPT ![chan(t)] = NoThread]
    /\ IF op(t) = "link"
       THEN /\ wr' = [wr EXCEPT ![t] = Null] /\ UNCHANGED <<rd, qnxt>>
            /\ Returns(t)
       ELSE /\ rd' = [rd EXCEPT ![t] = qnxt[t]]
            /\ qnxt' = [qnxt EXCEPT ![t] = Null] /\ UNCHANGED wr
            /\ Goto(t, "enter") /\ UNCHANGED todo
    /\ UNCHANGED <<queue, qnext, rfcnt, freed, dead, seen, history>>

\* A link, or a removal that goes on with the next uchan, unrefs this one.
UnlockUnref(t) ==
    /\ pc[t] = "leave"
    /\ op(t) = "link" \/ qnxt[t] # Null
    /\ mutex' = [mutex EXCEPT ![chan(t)] = NoThread]
    /\ dead' = [dead EXCEPT ![t] = chan(t)]
    /\ IF op(t) = "link"
       THEN wr' = [wr EXCEPT ![t] = Null] /\ UNCHANGED rd
       ELSE rd' = [rd EXCEPT ![t] = Null] /\ UNCHANGED wr
    /\ Goto(t, "unref")
    /\ UNCHANGED <<queue, qnext, rfcnt, freed, todo, qnxt, seen, history>>

-----------------------------------------------------------------------------
\* uchan_unref reads the count under the spinlock and writes it later.
UnrefRead(t) ==
    /\ pc[t] = "unref"
    /\ seen' = [seen EXCEPT ![t] = rfcnt[dead[t]]]
    /\ Goto(t, "counted")
    /\ UNCHANGED <<fields, rd, wr, todo, qnxt, dead, history>>

\* What comes after uchan_unref: the removal from the next uchan, if any.
Unreffed(t) ==
    /\ dead' = [dead EXCEPT ![t] = Null]
    /\ IF qnxt[t] # Null
       THEN /\ rd' = [rd EXCEPT ![t] = qnxt[t]]
            /\ qnxt' = [qnxt EXCEPT ![t] = Null]
            /\ Goto(t, "enter") /\ UNCHANGED todo
       ELSE Returns(t) /\ UNCHANGED <<rd, qnxt>>

UnrefWrite(t) ==
    /\ pc[t] = "counted" /\ seen[t] > 1
    /\ rfcnt' = [rfcnt EXCEPT ![dead[t]] = seen[t] - 1]
    /\ seen' = [seen EXCEPT ![t] = 0]
    /\ Unreffed(t)
    /\ UNCHANGED <<queue, qnext, mutex, freed, wr, history>>

\* The last reference: the uchan is freed, and so is the reference to the next.
UnrefFree(t) ==
    /\ pc[t] = "counted" /\ seen[t] <= 1
    /\ freed' = freed \cup {dead[t]}
    /\ qnext' = [qnext EXCEPT ![dead[t]] = Null]
    /\ seen' = [seen EXCEPT ![t] = 0]
    /\ IF qnext[dead[t]] # Null
       THEN /\ dead' = [dead EXCEPT ![t] = qnext[dead[t]]]
            /\ Goto(t, "unref") /\ UNCHANGED <<rd, todo, qnxt>>
       ELSE Unreffed(t)
    /\ UNCHANGED <<queue, mutex, rfcnt, wr, history>>

SpuriousWakeup(t) ==
    /\ pc[t] \in {"CVisnil", "CVisful"}
    /\ Goto(t, "enter")
    /\ UNCHANGED <<fields, rd, wr, todo, qnxt, dead, seen, history>>

Step(t) ==
    \/ Call(t) \/ Close(t) \/ Lock(t)
    \/ Insert(t) \/ InsertWait(t)
    \/ Remove(t) \/ RemoveNext(t) \/ RemoveWait(t)
    \/ Link(t) \/ Unlock(t) \/ UnlockUnref(t)
    \/ UnrefRead(t) \/ UnrefWrite(t) \/ UnrefFree(t)

Finished == \A t \in Thread : todo[t] = <<>>

Next == \E t \in Thread : Step(t) \/ SpuriousWakeup(t)

Spec == Init /\ [][Next]_vars

\* Threads run, a mutex that two threads ask for finitely often is granted,
\* and spurious wake-ups do not go on for ever.
Fairness ==
    /\ \A t \in Thread : WF_vars(Step(t))
    /\ <>[][\A t \in Thread : ~SpuriousWakeup(t)]_vars

-----------------------------------------------------------------------------
\* Whoever is inside a call for a uchan finds it in memory, no pointer leads to
\* one that was freed, and what is freed is nil, as queue_free_exn asserts:
\* although a reader moves on while its writer is still in uchan_qinsert, and
\* although unrefs may overlap.
FreedSafely ==
    /\ \A t \in Thread :
          /\ {rd[t], wr[t], qnxt[t], dead[t]} \cap freed = {}
          /\ pc[t] \in PC \ {"idle", "unref", "counted"} => chan(t) # Null
    /\ \A u \in Uchans :
          IF u \in freed THEN queue[u] = <<>> ELSE qnext[u] \notin freed

\* The references to u: ends, qnext pointers, and calls of uchan_unref.
References(u) ==
    Cardinality({t \in Thread : rd[t] = u}) +
    Cardinality({t \in Thread : wr[t] = u}) +
    Cardinality({t \in Thread : qnxt[t] = u}) +
    Cardinality({t \in Thread : pc[t] = "unref" /\ dead[t] = u}) +
    Cardinality({v \in Uchans : qnext[v] = u})

\* Whenever no unref of u is under way, its count is the number of references:
\* with the last one it is freed, neither earlier nor never.
CountAgrees ==
    \A u \in Uchans :
        (\A t \in Thread : pc[t] = "counted" => dead[t] # u) =>
            References(u) = IF u \in freed THEN 0 ELSE rfcnt[u]

\* Links do not lose, duplicate or reorder messages: see Wire.
W == INSTANCE Wire WITH segs <- queue
ImplementsWire == W!Spec

\* All calls return.
AllReturn == <>Finished
=============================================================================
