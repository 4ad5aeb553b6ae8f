---------------------------- MODULE ThreadkitProofs ----------------------------
(***************************************************************************)
(* The components of MCThreadkit, for every value of its constants:        *)
(*  - the channel of channel_t.dats for any set of threads, any programs   *)
(*    and any capacity of at least one (ChannelAssumption): first-in       *)
(*    first-out, no lost wake-up, and atomic as its interface says;        *)
(*  - the list of chanlst_t.dats for any threads and elements: no lost     *)
(*    wake-up, and an atomic stack;                                        *)
(*  - the count of channel_vt.dats for any number of references and calls  *)
(*    that overlap in any way: what an overlap can do to it, and what not;  *)
(*  - the nwaiter (NwaiterProofs) as MCThreadkit uses it.                  *)
(***************************************************************************)
EXTENDS MCThreadkit, FiniteSetTheorems, SequenceTheorems, TLAPS

-----------------------------------------------------------------------------
(* The channel.                                                            *)

(* A thread inside a call has that call at the head of its program. *)
InCall == \A t \in Thread : pc[t] # "idle" => todo[t] # <<>>

(* Fifo and NoLostWakeup are preserved only because a thread that changes  *)
(* the buffer holds the mutex (Exclusion), so that no waiter is added      *)
(* between the test of the buffer and the broadcast.                       *)
IInv == TypeOK /\ Exclusion /\ InCall /\ Fifo /\ NoLostWakeup

Msg == Thread \X Nat

\* channel_create_exn makes an empty queue, and nobody is inside.
LEMMA InitIInv == ASSUME ChannelAssumption, Init PROVE IInv
<1>1. todo \in [Thread -> Seq(Op)]
    BY DEF ChannelAssumption, Init
<1>2. TypeOK
    BY <1>1 DEF ChannelAssumption, Init, TypeOK, PC
<1>3. Exclusion /\ InCall
    BY DEF ChannelAssumption, Init, Exclusion, InCall
<1>4. Fifo
    BY DEF Init, Fifo
<1>5. NoLostWakeup
    BY DEF Init, NoLostWakeup, Waiting
<1> QED BY <1>2, <1>3, <1>4, <1>5 DEF IInv

\* A call takes nothing yet but a place before the lock.
LEMMA CallIInv ==
    ASSUME IInv, NEW t \in Thread, Call(t)
    PROVE  IInv'
<1>1. TypeOK'
    BY DEF IInv, TypeOK, Call, Goto, PC
<1>2. Exclusion' /\ InCall'
    BY DEF IInv, TypeOK, Exclusion, InCall, Call, Goto
<1>3. Fifo' /\ NoLostWakeup'
    BY DEF IInv, TypeOK, Fifo, NoLostWakeup, Waiting, Call, Goto
<1> QED BY <1>1, <1>2, <1>3 DEF IInv

\* mutex_lock succeeds only while nobody is inside, after which one is.
LEMMA LockIInv ==
    ASSUME ChannelAssumption, IInv, NEW t \in Thread, Lock(t)
    PROVE  IInv'
<1>1. TypeOK'
    BY DEF IInv, TypeOK, Lock, Goto, PC
<1>2. Exclusion' /\ InCall'
    BY DEF ChannelAssumption, IInv, TypeOK, Exclusion, InCall, Lock, Goto
<1>3. Fifo' /\ NoLostWakeup'
    BY DEF IInv, TypeOK, Fifo, NoLostWakeup, Waiting, Lock, Goto
<1> QED BY <1>1, <1>2, <1>3 DEF IInv

(* What a broadcast leaves behind: nobody waits on the condition variable, *)
(* and nobody starts to wait on either of them.                            *)
LEMMA Signalling ==
    ASSUME TypeOK, NEW t \in Thread, NEW l \in PC \ {"CVisnil", "CVisful"},
           NEW cv \in {"CVisnil", "CVisful"}, NEW needed \in BOOLEAN,
           GotoSignalling(t, l, cv, needed)
    PROVE  /\ pc' \in [Thread -> PC]
           /\ pc'[t] = l
           /\ \A u \in Thread \ {t} :
                 pc'[u] = pc[u] \/ (pc[u] = cv /\ pc'[u] = "enter")
           /\ needed => Waiting(cv)' = {}
           /\ \A w \in {"CVisnil", "CVisful"} : Waiting(w)' \subseteq Waiting(w)
BY DEF TypeOK, GotoSignalling, Waiting, PC

\* An insertion makes the queue non-empty, and signals CVisnil if it was
\* empty: no taker still sleeps for want of a message.
LEMMA InsertIInv ==
    ASSUME ChannelAssumption, IInv, NEW t \in Thread, Insert(t)
    PROVE  IInv'
<1> DEFINE x == Message(t)
<1>1. x \in Msg
    BY LenProperties DEF IInv, TypeOK, Message, Msg
<1>2. /\ buf \in Seq(Msg) /\ sent \in Seq(Msg) /\ rcvd \in Seq(Msg)
      /\ buf' = Append(buf, x) /\ sent' = Append(sent, x) /\ rcvd' = rcvd
      /\ mut' = mut /\ todo' = todo
      /\ pc[t] = "locked" /\ mut = t /\ Len(buf) < Cap
    BY DEF IInv, TypeOK, Exclusion, Insert, Msg
<1>3. /\ pc' \in [Thread -> PC]
      /\ pc'[t] = "leave"
      /\ \A u \in Thread \ {t} :
            pc'[u] = pc[u] \/ (pc[u] = "CVisnil" /\ pc'[u] = "enter")
      /\ buf = <<>> => Waiting("CVisnil")' = {}
      /\ \A w \in {"CVisnil", "CVisful"} : Waiting(w)' \subseteq Waiting(w)
    BY Signalling DEF Insert, IInv, PC
<1> HIDE DEF x
<1>4. /\ buf' \in Seq(Msg) /\ sent' \in Seq(Msg)
      /\ Len(buf') = Len(buf) + 1 /\ buf' # <<>>
    BY <1>1, <1>2, AppendProperties
<1>5. TypeOK'
    BY SMTT(30), <1>2, <1>3, <1>4, LenProperties DEF ChannelAssumption, IInv, TypeOK, Msg
<1>6. Exclusion' /\ InCall'
    BY <1>2, <1>3 DEF IInv, Exclusion, InCall
<1>7. Fifo'
    <2>1. /\ <<x>> \in Seq(Msg)
          /\ Append(sent, x) = sent \o <<x>> /\ Append(buf, x) = buf \o <<x>>
        BY <1>1, <1>2, AppendIsConcat
    <2>2. PICK z : z = <<x>>
        OBVIOUS
    <2>3. (rcvd \o buf) \o z = rcvd \o (buf \o z)
        <3>1. rcvd \in Seq(Msg) /\ buf \in Seq(Msg) /\ z \in Seq(Msg)
            BY <2>1, <2>2, <1>2
        <3> QED BY <3>1, ConcatAssociative
    <2> QED BY <2>1, <2>2, <2>3, <1>2 DEF IInv, Fifo
<1>8. NoLostWakeup'
    BY <1>2, <1>3 DEF IInv, NoLostWakeup
<1> QED BY <1>5, <1>6, <1>7, <1>8 DEF IInv

\* A removal makes room, and signals CVisful if the queue was full.
LEMMA TakeoutIInv ==
    ASSUME ChannelAssumption, IInv, NEW t \in Thread, Takeout(t)
    PROVE  IInv'
<1> DEFINE x == Head(buf)
<1>1. /\ buf \in Seq(Msg) /\ sent \in Seq(Msg) /\ rcvd \in Seq(Msg)
      /\ buf # <<>> /\ buf' = Tail(buf)
      /\ sent' = sent /\ rcvd' = Append(rcvd, x)
      /\ mut' = mut /\ todo' = todo
      /\ pc[t] = "locked" /\ mut = t /\ Len(buf) <= Cap
    BY DEF IInv, TypeOK, Exclusion, Takeout, Msg
<1>2. /\ x \in Msg /\ Tail(buf) \in Seq(Msg)
      /\ Len(Tail(buf)) = Len(buf) - 1
      /\ Len(buf) \in Nat
    BY <1>1, HeadTailProperties, LenProperties
<1>3. /\ pc' \in [Thread -> PC]
      /\ pc'[t] = "leave"
      /\ \A u \in Thread \ {t} :
            pc'[u] = pc[u] \/ (pc[u] = "CVisful" /\ pc'[u] = "enter")
      /\ Len(buf) = Cap => Waiting("CVisful")' = {}
      /\ \A w \in {"CVisnil", "CVisful"} : Waiting(w)' \subseteq Waiting(w)
    BY Signalling DEF Takeout, IInv, PC
<1>4. buf = <<x>> \o Tail(buf)
    <2>1. /\ <<x>> \in Seq(Msg) /\ Len(<<x>>) = 1 /\ <<x>>[1] = x
        BY <1>2
    <2>2. /\ <<x>> \o Tail(buf) \in Seq(Msg)
          /\ Len(<<x>> \o Tail(buf)) = Len(buf)
          /\ \A i \in 1 .. Len(buf) :
                (<<x>> \o Tail(buf))[i] = IF i <= 1 THEN <<x>>[i]
                                          ELSE Tail(buf)[i - 1]
        BY <2>1, <1>2, ConcatProperties
    <2>3. ASSUME NEW i \in 1 .. Len(buf)
          PROVE  buf[i] = (<<x>> \o Tail(buf))[i]
        <3>1. CASE i = 1
            BY <3>1, <2>1, <2>2
        <3>2. CASE i # 1
            <4>1. i - 1 \in 1 .. Len(Tail(buf)) /\ (i - 1) + 1 = i
                BY <3>2, <1>2
            <4>2. Tail(buf)[i - 1] = buf[i]
                BY <4>1, <1>1, HeadTailProperties
            <4> QED BY <4>2, <3>2, <2>2
        <3> QED BY <3>1, <3>2
    <2> QED BY <2>2, <2>3, <1>1, SeqEqual
<1> HIDE DEF x
<1>5. TypeOK'
    <2>1. rcvd' \in Seq(Msg)
        BY <1>1, <1>2, AppendProperties
    <2>2. buf' \in Seq(Msg) /\ Len(buf') <= Cap
        BY <1>1, <1>2 DEF ChannelAssumption
    <2> QED BY <2>1, <2>2, <1>1, <1>3 DEF IInv, TypeOK, Msg
<1>6. Exclusion' /\ InCall'
    BY <1>1, <1>3 DEF IInv, Exclusion, InCall
<1>7. Fifo'
    <2>1. <<x>> \in Seq(Msg) /\ Append(rcvd, x) = rcvd \o <<x>>
        BY <1>1, <1>2, AppendIsConcat
    <2>2. PICK z : z = <<x>>
        OBVIOUS
    <2>3. (rcvd \o z) \o Tail(buf) = rcvd \o (z \o Tail(buf))
        BY <2>1, <2>2, <1>1, <1>2, ConcatAssociative
    <2> QED BY <2>1, <2>2, <2>3, <1>1, <1>4 DEF IInv, Fifo
<1>8. NoLostWakeup'
    BY <1>1, <1>3 DEF IInv, NoLostWakeup
<1> QED BY <1>5, <1>6, <1>7, <1>8 DEF IInv

\* condvar_wait gives the mutex up only where the queue is full, or empty.
LEMMA WaitIInv ==
    ASSUME ChannelAssumption, IInv, NEW t \in Thread,
           InsertWait(t) \/ TakeoutWait(t)
    PROVE  IInv'
<1>1. TypeOK'
    BY DEF IInv, TypeOK, InsertWait, TakeoutWait, Goto, PC
<1>2. Exclusion' /\ InCall'
    BY DEF ChannelAssumption, IInv, TypeOK, Exclusion, InCall, InsertWait,
           TakeoutWait, Goto
<1>3. Fifo' /\ NoLostWakeup'
    BY DEF IInv, TypeOK, Fifo, NoLostWakeup, Waiting, InsertWait,
           TakeoutWait, Goto
<1> QED BY <1>1, <1>2, <1>3 DEF IInv

\* The _opt functions change nothing but where their caller is.
LEMMA RefusalIInv ==
    ASSUME IInv, NEW t \in Thread, InsertRefused(t) \/ TakeoutNone(t)
    PROVE  IInv'
<1>1. TypeOK'
    BY DEF IInv, TypeOK, InsertRefused, TakeoutNone, Goto, PC
<1>2. Exclusion' /\ InCall'
    BY DEF IInv, TypeOK, Exclusion, InCall, InsertRefused, TakeoutNone, Goto
<1>3. Fifo' /\ NoLostWakeup'
    BY DEF IInv, TypeOK, Fifo, NoLostWakeup, Waiting, InsertRefused,
           TakeoutNone, Goto
<1> QED BY <1>1, <1>2, <1>3 DEF IInv

\* mutex_unlock leaves nobody inside.
LEMMA UnlockIInv ==
    ASSUME ChannelAssumption, IInv, NEW t \in Thread, Unlock(t)
    PROVE  IInv'
<1>1. Tail(todo[t]) \in Seq(Op)
    BY HeadTailProperties DEF IInv, InCall, TypeOK, Unlock
<1>2. TypeOK'
    BY <1>1 DEF IInv, TypeOK, Unlock, Goto, PC
<1>3. Exclusion' /\ InCall'
    BY DEF ChannelAssumption, IInv, TypeOK, Exclusion, InCall, Unlock, Goto
<1>4. Fifo' /\ NoLostWakeup'
    BY DEF IInv, TypeOK, Fifo, NoLostWakeup, Waiting, Unlock, Goto
<1> QED BY <1>2, <1>3, <1>4 DEF IInv

\* A waiter may wake up without having been signalled.
LEMMA SpuriousIInv ==
    ASSUME IInv, NEW t \in Thread, SpuriousWakeup(t)
    PROVE  IInv'
<1>1. TypeOK'
    BY DEF IInv, TypeOK, SpuriousWakeup, Goto, PC
<1>2. Exclusion' /\ InCall'
    BY DEF IInv, TypeOK, Exclusion, InCall, SpuriousWakeup, Goto
<1>3. Fifo' /\ NoLostWakeup'
    BY DEF IInv, TypeOK, Fifo, NoLostWakeup, Waiting, SpuriousWakeup, Goto
<1> QED BY <1>1, <1>2, <1>3 DEF IInv

\* IInv is about the variables only.
LEMMA StutterIInv == ASSUME IInv, UNCHANGED vars PROVE IInv'
BY DEF IInv, vars, TypeOK, Exclusion, InCall, Fifo, NoLostWakeup, Waiting

\* IInv is inductive: one lemma above for each operation.
LEMMA NextIInv == ASSUME ChannelAssumption, IInv, [Next]_vars PROVE IInv'
<1>1. ASSUME NEW t \in Thread, Step(t) PROVE IInv'
    BY <1>1, CallIInv, LockIInv, InsertIInv, TakeoutIInv, WaitIInv,
       RefusalIInv, UnlockIInv
       DEF Step, InsertCall, TakeoutCall
<1> QED BY <1>1, SpuriousIInv, StutterIInv DEF Next, Terminated

\* IInv is an invariant of every channel, whatever its capacity.
THEOREM InvariantHolds == ASSUME ChannelAssumption PROVE Spec => []IInv
BY InitIInv, NextIInv, PTL DEF Spec

(* The buffer never outgrows the ring that holds it, and the mutex, the    *)
(* program counters and the elements keep their types.                     *)
THEOREM TypeCorrect == ASSUME ChannelAssumption PROVE Spec => []TypeOK
BY InvariantHolds, PTL DEF IInv

(* The bodies of the operations exclude each other.                        *)
THEOREM ExclusionHolds == ASSUME ChannelAssumption PROVE Spec => []Exclusion
BY InvariantHolds, PTL DEF IInv

(* No element is lost, duplicated or overtaken.                            *)
THEOREM FifoHolds == ASSUME ChannelAssumption PROVE Spec => []Fifo
BY InvariantHolds, PTL DEF IInv

(* No thread sleeps on a condition that holds: the broadcasts that insert  *)
(* and takeout skip are never needed.                                      *)
THEOREM NoLostWakeupHolds ==
    ASSUME ChannelAssumption PROVE Spec => []NoLostWakeup
BY InvariantHolds, PTL DEF IInv

-----------------------------------------------------------------------------
(* The refinement of BlockingQueue. *)

absPhase == [u \in Thread |-> Phase(pc[u])]

(* A step of t that takes it to l, and others from waiting to waking, is   *)
(* seen as the step of t alone.                                            *)
LEMMA PhaseStep ==
    ASSUME TypeOK, NEW t \in Thread, NEW l \in PC,
           pc'[t] = l, pc' \in [Thread -> PC],
           \A u \in Thread \ {t} :
              \/ pc'[u] = pc[u]
              \/ pc[u] \in {"CVisnil", "CVisful"} /\ pc'[u] = "enter"
    PROVE  absPhase' = [absPhase EXCEPT ![t] = Phase(l)]
<1>1. ASSUME NEW u \in Thread \ {t} PROVE Phase(pc'[u]) = Phase(pc[u])
    BY <1>1 DEF Phase
<1> QED BY <1>1 DEF absPhase

\* The queue that callers see changes phase as the program counter does.
LEMMA GotoPhase ==
    ASSUME TypeOK, NEW t \in Thread, NEW l \in PC, Goto(t, l)
    PROVE  absPhase' = [absPhase EXCEPT ![t] = Phase(l)]
<1>1. /\ pc' \in [Thread -> PC] /\ pc'[t] = l
      /\ \A u \in Thread \ {t} : pc'[u] = pc[u]
    BY DEF TypeOK, Goto
<1> QED BY <1>1, PhaseStep

(* A step whose phase does not change is a stuttering step of the queue.   *)
LEMMA SamePhase ==
    ASSUME TypeOK, NEW t \in Thread, NEW l \in PC, Goto(t, l),
           Phase(l) = Phase(pc[t]), UNCHANGED <<buf, todo, sent, rcvd>>
    PROVE  UNCHANGED Abs!vars
<1>1. absPhase' = absPhase
    BY GotoPhase DEF absPhase
<1> QED BY <1>1 DEF Abs!vars, absPhase

\* Every step under the mutex is one step of the queue that
\* threadkit/SATS/channel_t.sats promises, or none.
LEMMA AbsStep ==
    ASSUME IInv, NEW t \in Thread, Step(t) \/ SpuriousWakeup(t)
    PROVE  [Abs!Next]_Abs!vars
<1> USE DEF PC
<1>0. TypeOK /\ \A l \in PC : absPhase[t] = Phase(pc[t])
    BY DEF IInv, absPhase
<1>1. CASE Call(t)
    <2>1. absPhase' = [absPhase EXCEPT ![t] = "called"]
        BY <1>0, <1>1, GotoPhase DEF Call, Phase
    <2>2. Abs!Call(t)
        BY <2>1, <1>0, <1>1 DEF Call, Abs!Call, Phase, absPhase
    <2> QED BY <2>2 DEF Abs!Next
<1>2. CASE Lock(t)
    BY <1>0, <1>2, SamePhase DEF Lock, Phase
<1>3. CASE Insert(t)
    <2>1. /\ pc' \in [Thread -> PC] /\ pc'[t] = "leave"
          /\ \A u \in Thread \ {t} :
                pc'[u] = pc[u] \/ (pc[u] = "CVisnil" /\ pc'[u] = "enter")
        BY <1>0, <1>3, Signalling DEF Insert
    <2>2. absPhase' = [absPhase EXCEPT ![t] = "done"]
        <3>1. absPhase' = [absPhase EXCEPT ![t] = Phase("leave")]
            BY <2>1, <1>0, PhaseStep
        <3> QED BY <3>1 DEF Phase
    <2>3. absPhase[t] = "called"
        BY <1>3 DEF Insert, Phase, absPhase
    <2>4. Abs!Insert(t)
        BY <2>2, <2>3, <1>3
           DEF Insert, Abs!Insert, Abs!Effect, Abs!op, op, Abs!Message,
               Message, absPhase
    <2> QED BY <2>4 DEF Abs!Next
<1>4. CASE Takeout(t)
    <2>1. /\ pc' \in [Thread -> PC] /\ pc'[t] = "leave"
          /\ \A u \in Thread \ {t} :
                pc'[u] = pc[u] \/ (pc[u] = "CVisful" /\ pc'[u] = "enter")
        BY <1>0, <1>4, Signalling DEF Takeout
    <2>2. absPhase' = [absPhase EXCEPT ![t] = "done"]
        <3>1. absPhase' = [absPhase EXCEPT ![t] = Phase("leave")]
            BY <2>1, <1>0, PhaseStep
        <3> QED BY <3>1 DEF Phase
    <2>3. absPhase[t] = "called"
        BY <1>4 DEF Takeout, Phase, absPhase
    <2>4. Abs!Takeout(t)
        BY <2>2, <2>3, <1>4
           DEF Takeout, Abs!Takeout, Abs!Effect, Abs!op, op, absPhase
    <2> QED BY <2>4 DEF Abs!Next
<1>5. CASE InsertWait(t)
    BY <1>0, <1>5, SamePhase DEF InsertWait, Phase
<1>6. CASE TakeoutWait(t)
    BY <1>0, <1>6, SamePhase DEF TakeoutWait, Phase
<1>7. CASE InsertRefused(t)
    <2>1. absPhase' = [absPhase EXCEPT ![t] = "done"]
        BY <1>0, <1>7, GotoPhase DEF InsertRefused, Phase
    <2>2. Abs!InsertRefused(t)
        BY <2>1, <1>0, <1>7
           DEF InsertRefused, Abs!InsertRefused, Abs!Effect, Abs!op, op,
               Phase, absPhase
    <2> QED BY <2>2 DEF Abs!Next
<1>8. CASE TakeoutNone(t)
    <2>1. absPhase' = [absPhase EXCEPT ![t] = "done"]
        BY <1>0, <1>8, GotoPhase DEF TakeoutNone, Phase
    <2>2. Abs!TakeoutNone(t)
        BY <2>1, <1>0, <1>8
           DEF TakeoutNone, Abs!TakeoutNone, Abs!Effect, Abs!op, op,
               Phase, absPhase
    <2> QED BY <2>2 DEF Abs!Next
<1>9. CASE Unlock(t)
    <2>1. absPhase' = [absPhase EXCEPT ![t] = "idle"]
        BY <1>0, <1>9, GotoPhase DEF Unlock, Phase
    <2>2. Abs!Return(t)
        BY <2>1, <1>0, <1>9 DEF Unlock, Abs!Return, Phase, absPhase
    <2> QED BY <2>2 DEF Abs!Next
<1>10. CASE SpuriousWakeup(t)
    BY <1>0, <1>10, SamePhase DEF SpuriousWakeup, Phase
<1> QED BY <1>1, <1>2, <1>3, <1>4, <1>5, <1>6, <1>7, <1>8, <1>9, <1>10
        DEF Step, InsertCall, TakeoutCall

\* channel_create_exn makes an empty queue.
LEMMA QueueInit == ASSUME Init PROVE Abs!Init
BY DEF Init, Abs!Init, Phase

\* The same for a step of anybody.
LEMMA QueueNext == ASSUME IInv, [Next]_vars PROVE [Abs!Next]_Abs!vars
<1>1. CASE UNCHANGED vars
    BY <1>1 DEF vars, Abs!vars
<1> QED BY <1>1, AbsStep DEF Next, Terminated

(* Every call on the channel takes effect in one step on a FIFO queue of   *)
(* Cap elements, between its start and its return (channel_t.sats).        *)
THEOREM ChannelImplementsQueue ==
    ASSUME ChannelAssumption PROVE Spec => ImplementsQueue
BY QueueInit, QueueNext, InvariantHolds, PTL
   DEF Spec, ImplementsQueue, Abs!Spec

-----------------------------------------------------------------------------
(* The list: chanlst_t.dats.                                               *)

\* A thread in chanlst_insert has an element to insert; who is past the lock
\* holds the mutex.
ListArgument == \A t \in ListThread : call[t] = "insert" => val[t] \in Element
ListExclusion == \A t \in ListThread : at[t] \in {"locked", "leave"} <=> lock = t

ListInv == CL!TypeOK /\ ListArgument /\ ListExclusion /\ CL!NoLostWakeup

\* chanlst_create makes an empty list, and nobody is inside.
LEMMA ListInit == ASSUME CL!ChanlstAssumption, CL!Init PROVE ListInv
BY DEF CL!ChanlstAssumption, CL!Init, ListInv, CL!TypeOK, ListArgument, ListExclusion,
       CL!NoLostWakeup, CL!PC, CL!Op

\* A call writes what is the caller's own.
LEMMA ListCall ==
    ASSUME CL!ChanlstAssumption, ListInv, NEW t \in ListThread, CL!Call(t)
    PROVE  ListInv'
<1>1. PICK f \in CL!Op \ {"none"}, y \in Element \cup {None} :
          /\ CL!Calls(t, f, y)
          /\ f = "insert" => y \in Element
    BY DEF CL!Call, CL!CallInsert, CL!CallTakeout, CL!Op
<1>2. given' \subseteq Element
    BY DEF CL!Call, CL!CallInsert, CL!CallTakeout, ListInv, CL!TypeOK
<1>3. /\ at[t] = "idle" /\ at' = [at EXCEPT ![t] = "enter"]
      /\ call' = [call EXCEPT ![t] = f] /\ val' = [val EXCEPT ![t] = y]
      /\ lst' = lst /\ lock' = lock
    BY <1>1 DEF CL!Calls, CL!Goto
<1>4. CL!TypeOK'
    BY <1>2, <1>3 DEF ListInv, CL!TypeOK, CL!PC, CL!Op
<1>5. ListArgument' /\ ListExclusion' /\ CL!NoLostWakeup'
    BY <1>1, <1>3 DEF ListInv, CL!TypeOK, ListArgument, ListExclusion, CL!NoLostWakeup
<1> QED BY <1>4, <1>5 DEF ListInv

\* Taking the lock, waiting, finding nothing, unlocking, and waking up leave
\* the list and what callers hold alone.
LEMMA ListLock ==
    ASSUME CL!ChanlstAssumption, ListInv, NEW t \in ListThread,
           \/ CL!Lock(t) \/ CL!TakeoutWait(t) \/ CL!TakeoutNone(t)
           \/ CL!Unlock(t) \/ CL!SpuriousWakeup(t)
    PROVE  ListInv'
<1> USE DEF CL!Lock, CL!TakeoutWait, CL!TakeoutNone, CL!Unlock, CL!SpuriousWakeup, CL!Goto
<1>1. CL!TypeOK'
    BY DEF ListInv, CL!TypeOK, CL!PC, CL!Op
<1>2. ListArgument'
    BY DEF ListInv, CL!TypeOK, ListArgument
<1>3. ListExclusion'
    BY DEF CL!ChanlstAssumption, ListInv, CL!TypeOK, ListExclusion
<1>4. CL!NoLostWakeup'
    BY DEF ListInv, CL!TypeOK, CL!NoLostWakeup
<1> QED BY <1>1, <1>2, <1>3, <1>4 DEF ListInv

\* An insertion into a list that is not nil wakes nobody, and need not.
LEMMA ListInsert ==
    ASSUME ListInv, NEW t \in ListThread, CL!Insert(t)
    PROVE  ListInv'
<1>1. val[t] \in Element /\ lst \in Seq(Element)
    BY DEF ListInv, ListArgument, CL!Insert, CL!TypeOK
<1>2. lst' \in Seq(Element) /\ lst' = <<val[t]>> \o lst
    BY <1>1 DEF CL!Insert
<1>3. /\ at' \in [ListThread -> CL!PC]
      /\ at'[t] = "leave" /\ at[t] = "locked"
      /\ \A u \in ListThread \ {t} :
            at'[u] = IF lst = <<>> /\ at[u] = "CVisnil" THEN "enter" ELSE at[u]
    BY DEF CL!Insert, ListInv, CL!TypeOK, CL!PC
<1>4. UNCHANGED <<lock, call, val, given>>
    BY DEF CL!Insert
<1>5. call[t] # "none" /\ at[t] # "idle"
    BY DEF CL!Insert
<1>6. CL!TypeOK'
    BY <1>2, <1>3, <1>4, <1>5 DEF ListInv, CL!TypeOK
<1>7. ListArgument' /\ ListExclusion'
    BY <1>3, <1>4 DEF ListInv, ListArgument, ListExclusion
<1>8. ~ \E u \in ListThread : at'[u] = "CVisnil"
    BY <1>3 DEF ListInv, CL!NoLostWakeup
<1>9. CL!NoLostWakeup'
    BY <1>8 DEF CL!NoLostWakeup
<1> QED BY <1>6, <1>7, <1>9 DEF ListInv

\* A removal is for a list that is not nil, where nobody waits.
LEMMA ListTakeout ==
    ASSUME ListInv, NEW t \in ListThread, CL!Takeout(t)
    PROVE  ListInv'
<1>1. lst \in Seq(Element) /\ lst # <<>>
    BY DEF ListInv, CL!Takeout, CL!TypeOK
<1>2. Head(lst) \in Element /\ Tail(lst) \in Seq(Element)
    BY <1>1
<1>3. CL!TypeOK'
    BY <1>2 DEF ListInv, CL!TypeOK, CL!Takeout, CL!Goto, CL!PC
<1>4. ListArgument' /\ ListExclusion'
    BY <1>2 DEF ListInv, CL!TypeOK, ListArgument, ListExclusion, CL!Takeout, CL!Goto
<1>5. CL!NoLostWakeup'
    BY <1>1 DEF ListInv, CL!TypeOK, CL!NoLostWakeup, CL!Takeout, CL!Goto
<1> QED BY <1>3, <1>4, <1>5 DEF ListInv

\* Steps of others.
LEMMA ListStutter == ASSUME ListInv, UNCHANGED chanlst PROVE ListInv'
BY DEF chanlst, ListInv, CL!TypeOK, ListArgument, ListExclusion, CL!NoLostWakeup

\* ListInv is inductive.
LEMMA ListNext ==
    ASSUME CL!ChanlstAssumption, ListInv, CL!Next \/ UNCHANGED chanlst PROVE ListInv'
BY ListCall, ListLock, ListInsert, ListTakeout, ListStutter DEF CL!Next, CL!Inside

\* What a list is for every set of threads and elements.
THEOREM ListInvariant == ASSUME CL!ChanlstAssumption PROVE CL!Spec => []ListInv
<1>1. ListInv /\ [CL!Next]_CL!vars => ListInv'
    BY ListNext DEF CL!vars, chanlst
<1> QED BY <1>1, ListInit, PTL DEF CL!Spec

-----------------------------------------------------------------------------
(* The refinement of BlockingStack. *)

listPhase == [u \in ListThread |-> CL!Phase(at[u])]

\* A step that takes one thread to l, and others from waiting to waking, is
\* seen as the step of that one alone.
LEMMA ListPhaseStep ==
    ASSUME CL!TypeOK, NEW t \in ListThread, NEW l \in CL!PC,
           at'[t] = l, at' \in [ListThread -> CL!PC],
           \A u \in ListThread \ {t} :
              at'[u] = at[u] \/ (at[u] = "CVisnil" /\ at'[u] = "enter")
    PROVE  listPhase' = [listPhase EXCEPT ![t] = CL!Phase(l)]
<1>1. ASSUME NEW u \in ListThread \ {t} PROVE CL!Phase(at'[u]) = CL!Phase(at[u])
    BY <1>1 DEF CL!Phase
<1> QED BY <1>1 DEF listPhase

\* The stack that callers see changes phase as the program counter does.
LEMMA ListGotoPhase ==
    ASSUME CL!TypeOK, NEW t \in ListThread, NEW l \in CL!PC, CL!Goto(t, l)
    PROVE  listPhase' = [listPhase EXCEPT ![t] = CL!Phase(l)]
<1>1. /\ at' \in [ListThread -> CL!PC] /\ at'[t] = l
      /\ \A u \in ListThread \ {t} : at'[u] = at[u]
    BY DEF CL!TypeOK, CL!Goto
<1> QED BY <1>1, ListPhaseStep

\* Taking the lock, waiting and waking up are no steps of the stack.
LEMMA ListSamePhase ==
    ASSUME CL!TypeOK, NEW t \in ListThread, NEW l \in CL!PC, CL!Goto(t, l),
           CL!Phase(l) = CL!Phase(at[t]), UNCHANGED <<lst, call, val>>
    PROVE  UNCHANGED Stack!vars
<1>1. listPhase' = listPhase
    BY ListGotoPhase DEF listPhase
<1> QED BY <1>1 DEF Stack!vars, listPhase

\* Every step under the mutex is one step of the stack that
\* threadkit/SATS/chanlst_t.sats promises, or none.
LEMMA StackStep ==
    ASSUME ListInv, NEW t \in ListThread,
           CL!Call(t) \/ CL!Inside(t) \/ CL!SpuriousWakeup(t)
    PROVE  [Stack!Next]_(Stack!vars)
<1> USE DEF CL!PC
<1>0. CL!TypeOK /\ listPhase[t] = CL!Phase(at[t])
    BY DEF ListInv, listPhase
<1>1. ASSUME CL!Call(t) PROVE Stack!Call(t)
    <2>1. PICK f \in CL!Op \ {"none"}, y \in Element \cup {None} :
              /\ CL!Calls(t, f, y)
              /\ \/ f = "insert" /\ y \in Element
                 \/ f \in {"takeout", "takeout_opt"} /\ y = None
        BY <1>1 DEF CL!Call, CL!CallInsert, CL!CallTakeout, CL!Op
    <2>2. listPhase' = [listPhase EXCEPT ![t] = "called"]
        BY <1>0, <2>1, ListGotoPhase DEF CL!Calls, CL!Phase
    <2>3. listPhase[t] = "idle"
        BY <1>0, <2>1 DEF CL!Calls, CL!Phase
    <2> QED BY <2>1, <2>2, <2>3 DEF CL!Calls, Stack!Call, listPhase
<1>2. ASSUME CL!Lock(t) PROVE UNCHANGED Stack!vars
    BY <1>0, <1>2, ListSamePhase DEF CL!Lock, CL!Phase
<1>3. ASSUME CL!Insert(t) PROVE Stack!Insert(t)
    <2>1. /\ at' \in [ListThread -> CL!PC] /\ at'[t] = "leave"
          /\ \A u \in ListThread \ {t} :
                at'[u] = at[u] \/ (at[u] = "CVisnil" /\ at'[u] = "enter")
        BY <1>0, <1>3 DEF CL!Insert, CL!TypeOK
    <2>2. listPhase' = [listPhase EXCEPT ![t] = CL!Phase("leave")]
        BY <2>1, <1>0, ListPhaseStep
    <2>3. CL!Phase("leave") = "done" /\ listPhase[t] = "called"
        BY <1>0, <1>3 DEF CL!Phase, CL!Insert
    <2> QED BY <2>2, <2>3, <1>3 DEF CL!Insert, Stack!Insert, Stack!Effect, listPhase
<1>4. ASSUME CL!Takeout(t) PROVE Stack!Takeout(t)
    <2>1. listPhase' = [listPhase EXCEPT ![t] = CL!Phase("leave")]
        BY <1>0, <1>4, ListGotoPhase DEF CL!Takeout
    <2>2. CL!Phase("leave") = "done" /\ listPhase[t] = "called"
        BY <1>0, <1>4 DEF CL!Phase, CL!Takeout
    <2> QED BY <2>1, <2>2, <1>4 DEF CL!Takeout, Stack!Takeout, Stack!Effect, listPhase
<1>5. ASSUME CL!TakeoutWait(t) PROVE UNCHANGED Stack!vars
    BY <1>0, <1>5, ListSamePhase DEF CL!TakeoutWait, CL!Phase
<1>6. ASSUME CL!TakeoutNone(t) PROVE Stack!TakeoutNone(t)
    <2>1. listPhase' = [listPhase EXCEPT ![t] = CL!Phase("leave")]
        BY <1>0, <1>6, ListGotoPhase DEF CL!TakeoutNone
    <2>2. CL!Phase("leave") = "done" /\ listPhase[t] = "called"
        BY <1>0, <1>6 DEF CL!Phase, CL!TakeoutNone
    <2> QED BY <2>1, <2>2, <1>6
            DEF CL!TakeoutNone, Stack!TakeoutNone, Stack!Effect, listPhase
<1>7. ASSUME CL!Unlock(t) PROVE Stack!Return(t)
    <2>1. listPhase' = [listPhase EXCEPT ![t] = CL!Phase("idle")]
        BY <1>0, <1>7, ListGotoPhase DEF CL!Unlock
    <2>2. CL!Phase("idle") = "idle" /\ listPhase[t] = "done"
        BY <1>0, <1>7 DEF CL!Phase, CL!Unlock
    <2> QED BY <2>1, <2>2, <1>7 DEF CL!Unlock, Stack!Return, listPhase
<1>8. ASSUME CL!SpuriousWakeup(t) PROVE UNCHANGED Stack!vars
    BY <1>0, <1>8, ListSamePhase DEF CL!SpuriousWakeup, CL!Phase
<1> QED BY <1>1, <1>2, <1>3, <1>4, <1>5, <1>6, <1>7, <1>8 DEF CL!Inside, Stack!Next

\* chanlst_create_exn makes an empty stack.
LEMMA StackInit == ASSUME CL!Init PROVE Stack!Init
BY DEF CL!Init, Stack!Init, CL!Phase

\* The same for a step of anybody, or of another component.
LEMMA StackNext ==
    ASSUME ListInv, CL!Next \/ UNCHANGED chanlst PROVE [Stack!Next]_(Stack!vars)
<1>1. CASE UNCHANGED chanlst
    BY <1>1 DEF chanlst, Stack!vars
<1> QED BY <1>1, StackStep DEF CL!Next

\* Every call on a chanlst takes effect in one step on a last-in first-out
\* store, between its start and its return (chanlst_t.sats).
THEOREM ListImplementsStack ==
    ASSUME CL!ChanlstAssumption PROVE CL!Spec => ImplementsStack
<1>1. ListInv /\ [CL!Next]_CL!vars => [Stack!Next]_(Stack!vars)
    BY StackNext DEF CL!vars, chanlst
<1> QED BY <1>1, StackInit, ListInvariant, PTL DEF CL!Spec, ImplementsStack, Stack!Spec

-----------------------------------------------------------------------------
(* The references to a linear channel: channel_vt.dats.                    *)

\* The references there are, those that calls of channel_unref are about to
\* give up included.
Holders == {r \in Reference : ref[r] \in {"held", "ref", "unref"}}
Count == Cardinality(Holders)

\* Neither the count nor what a call has read of it, and may write back, is too
\* low, unless a channel_ref has returned inside another call.
NotLow == "ref" \notin crossed =>
    /\ ~freed => rfcnt >= Count /\ \A r \in LC!Calling : seen[r] >= Count
    /\ freed => Holders = {}

\* And nothing is wrong until some call has written inside another.
NotWrong == crossed = {} =>
    /\ ~freed => rfcnt = Count /\ \A r \in LC!Calling : seen[r] = Count
    /\ freed <=> Holders = {}

CountInv == LC!TypeOK /\ NotLow /\ NotWrong

\* The number of holders, in the terms the proof needs.
LEMMA HoldersFinite ==
    ASSUME LC!LinChannelAssumption
    PROVE  /\ IsFiniteSet(Holders)
           /\ Count \in Nat
           /\ Count = 0 <=> Holders = {}
<1>1. IsFiniteSet(Reference)
    BY DEF LC!LinChannelAssumption, LC!IsFiniteSet, IsFiniteSet
<1>2. IsFiniteSet(Holders)
    BY <1>1, FS_Subset DEF Holders
<1> QED BY <1>2, FS_CardinalityType, FS_EmptySet DEF Count

\* channel_create_exn returns the one reference.
LEMMA CountInit == ASSUME LC!LinChannelAssumption, LC!Init PROVE CountInv
<1>1. First \in Reference
    BY DEF LC!LinChannelAssumption
<1>2. Holders = {First}
    BY <1>1 DEF LC!Init, Holders
<1>3. LC!Calling = {}
    BY DEF LC!Init, LC!Calling
<1>4. Count = 1
    BY <1>2, FS_Singleton DEF Count
<1>5. LC!TypeOK
    <2>1. spin \in BOOLEAN /\ freed \in BOOLEAN
        BY Zenon DEF LC!Init
    <2> QED BY <2>1 DEF LC!Init, LC!TypeOK, LC!PC
<1> QED BY <1>2, <1>3, <1>4, <1>5 DEF LC!Init, CountInv, NotLow, NotWrong

\* A call begins and reads the count: what it has read is as right as that.
LEMMA CountBegin ==
    ASSUME CountInv, NEW r \in Reference, LC!Ref(r) \/ LC!Unref(r)
    PROVE  CountInv'
<1>1. PICK l \in {"ref", "unref"} : ref' = [ref EXCEPT ![r] = l]
    BY DEF LC!Ref, LC!Unref
<1>2. /\ ref[r] = "held" /\ ~freed /\ spin' \in BOOLEAN /\ crossed' = crossed
      /\ seen' = [seen EXCEPT ![r] = rfcnt] /\ rfcnt' = rfcnt /\ freed' = freed
    BY DEF LC!Ref, LC!Unref, LC!MayCall, CountInv, LC!TypeOK
<1>3. LC!TypeOK'
    BY <1>1, <1>2 DEF CountInv, LC!TypeOK, LC!PC
<1>4. /\ \A q \in Reference : ref'[q] = IF q = r THEN l ELSE ref[q]
      /\ \A q \in Reference : seen'[q] = IF q = r THEN rfcnt ELSE seen[q]
    BY <1>1, <1>2 DEF CountInv, LC!TypeOK
<1>5. Holders' = Holders
    BY <1>2, <1>4 DEF Holders
<1>6. Count' = Count
    BY <1>5 DEF Count
<1>7. \A q \in LC!Calling' : q \in Reference /\ (q = r \/ q \in LC!Calling)
    BY <1>4 DEF LC!Calling
<1>8. NotLow'
    BY <1>2, <1>4, <1>5, <1>6, <1>7 DEF CountInv, NotLow
<1>9. NotWrong'
    BY <1>2, <1>4, <1>5, <1>6, <1>7 DEF CountInv, NotWrong
<1> QED BY <1>3, <1>8, <1>9 DEF CountInv

\* channel_ref writes the count that it has read, plus one; inside another call
\* it may spoil what that has read.
LEMMA CountRefReturn ==
    ASSUME LC!LinChannelAssumption, CountInv,
           NEW r \in Reference, NEW s \in Reference, LC!RefReturn(r, s)
    PROVE  CountInv'
<1>1. /\ ref[r] = "ref" /\ ref[s] = "none" /\ ~freed /\ freed' = freed
      /\ rfcnt' = seen[r] + 1 /\ spin' = FALSE
      /\ crossed' = IF LC!Calling = {r} THEN crossed ELSE crossed \cup {"ref"}
      /\ seen' = [seen EXCEPT ![r] = 0]
    BY DEF LC!RefReturn, LC!Unused, LC!Forget, LC!Write
<1>2. r \in LC!Calling /\ seen[r] \in Nat
    BY <1>1 DEF LC!Calling, CountInv, LC!TypeOK
<1>3. /\ ref' \in [Reference -> LC!PC]
      /\ \A q \in Reference : ref'[q] = IF q \in {r, s} THEN "held" ELSE ref[q]
    BY <1>1 DEF LC!RefReturn, CountInv, LC!TypeOK, LC!PC
<1>4. LC!TypeOK'
    <2>1. spin' \in BOOLEAN /\ freed' \in BOOLEAN
        BY <1>1, Zenon DEF CountInv, LC!TypeOK
    <2>2. rfcnt' \in Nat \ {0} /\ seen' \in [Reference -> Nat]
        BY <1>1, <1>2 DEF CountInv, LC!TypeOK
    <2>3. crossed' \subseteq {"ref", "unref"}
        BY <1>1 DEF CountInv, LC!TypeOK
    <2> QED BY <1>3, <2>1, <2>2, <2>3 DEF LC!TypeOK
<1>5. Holders' = Holders \cup {s} /\ s \notin Holders
    BY <1>1, <1>3 DEF Holders
<1>6. Count' = Count + 1 /\ Count \in Nat
    BY <1>5, HoldersFinite, FS_AddElement DEF Count
<1>7. CASE LC!Calling # {r}
    BY <1>1, <1>4, <1>7 DEF CountInv, NotLow, NotWrong
<1>8. CASE LC!Calling = {r}
    <2>1. LC!Calling' = {}
        BY <1>3, <1>8 DEF LC!Calling
    <2>2. crossed' = crossed
        BY <1>1, <1>8
    <2>3. NotLow'
        BY <1>1, <1>2, <1>6, <2>1, <2>2 DEF CountInv, NotLow
    <2>4. NotWrong'
        BY <1>1, <1>2, <1>5, <1>6, <2>1, <2>2 DEF CountInv, NotWrong
    <2> QED BY <1>4, <2>3, <2>4 DEF CountInv
<1> QED BY <1>7, <1>8

\* What channel_unref does to the references.
LEMMA HoldersUnref ==
    ASSUME LC!LinChannelAssumption, LC!TypeOK, NEW r \in Reference,
           LC!UnrefReturn(r) \/ LC!UnrefFree(r)
    PROVE  /\ ~freed /\ r \in LC!Calling /\ seen[r] \in Nat
           /\ Holders' = Holders \ {r} /\ r \in Holders
           /\ Count' = Count - 1 /\ Count \in Nat \ {0}
           /\ Count = 1 <=> Holders' = {}
           /\ LC!Calling' = LC!Calling \ {r}
           /\ \A q \in LC!Calling' : seen'[q] = seen[q]
           /\ ref' \in [Reference -> LC!PC] /\ seen' \in [Reference -> Nat]
<1>1. /\ ref[r] = "unref" /\ ~freed
      /\ seen' = [seen EXCEPT ![r] = 0]
      /\ ref' = [ref EXCEPT ![r] = "given"]
    BY DEF LC!UnrefReturn, LC!UnrefFree, LC!Forget
<1>2. /\ ref' \in [Reference -> LC!PC] /\ seen' \in [Reference -> Nat]
      /\ \A q \in Reference : ref'[q] = IF q = r THEN "given" ELSE ref[q]
      /\ \A q \in Reference : q # r => seen'[q] = seen[q]
    BY <1>1 DEF LC!TypeOK, LC!PC
<1>3. r \in LC!Calling /\ seen[r] \in Nat /\ LC!Calling' = LC!Calling \ {r}
    BY <1>1, <1>2 DEF LC!Calling, LC!TypeOK
<1>4. \A q \in LC!Calling' : seen'[q] = seen[q]
    BY <1>2, <1>3 DEF LC!Calling
<1>5. Holders' = Holders \ {r} /\ r \in Holders
    BY <1>1, <1>2 DEF Holders
<1>6. Count' = Count - 1 /\ Count \in Nat
    BY <1>5, HoldersFinite, FS_RemoveElement DEF Count
<1>7. Count # 0
    BY <1>5, HoldersFinite
<1>8. Count' = 0 <=> Holders' = {}
    <2>1. IsFiniteSet(Holders')
        BY <1>5, HoldersFinite, FS_Subset
    <2> QED BY <2>1, FS_EmptySet DEF Count
<1> QED BY <1>1, <1>2, <1>3, <1>4, <1>5, <1>6, <1>7, <1>8

\* channel_unref writes the count that it has read, minus one.  What others
\* have read was not too low before, and there is one reference less now.
LEMMA CountUnrefReturn ==
    ASSUME LC!LinChannelAssumption, CountInv, NEW r \in Reference, LC!UnrefReturn(r)
    PROVE  CountInv'
<1>1. /\ ~freed /\ r \in LC!Calling /\ seen[r] \in Nat
      /\ Holders' = Holders \ {r} /\ r \in Holders
      /\ Count' = Count - 1 /\ Count \in Nat \ {0}
      /\ Count = 1 <=> Holders' = {}
      /\ LC!Calling' = LC!Calling \ {r}
      /\ \A q \in LC!Calling' : seen'[q] = seen[q]
      /\ ref' \in [Reference -> LC!PC] /\ seen' \in [Reference -> Nat]
    BY HoldersUnref DEF CountInv
<1>2. /\ seen[r] >= 2 /\ rfcnt' = seen[r] - 1 /\ freed' = freed /\ spin' = spin
      /\ crossed' = IF LC!Calling = {r} THEN crossed ELSE crossed \cup {"unref"}
    BY DEF LC!UnrefReturn, LC!Write
<1>3. LC!TypeOK'
    BY <1>1, <1>2 DEF CountInv, LC!TypeOK
<1>4. \A q \in LC!Calling : seen[q] \in Nat
    BY DEF CountInv, LC!TypeOK, LC!Calling
<1>5. NotLow'
    BY <1>1, <1>2, <1>4 DEF CountInv, NotLow
<1>6. NotWrong'
    BY <1>1, <1>2 DEF CountInv, NotWrong
<1> QED BY <1>3, <1>5, <1>6 DEF CountInv

\* channel_unref frees the channel for nobody else.
LEMMA CountUnrefFree ==
    ASSUME LC!LinChannelAssumption, CountInv, NEW r \in Reference, LC!UnrefFree(r)
    PROVE  CountInv'
<1>1. /\ ~freed /\ r \in LC!Calling /\ seen[r] \in Nat
      /\ Count \in Nat \ {0}
      /\ Count = 1 <=> Holders' = {}
      /\ ref' \in [Reference -> LC!PC] /\ seen' \in [Reference -> Nat]
    BY HoldersUnref DEF CountInv
<1>2. /\ seen[r] < 2 /\ rfcnt' = rfcnt /\ freed' = TRUE /\ spin' = spin
      /\ crossed' = crossed
    BY DEF LC!UnrefFree
<1>3. LC!TypeOK'
    BY <1>1, <1>2 DEF CountInv, LC!TypeOK
<1>4. NotLow'
    BY <1>1, <1>2 DEF CountInv, NotLow
<1>5. NotWrong'
    BY <1>1, <1>2 DEF CountInv, NotWrong
<1> QED BY <1>3, <1>4, <1>5 DEF CountInv

\* Steps of others.
LEMMA CountStutter == ASSUME CountInv, UNCHANGED linchannel PROVE CountInv'
BY DEF linchannel, CountInv, LC!TypeOK, NotLow, NotWrong, Count, Holders, LC!Calling

\* CountInv is inductive.
LEMMA CountNext ==
    ASSUME LC!LinChannelAssumption, CountInv, LC!Next \/ UNCHANGED linchannel
    PROVE  CountInv'
BY CountBegin, CountRefReturn, CountUnrefReturn, CountUnrefFree, CountStutter
   DEF LC!Next

\* What a caller of channel_ref and channel_unref may count on.
LEMMA CountMeans == ASSUME CountInv PROVE CountAgrees
<1>1. LC!Holders = Holders
    BY DEF LC!Holders, Holders
<1>2. LC!Cardinality(LC!Holders) = Count
    BY <1>1 DEF Cardinality, LC!Cardinality, Count
<1> QED BY <1>1, <1>2
        DEF CountInv, NotLow, NotWrong, CountAgrees, LC!CountAgrees, LC!NeverTooLow,
            LC!Exact

\* For any number of references and calls of channel_ref and channel_unref that
\* overlap in any way: the count is too low, and the channel freed too early,
\* only after a channel_ref has returned inside another call; and it is wrong
\* only after some call has written it inside another.
THEOREM CountHolds ==
    ASSUME LC!LinChannelAssumption PROVE LC!Spec => []CountAgrees
<1>1. CountInv /\ [LC!Next]_(LC!vars) => CountInv'
    BY CountNext DEF LC!vars, linchannel
<1> QED BY <1>1, CountInit, CountMeans, PTL DEF LC!Spec

-----------------------------------------------------------------------------
(* The nwaiter: NwaiterProofs, once for tickets that are put one at a time *)
(* and once for one round in which they are put in any way.                *)

SerialP == INSTANCE NwaiterProofs WITH Overlapping <- FALSE, pc <- ticket
TogetherP == INSTANCE NwaiterProofs
    WITH Rounds <- 1, Overlapping <- TRUE, pc <- ticket

\* Assumption, initial state and steps are those of Nwaiter: Serial.
LEMMA SerialAssumed ==
    ASSUME Serial!NwaiterAssumption PROVE SerialP!NwaiterAssumption
BY DEF Serial!NwaiterAssumption, SerialP!NwaiterAssumption,
       Serial!IsFiniteSet, SerialP!IsFiniteSet

\* The nwaiter starts as its proofs say: Serial.
LEMMA SerialInit ==
    ASSUME Serial!NwaiterAssumption, Serial!MeetInit PROVE SerialP!MeetInv
<1>1. SerialP!MeetInit
    BY DEF Serial!MeetInit, Serial!Init, SerialP!MeetInit, SerialP!Init
<1> QED BY <1>1, SerialAssumed, SerialP!MeetInitHolds

\* Its steps keep what its proofs establish: Serial.
LEMMA SerialNext ==
    ASSUME Serial!NwaiterAssumption, SerialP!MeetInv,
           Serial!MeetNext \/ UNCHANGED nwaiter
    PROVE  SerialP!MeetInv'
<1>1. CASE Serial!MeetNext
    <2>1. SerialP!MeetNext
        BY <1>1
           DEF Serial!MeetNext, Serial!Remember, Serial!Counted,
               SerialP!MeetNext, SerialP!Remember, SerialP!Counted, Serial!Next, Serial!vars, Serial!OwnerNext, Serial!Put, Serial!Split,
               Serial!Initiate, Serial!InitiateLock, Serial!Waitfor, Serial!WaitforLock,
               Serial!WaitforUnlock, Serial!Destroy, Serial!Decrement, Serial!Reread,
               Serial!Unlock, Serial!Fresh, Serial!Putting,
               SerialP!Next, SerialP!vars, SerialP!OwnerNext, SerialP!Put,
               SerialP!Split, SerialP!Initiate, SerialP!InitiateLock, SerialP!Waitfor,
               SerialP!WaitforLock, SerialP!WaitforUnlock, SerialP!Destroy,
               SerialP!Decrement, SerialP!Reread, SerialP!Unlock, SerialP!Fresh,
               SerialP!Putting
    <2> QED BY <2>1, SerialAssumed, SerialP!MeetNextHolds
<1>2. CASE UNCHANGED nwaiter
    <2>1. UNCHANGED SerialP!meetvars
        BY <1>2 DEF nwaiter, SerialP!meetvars, SerialP!vars
    <2> QED BY <2>1, SerialAssumed, SerialP!MeetNextHolds
<1> QED BY <1>1, <1>2

\* Assumption, initial state and steps are those of Nwaiter: Together.
LEMMA TogetherAssumed ==
    ASSUME Together!NwaiterAssumption PROVE TogetherP!NwaiterAssumption
BY DEF Together!NwaiterAssumption, TogetherP!NwaiterAssumption,
       Together!IsFiniteSet, TogetherP!IsFiniteSet

\* The nwaiter starts as its proofs say: Together.
LEMMA TogetherInit ==
    ASSUME Together!NwaiterAssumption, Serial!MeetInit PROVE TogetherP!MeetInv
<1>1. TogetherP!MeetInit
    BY DEF Serial!MeetInit, Serial!Init, TogetherP!MeetInit, TogetherP!Init
<1> QED BY <1>1, TogetherAssumed, TogetherP!MeetInitHolds

\* Its steps keep what its proofs establish: Together.
LEMMA TogetherNext ==
    ASSUME Together!NwaiterAssumption, TogetherP!MeetInv,
           Together!MeetNext \/ UNCHANGED nwaiter
    PROVE  TogetherP!MeetInv'
<1>1. CASE Together!MeetNext
    <2>1. TogetherP!MeetNext
        BY <1>1
           DEF Together!MeetNext, Together!Remember, Together!Counted,
               TogetherP!MeetNext, TogetherP!Remember, TogetherP!Counted, Together!Next, Together!vars, Together!OwnerNext, Together!Put,
               Together!Split, Together!Initiate, Together!InitiateLock,
               Together!Waitfor, Together!WaitforLock, Together!WaitforUnlock,
               Together!Destroy, Together!Decrement, Together!Reread, Together!Unlock,
               Together!Fresh, Together!Putting,
               TogetherP!Next, TogetherP!vars, TogetherP!OwnerNext, TogetherP!Put,
               TogetherP!Split, TogetherP!Initiate, TogetherP!InitiateLock,
               TogetherP!Waitfor, TogetherP!WaitforLock, TogetherP!WaitforUnlock,
               TogetherP!Destroy, TogetherP!Decrement, TogetherP!Reread,
               TogetherP!Unlock, TogetherP!Fresh, TogetherP!Putting
    <2> QED BY <2>1, TogetherAssumed, TogetherP!MeetNextHolds
<1>2. CASE UNCHANGED nwaiter
    <2>1. UNCHANGED TogetherP!meetvars
        BY <1>2 DEF nwaiter, TogetherP!meetvars, TogetherP!vars
    <2> QED BY <2>1, TogetherAssumed, TogetherP!MeetNextHolds
<1> QED BY <1>1, <1>2

-----------------------------------------------------------------------------
(* The behaviours of MCThreadkit: one component moves, the others rest.    *)

NwaiterInv == IF use = "nwaiter_together" THEN TogetherP!MeetInv ELSE SerialP!MeetInv

MCInv == IInv /\ ListInv /\ CountInv /\ NwaiterInv

\* Whatever component is in use, all of them start well.
LEMMA MCInitHolds == ASSUME MCInit PROVE MCInv
<1>1. IInv
    BY InitIInv, WellFormedAssumption DEF MCInit
<1>2. ListInv
    BY ListInit, ChanlstAssumption DEF MCInit
<1>3. CountInv
    BY CountInit, LinChannelAssumption DEF MCInit
<1>4. NwaiterInv
    BY SerialInit, TogetherInit, NwaiterAssumption DEF MCInit, NwaiterInv
<1> QED BY <1>1, <1>2, <1>3, <1>4 DEF MCInv

\* A step is one of the component in use, and leaves the others alone.
LEMMA MCStep ==
    ASSUME [MCNext]_mcvars
    PROVE  /\ use' = use
           /\ [Next]_vars
           /\ CL!Next \/ UNCHANGED chanlst
           /\ LC!Next \/ UNCHANGED linchannel
           /\ IF use = "nwaiter_together"
                THEN Together!MeetNext \/ UNCHANGED nwaiter
                ELSE Serial!MeetNext \/ UNCHANGED nwaiter
BY DEF MCNext, mcvars, channel

\* The invariants of the components hold together.
LEMMA MCNextHolds == ASSUME MCInv, [MCNext]_mcvars PROVE MCInv'
<1>1. IInv'
    BY MCStep, NextIInv, WellFormedAssumption DEF MCInv
<1>2. ListInv'
    BY MCStep, ListNext, ChanlstAssumption DEF MCInv
<1>3. CountInv'
    BY MCStep, CountNext, LinChannelAssumption DEF MCInv
<1>4. NwaiterInv'
    BY MCStep, SerialNext, TogetherNext, NwaiterAssumption DEF MCInv, NwaiterInv
<1> QED BY <1>1, <1>2, <1>3, <1>4 DEF MCInv

\* Channels, lists, counts and nwaiters as the run checks them, for any
\* threads, programs, elements, references and tickets.
THEOREM MCInvariant == MCSpec => []MCInv
BY MCInitHolds, MCNextHolds, PTL DEF MCSpec

\* No thread sleeps in chanlst_takeout while the list has an element.
THEOREM TakerAwakeHolds == MCSpec => []TakerAwake
<1>1. MCInv => TakerAwake
    BY DEF MCInv, ListInv, TakerAwake
<1> QED BY <1>1, MCInvariant, PTL

\* The count of channel_ref and channel_unref, whatever calls overlap: what
\* CountHolds says, of the run.
THEOREM CountAgreesHolds == MCSpec => []CountAgrees
<1>1. MCInv => CountAgrees
    BY CountMeans DEF MCInv
<1> QED BY <1>1, MCInvariant, PTL

\* nwaiter_waitfor comes through only when every ticket has been put, in any
\* number of rounds, or in one if tickets are put together.
THEOREM WaitedForAllHolds == MCSpec => []WaitedForAll
<1>1. SerialP!MeetInv => WaitedForAll
    BY DEF SerialP!MeetInv, SerialP!IInv, SerialP!HeldInside, SerialP!Held,
           WaitedForAll, Serial!WaitedForAll, Serial!Held
<1>2. TogetherP!MeetInv => WaitedForAll
    BY DEF TogetherP!MeetInv, TogetherP!IInv, TogetherP!HeldInside, TogetherP!Held,
           WaitedForAll, Serial!WaitedForAll, Serial!Held
<1>3. MCInv => WaitedForAll
    BY <1>1, <1>2 DEF MCInv, NwaiterInv
<1> QED BY <1>3, MCInvariant, PTL

\* A nwaiter_ticket_put that has met no other between its decrement and its
\* test finds the mutex locked, also when others have met.
THEOREM LockedUnlessMetHolds == MCSpec => []LockedUnlessMet
<1>1. SerialP!MeetInv => LockedUnlessMet
    BY DEF SerialP!MeetInv, SerialP!Lone, SerialP!Putting, LockedUnlessMet,
           Serial!LockedUnlessMet
<1>2. TogetherP!MeetInv => LockedUnlessMet
    BY DEF TogetherP!MeetInv, TogetherP!Lone, TogetherP!Putting, LockedUnlessMet,
           Serial!LockedUnlessMet
<1>3. MCInv => LockedUnlessMet
    BY <1>1, <1>2 DEF MCInv, NwaiterInv
<1> QED BY <1>3, MCInvariant, PTL

\* Nor is the nwaiter destroyed before such a put is over.
THEOREM NotFreedUnlessMetHolds == MCSpec => []NotFreedUnlessMet
<1>1. SerialP!MeetInv => NotFreedUnlessMet
    BY DEF SerialP!MeetInv, SerialP!Lone, SerialP!Putting, NotFreedUnlessMet,
           Serial!NotFreedUnlessMet, Serial!Putting
<1>2. TogetherP!MeetInv => NotFreedUnlessMet
    BY DEF TogetherP!MeetInv, TogetherP!Lone, TogetherP!Putting, NotFreedUnlessMet,
           Serial!NotFreedUnlessMet, Serial!Putting
<1>3. MCInv => NotFreedUnlessMet
    BY <1>1, <1>2 DEF MCInv, NwaiterInv
<1> QED BY <1>3, MCInvariant, PTL

\* The list of the run is an atomic stack.
THEOREM MCImplementsStack == MCSpec => ImplementsStack
<1>1. MCInit => Stack!Init
    BY StackInit DEF MCInit
<1>2. MCInv /\ [MCNext]_mcvars => [Stack!Next]_(Stack!vars)
    BY MCStep, StackNext DEF MCInv
<1> QED BY <1>1, <1>2, MCInvariant, PTL DEF MCSpec, ImplementsStack, Stack!Spec

=============================================================================
