---------------------------- MODULE SessionsProofs ----------------------------
(***************************************************************************)
(* Uchan, for any number of uchans and threads, any capacity, and all      *)
(* programs that keep to linear channels and to a protocol                 *)
(* (UchanAssumption): no memory is used after it was freed, what is freed  *)
(* is empty, messages keep their order across links, and the counts are    *)
(* those of the references when unrefs of a uchan do not overlap.          *)
(*                                                                         *)
(* The proof follows the two references that a uchan has from its          *)
(* creation.  That of the writer is with thread u until it gives it up.    *)
(* That of the reader is with a thread (InHand) or in the qnext of another *)
(* uchan; neither is ever duplicated (Tokens).                             *)
(*                                                                         *)
(* The second part is about SessionLink, for any number of roles, sessions *)
(* and calls that overlap: the roles of a session are shared out, what is  *)
(* read leads to what is written, and counts are those of the references.  *)
(* It begins with the lists of Intset: what the recursive functions return *)
(* is shown without induction on lists, by smallest counterexamples.       *)
(***************************************************************************)
EXTENDS MCSessions, FiniteSetTheorems, SequenceTheorems, WellFoundedInduction,
        TLAPS

-----------------------------------------------------------------------------
(* The invariant.                                                          *)

HasIn(t) == rd[t] # Null \/ qnxt[t] # Null

\* The current call of t has given up the ends that it is to give up, or what
\* it may do without that.
Begun(t) ==
    \/ op(t) = "link" /\ pc[t] \in {"leave", "unref", "counted"}
    \/ op(t) \in {"close_in", "close_out"} /\ pc[t] \in {"unref", "counted"}

Ahead(t, i) == i \in 1..Len(todo[t]) /\ (i = 1 => ~Begun(t))

\* Where in its current call a thread may be, and what its variables are there.
Placed(t) ==
    /\ Len(todo[t]) <= MaxCalls
    /\ pc[t] # "idle" => todo[t] # <<>>
    /\ pc[t] \in PC \ {"idle", "unref", "counted"} =>
          op(t) \in {"insert", "remove", "link"}
    /\ pc[t] = "leave" /\ op(t) = "link" => t \in joined /\ wr[t] = t /\ t # Null
    /\ pc[t] \in {"unref", "counted"} =>
          /\ op(t) # "insert"
          /\ op(t) = "remove" => qnxt[t] # Null
    /\ dead[t] # Null <=> pc[t] \in {"unref", "counted"}
    /\ seen[t] # 0 <=> pc[t] = "counted"
    /\ qnxt[t] # Null =>
          /\ op(t) = "remove" /\ pc[t] \in {"leave", "unref", "counted"}
          /\ rd[t] # Null <=> pc[t] = "leave"

\* A thread has the ends that its calls are about.
Ends(t) ==
    /\ wr[t] \in {t, Null}
    /\ \A i \in 1..Len(todo[t]) : Ahead(t, i) =>
          /\ todo[t][i] \in Reading => HasIn(t)
          /\ todo[t][i] \in Writing => wr[t] = t /\ t # Null
    /\ \A i, j \in 1..Len(todo[t]) : i < j =>
          /\ todo[t][i] \in {"link", "close_in"} => todo[t][j] \notin Reading
          /\ todo[t][i] \in {"link", "close_out"} => todo[t][j] \notin Writing
    /\ t \in joined => /\ ~HasIn(t)
                       /\ wr[t] # Null => Begun(t) /\ op(t) = "link" /\ pc[t] = "leave"

\* The uchans between x and u have been left behind, by links.
Through(x, u) == x < u /\ \A j \in Uchans : x < j /\ j < u => j \in joined /\ queue[j] = <<>>

Paths ==
    /\ \A t \in Thread : rd[t] # Null => Through(t, rd[t])
    /\ \A t \in Thread : qnxt[t] # Null => Through(t, qnxt[t])
    /\ \A t \in Thread : rd[t] # Null /\ qnxt[t] # Null =>
          rd[t] < qnxt[t] /\ qnext[rd[t]] = Null
    /\ \A u \in Uchans : qnext[u] # Null => u \in joined /\ Through(u, qnext[u])

\* The reader's reference to u is with t.
InHand(t, u) == rd[t] = u \/ qnxt[t] = u \/ (dead[t] = u /\ t # u)

Tokens ==
    /\ \A t, s \in Thread, u \in Uchans : InHand(t, u) /\ InHand(s, u) => t = s
    /\ \A t \in Thread, u \in Uchans :
          /\ ~(rd[t] = u /\ qnxt[t] = u) /\ ~(rd[t] = u /\ dead[t] = u)
          /\ ~(qnxt[t] = u /\ dead[t] = u)
          /\ \A v \in Uchans : qnext[v] = u => ~InHand(t, u)
          /\ dead[t] = u => t <= u /\ (t = u => wr[t] = Null)
    /\ \A v, w \in Uchans : qnext[v] # Null /\ qnext[v] = qnext[w] => v = w

WriterHas(u) == wr[u] = u \/ dead[u] = u
ReaderHas(u) == (\E t \in Thread : InHand(t, u)) \/ \E v \in Uchans : qnext[v] = u

\* An unref that frees a uchan has read that the other reference was given up.
Counts ==
    /\ \A u \in Uchans :
          /\ rfcnt[u] = 1 => ~WriterHas(u) \/ ~ReaderHas(u)
          /\ u \in freed => ~WriterHas(u) /\ ~ReaderHas(u) /\ qnext[u] = Null
    /\ \A t \in Thread : seen[t] = 1 => rfcnt[dead[t]] = 1

ToSend(u, n) ==
    /\ n \in 1..Len(todo[u]) /\ todo[u][Len(todo[u]) + 1 - n] = "insert"
    /\ n = Len(todo[u]) => pc[u] # "leave"

ToReceive(t, n) ==
    /\ n \in 1..Len(todo[t]) /\ todo[t][Len(todo[t]) + 1 - n] = "remove"
    /\ n = Len(todo[t]) /\ qnxt[t] = Null => pc[t] # "leave"

InQueue(u, n) == \E i \in 1..Len(queue[u]) : queue[u][i] = <<u, n>>

\* The queue of u has messages of thread u, in the order of its calls.
Sent ==
    \A u \in Uchans :
        /\ \A i \in 1..Len(queue[u]) :
              /\ queue[u][i][1] = u
              /\ \/ queue[u][i][2] > Len(todo[u])
                 \/ queue[u][i][2] = Len(todo[u]) /\ pc[u] = "leave" /\ op(u) = "insert"
        /\ \A i, j \in 1..Len(queue[u]) : i < j => queue[u][i][2] > queue[u][j][2]

\* Nothing is in u, and nothing will be.
Silent(u) == queue[u] = <<>> /\ \A n \in 1..MaxCalls : ~ToSend(u, n)

\* Nobody will receive from u.
ReaderUp(u) ==
    /\ \A t \in Thread : rd[t] # u /\ qnxt[t] # u
    /\ \A v \in Uchans : qnext[v] # u

Closed(a) == a \notin joined /\ ~HasIn(a)

\* Either the reader moved on, or the thread that closed its end, at the
\* beginning of uchans that are joined, has received all.
Silence ==
    \A u \in Uchans : ReaderUp(u) =>
        /\ Silent(u)
        /\ u \notin joined \/ qnext[u] # Null =>
              \E a \in Thread : /\ a < u /\ Closed(a)
                                /\ \A j \in Uchans : a < j /\ j < u => j \in joined

\* a has closed its end, or is going to.
Closing(a) ==
    a \notin joined /\ (~HasIn(a) \/ \E i \in 1..Len(todo[a]) : todo[a][i] = "close_in")
Linking(t) == t \in joined \/ \E i \in 1..Len(todo[t]) : todo[t][i] = "link"

Due(a, k) ==
    {m \in Thread \X (1..MaxCalls) :
        a < m[1] /\ m[1] <= k /\ (InQueue(m[1], m[2]) \/ ToSend(m[1], m[2]))}
Expected(a, k) ==
    {m \in Thread \X (1..MaxCalls) : a <= m[1] /\ m[1] < k /\ ToReceive(m[1], m[2])}

Protocol ==
    \A a \in Thread, k \in Uchans :
        a < k /\ Closing(a) /\ (\A j \in Uchans : a < j /\ j < k => Linking(j))
            => Cardinality(Due(a, k)) <= Cardinality(Expected(a, k))

Threads == \A t \in Thread : Placed(t) /\ Ends(t)
UchanInv ==
    TypeOK /\ Threads /\ Paths /\ Tokens /\ Counts /\ Sent /\ Silence /\ Protocol

-----------------------------------------------------------------------------
(* Basic facts.                                                            *)

LEMMA Constants ==
    /\ N \in Nat \ {0} /\ Cap \in Nat \ {0} /\ MaxCalls \in Nat /\ NoThread \notin Thread
    /\ Uchans \subseteq Thread /\ Thread \subseteq Nat /\ 0 \notin Uchans /\ Null = 0
    /\ \A t \in Thread : t = 0 \/ t \in Uchans
BY SessionsAssumption DEF UchanAssumption, Uchans, Thread, Null

\* A list of calls, and what is left after the first.
LEMMA CallFacts ==
    ASSUME NEW q \in Seq(Op)
    PROVE  /\ Len(q) \in Nat /\ \A i \in 1..Len(q) : q[i] \in Op
           /\ q = <<>> <=> Len(q) = 0
           /\ q # <<>> => /\ Len(q) >= 1 /\ Head(q) = q[1] /\ q[1] \in Op
                          /\ Tail(q) \in Seq(Op) /\ Len(Tail(q)) = Len(q) - 1
                          /\ \A i \in 1..Len(q) - 1 : Tail(q)[i] = q[i + 1]
<1>1. Len(q) \in Nat /\ \A i \in 1..Len(q) : q[i] \in Op
    BY LenProperties, ElementOfSeq
<1>2. q = <<>> <=> Len(q) = 0
    BY EmptySeq
<1>3. ASSUME q # <<>>
      PROVE  /\ Len(q) >= 1 /\ Head(q) = q[1] /\ q[1] \in Op
             /\ Tail(q) \in Seq(Op) /\ Len(Tail(q)) = Len(q) - 1
             /\ \A i \in 1..Len(q) - 1 : Tail(q)[i] = q[i + 1]
    BY <1>1, <1>2, <1>3, HeadTailProperties
<1> QED BY <1>1, <1>2, <1>3

\* What the types say of one thread.
LEMMA ThreadTypes ==
    ASSUME TypeOK, NEW t \in Thread
    PROVE  /\ todo[t] \in Seq(Op) /\ pc[t] \in PC /\ seen[t] \in 0..2
           /\ rd[t] \in Uchans \cup {0} /\ wr[t] \in Uchans \cup {0}
           /\ qnxt[t] \in Uchans \cup {0} /\ dead[t] \in Uchans \cup {0}
           /\ DOMAIN pc = Thread /\ DOMAIN todo = Thread
BY DEF TypeOK, Null

\* A step of t leaves what is another's, but for waking who waits.
Woken(s) == pc'[s] = pc[s] \/ (pc[s] \in {"CVisnil", "CVisful"} /\ pc'[s] = "enter")
SameThread(s) ==
    /\ todo'[s] = todo[s] /\ rd'[s] = rd[s] /\ wr'[s] = wr[s] /\ qnxt'[s] = qnxt[s]
    /\ dead'[s] = dead[s] /\ seen'[s] = seen[s]
    /\ s \in joined' <=> s \in joined
    /\ Woken(s)

LEMMA OthersStay ==
    ASSUME TypeOK, NEW t \in Thread, Step(t) \/ SpuriousWakeup(t),
           NEW s \in Thread, s # t
    PROVE  SameThread(s)
<1>1. CASE Call(t) \/ Close(t) \/ Lock(t) \/ SpuriousWakeup(t)
    BY <1>1 DEF Call, Close, Lock, SpuriousWakeup, Goto, SameThread, Woken, fields, history,
        TypeOK
<1>2. CASE InsertWait(t) \/ RemoveWait(t) \/ UnrefRead(t)
    BY <1>2 DEF InsertWait, RemoveWait, UnrefRead, Sleep, Goto, SameThread, Woken, fields,
        history, TypeOK
<1>3. CASE Insert(t) \/ Remove(t) \/ Link(t)
  <2>1. pc'[s] = pc[s] \/ (pc[s] \in {"CVisnil", "CVisful"} /\ pc'[s] = "enter")
    BY <1>3 DEF Insert, Remove, Link, GotoSignalling, Waiting
  <2>2. s \in joined' <=> s \in joined
    BY <1>3 DEF Insert, Remove, Link, history
  <2> QED BY <1>3, <2>1, <2>2 DEF Insert, Remove, Link, SameThread, Woken, history, TypeOK
<1>4. CASE RemoveNext(t) \/ Unlock(t) \/ UnlockUnref(t)
    BY <1>4 DEF RemoveNext, Unlock, UnlockUnref, Returns, Goto, SameThread, Woken, fields,
        history, TypeOK
<1>5. CASE UnrefWrite(t) \/ UnrefFree(t)
    BY <1>5 DEF UnrefWrite, UnrefFree, Unreffed, Returns, Goto, SameThread, Woken, fields,
        history, TypeOK
<1> QED BY <1>1, <1>2, <1>3, <1>4, <1>5 DEF Step

LEMMA OtherThread ==
    ASSUME TypeOK, NEW s \in Thread, Placed(s), Ends(s), SameThread(s)
    PROVE  Placed(s)' /\ Ends(s)'
<1>1. pc'[s] = pc[s] \/ (pc[s] \in {"CVisnil", "CVisful"} /\ pc'[s] = "enter")
    BY DEF SameThread, Woken
<1>2. todo'[s] = todo[s] /\ op(s)' = op(s)
    BY DEF SameThread, op
<1>3. Begun(s)' <=> Begun(s)
    BY <1>1, <1>2 DEF Begun
<1>4. HasIn(s)' <=> HasIn(s)
    BY DEF HasIn, SameThread
<1>5. \A i : Ahead(s, i)' <=> Ahead(s, i)
    BY <1>2, <1>3 DEF Ahead
<1>6. Placed(s)'
    BY <1>1, <1>2 DEF Placed, SameThread, PC
<1>7. Ends(s)'
    BY <1>1, <1>2, <1>3, <1>4, <1>5 DEF Ends, SameThread
<1> QED BY <1>6, <1>7

-----------------------------------------------------------------------------
(* The thread that takes the step.                                         *)

\* What is ahead of a call that returns was ahead before.
LEMMA ReturnEnds ==
    ASSUME TypeOK, NEW t \in Thread, Placed(t), Ends(t), todo[t] # <<>>,
           todo'[t] = Tail(todo[t]), pc'[t] = "idle", HasIn(t)' <=> HasIn(t),
           wr'[t] = wr[t] \/ wr'[t] = Null, t \in joined' <=> t \in joined,
           wr'[t] = Null =>
              \A i \in 2..Len(todo[t]) : todo[t][i] \notin Writing,
           t \in joined => wr'[t] = Null
    PROVE  Ends(t)'
<1>1. /\ Len(todo[t]) \in Nat /\ Len(todo[t]) >= 1
      /\ Len(todo'[t]) = Len(todo[t]) - 1
      /\ \A i \in 1..Len(todo[t]) - 1 : todo'[t][i] = todo[t][i + 1]
    BY CallFacts, ThreadTypes
<1>2. ASSUME NEW i \in 1..Len(todo'[t])
      PROVE  /\ i + 1 \in 2..Len(todo[t]) /\ todo'[t][i] = todo[t][i + 1]
             /\ todo'[t][i] \in Reading => HasIn(t)'
             /\ todo'[t][i] \in Writing => wr'[t] = t /\ t # Null
  <2>1. i + 1 \in 2..Len(todo[t]) /\ todo'[t][i] = todo[t][i + 1]
    BY <1>1
  <2>2. Ahead(t, i + 1) /\ i + 1 \in 1..Len(todo[t])
    BY <2>1, <1>1 DEF Ahead
  <2> QED BY <2>1, <2>2 DEF Ends
<1>3. wr'[t] \in {t, Null}
    BY DEF Ends
<1>4. \A i, j \in 1..Len(todo'[t]) : i < j =>
          /\ todo'[t][i] \in {"link", "close_in"} => todo'[t][j] \notin Reading
          /\ todo'[t][i] \in {"link", "close_out"} => todo'[t][j] \notin Writing
  <2> SUFFICES ASSUME NEW i \in 1..Len(todo'[t]), NEW j \in 1..Len(todo'[t]), i < j
               PROVE  /\ todo'[t][i] \in {"link", "close_in"} => todo'[t][j] \notin Reading
                      /\ todo'[t][i] \in {"link", "close_out"} => todo'[t][j] \notin Writing
    OBVIOUS
  <2>1. i + 1 \in 1..Len(todo[t]) /\ j + 1 \in 1..Len(todo[t]) /\ i + 1 < j + 1
    BY <1>1
  <2>2. todo'[t][i] = todo[t][i + 1] /\ todo'[t][j] = todo[t][j + 1]
    BY <1>2
  <2> QED BY <2>1, <2>2 DEF Ends
<1>5. t \in joined' => ~HasIn(t)' /\ wr'[t] = Null
    BY DEF Ends
<1> QED BY <1>2, <1>3, <1>4, <1>5 DEF Ends, Ahead

\* A step that leaves the calls and the ends of t.
LEMMA SameEnds ==
    ASSUME NEW t \in Thread, Ends(t), todo'[t] = todo[t], wr'[t] = wr[t],
           HasIn(t)' <=> HasIn(t), t \in joined' <=> t \in joined,
           Begun(t)' <=> Begun(t), t \in joined /\ wr[t] # Null => pc'[t] = "leave"
    PROVE  Ends(t)'
<1>1. op(t)' = op(t)
    BY DEF op
<1>2. \A i : Ahead(t, i)' <=> Ahead(t, i)
    BY DEF Ahead
<1> QED BY <1>1, <1>2 DEF Ends

LEMMA CallThread ==
    ASSUME TypeOK, NEW t \in Thread, Placed(t), Ends(t),
           Call(t) \/ Lock(t) \/ InsertWait(t) \/ RemoveWait(t) \/ SpuriousWakeup(t)
    PROVE  Placed(t)' /\ Ends(t)'
<1>1. /\ pc'[t] \in {"enter", "locked", "CVisnil", "CVisful"}
      /\ todo[t] # <<>> /\ op(t) \in {"insert", "remove", "link"}
      /\ pc[t] \in {"idle", "enter", "locked", "CVisnil", "CVisful"}
      /\ UNCHANGED <<todo, rd, wr, qnxt, dead, seen, joined>>
  <2>1. CASE Call(t)
    BY <2>1, ThreadTypes DEF Call, Goto, fields, history
  <2>2. CASE Lock(t)
    BY <2>2, ThreadTypes DEF Lock, Goto, fields, history, Placed, PC
  <2>3. CASE InsertWait(t) \/ RemoveWait(t)
    BY <2>3, ThreadTypes DEF InsertWait, RemoveWait, Sleep, Goto, fields, history, Placed, PC
  <2>4. CASE SpuriousWakeup(t)
    BY <2>4, ThreadTypes DEF SpuriousWakeup, Goto, fields, history, Placed, PC
  <2> QED BY <2>1, <2>2, <2>3, <2>4
<1>2. op(t)' = op(t) /\ ~Begun(t) /\ ~Begun(t)' /\ (HasIn(t)' <=> HasIn(t))
    BY <1>1 DEF op, Begun, HasIn
<1>3. ~(t \in joined /\ wr[t] # Null)
    BY <1>1 DEF Ends
<1>4. Ends(t)'
    BY <1>1, <1>2, <1>3, SameEnds
<1>5. Placed(t)'
    BY <1>1, <1>2 DEF Placed, PC
<1> QED BY <1>4, <1>5

LEMMA InsertThread ==
    ASSUME TypeOK, NEW t \in Thread, Placed(t), Ends(t),
           Insert(t) \/ Remove(t) \/ RemoveNext(t) \/ UnrefRead(t)
    PROVE  Placed(t)' /\ Ends(t)'
<1>1. CASE Insert(t) \/ Remove(t)
  <2>1. /\ pc'[t] = "leave" /\ pc[t] = "locked" /\ op(t) \in {"insert", "remove"}
        /\ UNCHANGED <<todo, rd, wr, qnxt, dead, seen, joined>>
    BY <1>1 DEF Insert, Remove, GotoSignalling, history
  <2>2. op(t)' = op(t) /\ ~Begun(t) /\ ~Begun(t)' /\ (HasIn(t)' <=> HasIn(t))
    BY <2>1 DEF op, Begun, HasIn
  <2>3. Ends(t)'
    BY <2>1, <2>2, SameEnds
  <2>4. Placed(t)'
    BY <2>1, <2>2 DEF Placed, PC
  <2> QED BY <2>3, <2>4
<1>2. CASE RemoveNext(t)
  <2>1. /\ pc'[t] = "leave" /\ pc[t] = "locked" /\ op(t) = "remove"
        /\ UNCHANGED <<todo, rd, wr, dead, seen, joined>>
        /\ qnxt'[t] = qnext[rd[t]] /\ qnext[rd[t]] # Null
    BY <1>2, ThreadTypes DEF RemoveNext, history, Goto, TypeOK
  <2>2. op(t)' = op(t) /\ ~Begun(t) /\ ~Begun(t)'
    BY <2>1 DEF op, Begun
  <2>3. rd[t] # Null /\ HasIn(t)' /\ HasIn(t)
    <3>1. todo[t] # <<>> /\ todo[t][1] = "remove" /\ Ahead(t, 1) /\ 1 \in 1..Len(todo[t])
        BY <2>1, <2>2, CallFacts, ThreadTypes DEF Placed, Ahead, op
    <3>2. HasIn(t) /\ qnxt[t] = Null
        BY <2>1, <3>1 DEF Ends, Reading, Placed
    <3> QED BY <2>1, <3>2 DEF HasIn
  <2>4. Ends(t)'
    BY <2>1, <2>2, <2>3, SameEnds
  <2>5. Placed(t)'
    BY <2>1, <2>2, <2>3 DEF Placed, PC
  <2> QED BY <2>4, <2>5
<1>3. CASE UnrefRead(t)
  <2>1. /\ pc'[t] = "counted" /\ pc[t] = "unref" /\ seen'[t] = rfcnt[dead[t]]
        /\ UNCHANGED <<todo, rd, wr, qnxt, dead, joined>>
    BY <1>3, ThreadTypes DEF UnrefRead, history, Goto, TypeOK
  <2>2. op(t)' = op(t) /\ (Begun(t)' <=> Begun(t)) /\ (HasIn(t)' <=> HasIn(t))
    BY <2>1 DEF op, Begun, HasIn
  <2>3. dead[t] \in Uchans
    BY <2>1, ThreadTypes DEF Placed, Null
  <2>4. seen'[t] # 0
    <3>1. rfcnt \in [Uchans -> 1..2]
        BY DEF TypeOK
    <3>2. rfcnt[dead[t]] \in 1..2
        BY <2>3, <3>1
    <3> QED BY <2>1, <3>2
  <2>5. t \in joined => wr[t] = Null
    BY <2>1 DEF Ends
  <2>6. Ends(t)'
    BY <2>1, <2>2, <2>5, SameEnds
  <2>7. Placed(t)'
    BY <2>1, <2>2, <2>4 DEF Placed, PC
  <2> QED BY <2>6, <2>7
<1> QED BY <1>1, <1>2, <1>3

LEMMA CloseThread ==
    ASSUME TypeOK, NEW t \in Thread, Placed(t), Ends(t), Close(t)
    PROVE  /\ Placed(t)' /\ Ends(t)' /\ todo'[t] = todo[t] /\ qnxt[t] = Null
           /\ op(t) = "close_in" => /\ rd[t] # Null /\ dead'[t] = rd[t]
                                    /\ rd'[t] = Null /\ wr'[t] = wr[t]
           /\ op(t) = "close_out" => /\ wr[t] = t /\ t # Null /\ dead'[t] = t
                                     /\ wr'[t] = Null /\ rd'[t] = rd[t]
<1>1. /\ pc[t] = "idle" /\ pc'[t] = "unref" /\ todo[t] # <<>>
      /\ op(t) \in {"close_in", "close_out"} /\ op(t)' = op(t)
      /\ UNCHANGED <<todo, qnxt, seen, joined>>
    BY ThreadTypes DEF Close, fields, history, Goto, op
<1>2. /\ Begun(t)' /\ ~Begun(t) /\ qnxt[t] = Null
      /\ Len(todo[t]) \in Nat /\ Len(todo[t]) >= 1 /\ op(t) = todo[t][1]
    BY <1>1, CallFacts, ThreadTypes DEF Begun, Placed, op
<1>3. Ahead(t, 1) /\ 1 \in 1..Len(todo[t])
    BY <1>2 DEF Ahead
<1>4. t \notin joined
    BY <1>1, <1>2, <1>3 DEF Ends, Reading, Writing
<1>5. op(t) = "close_in" => /\ rd[t] # Null /\ dead'[t] = rd[t] /\ rd'[t] = Null /\ wr'[t] = wr[t]
    <2>1. op(t) = "close_in" => HasIn(t)
        BY <1>2, <1>3 DEF Ends, Reading
    <2> QED BY <1>1, <1>2, <2>1, ThreadTypes DEF Close, chan, HasIn, TypeOK
<1>6. op(t) = "close_out" => /\ wr[t] = t /\ t # Null /\ dead'[t] = t
                             /\ wr'[t] = Null /\ rd'[t] = rd[t]
    <2>1. op(t) = "close_out" => wr[t] = t /\ t # Null
        BY <1>2, <1>3 DEF Ends, Writing
    <2> QED BY <1>1, <2>1, ThreadTypes DEF Close, chan, TypeOK
<1>7. Placed(t)'
  <2>1. dead'[t] # Null
    <3>1. CASE op(t) = "close_in"
        BY <1>5, <3>1 DEF Null
    <3>2. CASE op(t) = "close_out"
        BY <1>6, <3>2
    <3> QED BY <1>1, <3>1, <3>2
  <2> QED BY <1>1, <1>2, <2>1 DEF Placed, PC
<1>8. Ends(t)'
  <2>1. ASSUME NEW i \in 1..Len(todo[t]), i # 1
        PROVE  /\ op(t) = "close_in" => todo[t][i] \notin Reading
               /\ op(t) = "close_out" => todo[t][i] \notin Writing
    <3>1. 1 < i
        BY <2>1, <1>2
    <3> QED BY <1>2, <1>3, <2>1, <3>1 DEF Ends
  <2>2. ASSUME NEW i \in 1..Len(todo[t]), Ahead(t, i)'
        PROVE  /\ todo[t][i] \in Reading => HasIn(t)'
               /\ todo[t][i] \in Writing => wr'[t] = t /\ t # Null
    <3>1. i # 1 /\ Ahead(t, i)
        BY <1>1, <1>2, <2>2 DEF Ahead
    <3>2. /\ todo[t][i] \in Reading => HasIn(t)
          /\ todo[t][i] \in Writing => wr[t] = t /\ t # Null
        BY <3>1 DEF Ends
    <3> QED BY <1>1, <1>5, <1>6, <2>1, <3>1, <3>2 DEF HasIn
  <2>3. wr'[t] \in {t, Null}
    BY <1>1, <1>5, <1>6 DEF Ends
  <2> QED BY <1>1, <1>4, <2>2, <2>3 DEF Ends
<1> QED BY <1>1, <1>2, <1>5, <1>6, <1>7, <1>8

LEMMA LinkThread ==
    ASSUME TypeOK, NEW t \in Thread, Placed(t), Ends(t), Link(t)
    PROVE  /\ Placed(t)' /\ Ends(t)' /\ todo'[t] = todo[t]
           /\ rd[t] # Null /\ wr[t] = t /\ t # Null /\ qnxt[t] = Null /\ dead[t] = Null
           /\ t \notin joined
<1>1. /\ pc[t] = "locked" /\ pc'[t] = "leave" /\ todo[t] # <<>> /\ op(t) = "link"
      /\ UNCHANGED <<todo, wr, qnxt, dead, seen>>
      /\ joined' = joined \cup {t}
      /\ rd'[t] = Null
    BY ThreadTypes DEF Link, GotoSignalling, TypeOK, Placed, PC
<1>2. /\ op(t)' = op(t) /\ Begun(t)' /\ ~Begun(t) /\ qnxt[t] = Null
      /\ Len(todo[t]) \in Nat /\ Len(todo[t]) >= 1 /\ op(t) = todo[t][1]
    BY <1>1, CallFacts, ThreadTypes DEF Begun, Placed, op
<1>3. Ahead(t, 1) /\ 1 \in 1..Len(todo[t])
    BY <1>2 DEF Ahead
<1>4. HasIn(t) /\ wr[t] = t /\ t # Null
    BY <1>1, <1>2, <1>3 DEF Ends, Reading, Writing
<1>5. t \notin joined /\ rd[t] # Null /\ dead[t] = Null
    BY <1>1, <1>2, <1>4 DEF Ends, HasIn, Placed
<1>6. ASSUME NEW i \in 1..Len(todo[t]), Ahead(t, i)'
      PROVE  todo[t][i] \notin Reading /\ todo[t][i] \notin Writing
  <2>1. i # 1
    BY <1>1, <1>2, <1>6 DEF Ahead
  <2>2. 1 < i
    BY <2>1, <1>2
  <2> QED BY <1>1, <1>2, <1>3, <2>2 DEF Ends
<1>7. Ends(t)'
  <2>1. ~HasIn(t)'
    BY <1>1, <1>2 DEF HasIn
  <2>2. \A i, j \in 1..Len(todo[t])' : i < j =>
          /\ todo'[t][i] \in {"link", "close_in"} => todo'[t][j] \notin Reading
          /\ todo'[t][i] \in {"link", "close_out"} => todo'[t][j] \notin Writing
    BY <1>1 DEF Ends
  <2> QED BY <1>1, <1>2, <1>4, <1>6, <2>1, <2>2 DEF Ends
<1>8. Placed(t)'
    BY <1>1, <1>2, <1>4 DEF Placed, PC
<1> QED BY <1>1, <1>2, <1>4, <1>5, <1>7, <1>8

\* Unlock: an insertion, or a removal that has its element, returns.
LEMMA UnlockThread ==
    ASSUME TypeOK, NEW t \in Thread, Placed(t), Ends(t), Unlock(t)
    PROVE  Placed(t)' /\ Ends(t)' /\ op(t) \in {"insert", "remove"} /\ todo[t] # <<>>
<1>1. /\ pc[t] = "leave" /\ pc'[t] = "idle" /\ todo[t] # <<>> /\ todo'[t] = Tail(todo[t])
      /\ op(t) \in {"insert", "remove"} /\ qnxt[t] = Null
      /\ UNCHANGED <<rd, wr, qnxt, dead, seen, joined>>
    BY ThreadTypes DEF Unlock, Returns, Goto, Placed, PC, history
<1>2. Len(todo'[t]) <= MaxCalls
  <2>1. Len(todo[t]) \in Nat /\ Len(todo'[t]) = Len(todo[t]) - 1
    BY <1>1, CallFacts, ThreadTypes
  <2> QED BY <2>1, Constants DEF Placed
<1>3. t \in joined => wr[t] = Null
    BY <1>1 DEF Ends
<1>4. wr[t] = Null => \A i \in 2..Len(todo[t]) : todo[t][i] \notin Writing
  <2>1. ASSUME wr[t] = Null, NEW i \in 2..Len(todo[t]) PROVE todo[t][i] \notin Writing
    <3>1. i \in 1..Len(todo[t]) /\ Ahead(t, i)
        BY <2>1, CallFacts, ThreadTypes DEF Ahead
    <3> QED BY <2>1, <3>1 DEF Ends
  <2> QED BY <2>1
<1>5. Ends(t)'
    BY <1>1, <1>3, <1>4, ReturnEnds DEF HasIn
<1>6. Placed(t)'
    BY <1>1, <1>2 DEF Placed, PC
<1> QED BY <1>1, <1>5, <1>6

LEMMA UnlockUnrefThread ==
    ASSUME TypeOK, NEW t \in Thread, Placed(t), Ends(t), UnlockUnref(t)
    PROVE  /\ Placed(t)' /\ Ends(t)' /\ todo'[t] = todo[t] /\ todo[t] # <<>> /\ dead[t] = Null
           /\ UNCHANGED <<qnxt, joined>>
           /\ op(t) \in {"link", "remove"}
           /\ op(t) = "remove" => /\ qnxt[t] # Null /\ rd[t] # Null /\ dead'[t] = rd[t]
                                  /\ rd'[t] = Null /\ wr'[t] = wr[t]
           /\ op(t) = "link" => /\ wr'[t] = Null /\ rd'[t] = rd[t] /\ dead'[t] = wr[t]
                                /\ wr[t] = t /\ t # Null /\ rd[t] = Null /\ qnxt[t] = Null
<1>1. /\ pc[t] = "leave" /\ pc'[t] = "unref" /\ todo[t] # <<>>
      /\ op(t) \in {"link", "remove"} /\ (op(t) = "remove" => qnxt[t] # Null)
      /\ UNCHANGED <<todo, qnxt, seen, joined>>
      /\ dead[t] = Null
    BY ThreadTypes DEF UnlockUnref, Goto, Placed, PC, history
<1>2. op(t)' = op(t) /\ (Begun(t) <=> op(t) = "link") /\ (Begun(t)' <=> op(t) = "link")
    BY <1>1 DEF op, Begun
<1>3. op(t) = "remove" => rd[t] # Null /\ dead'[t] = rd[t] /\ rd'[t] = Null /\ wr'[t] = wr[t]
    BY <1>1, ThreadTypes DEF UnlockUnref, chan, Placed, TypeOK
<1>4. op(t) = "link" => wr'[t] = Null /\ rd'[t] = rd[t] /\ dead'[t] = wr[t] /\ qnxt[t] = Null
    BY <1>1, ThreadTypes DEF UnlockUnref, chan, Placed, TypeOK
<1>5. op(t) = "link" => wr[t] = t /\ t # Null /\ rd[t] = Null /\ t \in joined
    BY <1>1 DEF Placed, Ends, HasIn
<1>6. Placed(t)'
  <2>1. dead'[t] # Null
    BY <1>1, <1>3, <1>4, <1>5
  <2>2. op(t) = "remove" => rd'[t] = Null
    BY <1>3
  <2>3. qnxt[t] # Null => op(t) = "remove"
    BY <1>1, <1>4
  <2> QED BY <1>1, <1>2, <2>1, <2>2, <2>3 DEF Placed, PC
<1>7. Ends(t)'
  <2>1. CASE op(t) = "remove"
    <3>1. HasIn(t) /\ HasIn(t)'
        BY <1>1, <2>1 DEF HasIn
    <3>2. t \notin joined
        BY <3>1 DEF Ends
    <3> QED BY <1>1, <1>2, <1>3, <2>1, <3>1, <3>2, SameEnds
  <2>2. CASE op(t) = "link"
    <3>1. ~HasIn(t) /\ ~HasIn(t)'
        BY <1>1, <1>4, <1>5, <2>2 DEF Ends, HasIn
    <3>2. Len(todo[t]) \in Nat /\ Len(todo[t]) >= 1 /\ op(t) = todo[t][1]
        BY <1>1, CallFacts, ThreadTypes DEF op
    <3>3. ASSUME NEW i \in 1..Len(todo[t]), Ahead(t, i)'
          PROVE  todo[t][i] \notin Reading /\ todo[t][i] \notin Writing
      <4>1. i # 1 /\ 1 \in 1..Len(todo[t])
        BY <1>1, <1>2, <2>2, <3>2, <3>3 DEF Ahead
      <4>2. 1 < i
        BY <4>1, <3>2
      <4> QED BY <2>2, <3>2, <4>1, <4>2 DEF Ends
    <3>4. \A i, j \in 1..Len(todo[t])' : i < j =>
          /\ todo'[t][i] \in {"link", "close_in"} => todo'[t][j] \notin Reading
          /\ todo'[t][i] \in {"link", "close_out"} => todo'[t][j] \notin Writing
        BY <1>1 DEF Ends
    <3> QED BY <1>1, <1>2, <1>4, <2>2, <3>1, <3>3, <3>4 DEF Ends
  <2> QED BY <1>1, <2>1, <2>2
<1> QED BY <1>1, <1>3, <1>4, <1>5, <1>6, <1>7

\* What follows uchan_unref.
LEMMA UnreffedThread ==
    ASSUME TypeOK, NEW t \in Thread, Placed(t), Ends(t), pc[t] = "counted",
           Unreffed(t), seen' = [seen EXCEPT ![t] = 0], UNCHANGED <<wr, joined>>
    PROVE  /\ Placed(t)' /\ Ends(t)' /\ todo[t] # <<>> /\ op(t) # "insert"
           /\ dead[t] # Null /\ dead'[t] = Null
           /\ \/ /\ qnxt[t] # Null /\ rd[t] = Null /\ op(t) = "remove" /\ todo'[t] = todo[t]
                 /\ rd'[t] = qnxt[t] /\ qnxt'[t] = Null /\ pc'[t] = "enter"
              \/ /\ qnxt[t] = Null /\ op(t) # "remove" /\ todo'[t] = Tail(todo[t])
                 /\ rd'[t] = rd[t] /\ qnxt'[t] = Null /\ pc'[t] = "idle"
<1>1. /\ todo[t] # <<>> /\ op(t) # "insert" /\ dead[t] # Null /\ dead'[t] = Null /\ seen'[t] = 0
      /\ op(t) = "remove" <=> qnxt[t] # Null
      /\ wr'[t] = wr[t] /\ joined' = joined
    BY ThreadTypes DEF Unreffed, Placed, PC, TypeOK
<1>2. CASE qnxt[t] # Null
  <2>1. /\ rd[t] = Null /\ op(t) = "remove" /\ todo'[t] = todo[t]
        /\ rd'[t] = qnxt[t] /\ qnxt'[t] = Null /\ pc'[t] = "enter"
    BY <1>2, <1>1, ThreadTypes DEF Unreffed, Placed, Goto, TypeOK
  <2>2. op(t)' = op(t) /\ ~Begun(t) /\ ~Begun(t)' /\ HasIn(t) /\ HasIn(t)'
    BY <1>2, <2>1 DEF op, Begun, HasIn
  <2>3. t \notin joined
    BY <2>2 DEF Ends
  <2>4. Ends(t)'
    BY <1>1, <2>1, <2>2, <2>3, SameEnds
  <2>5. Placed(t)'
    BY <1>1, <2>1, <2>2 DEF Placed, PC
  <2> QED BY <1>1, <1>2, <2>1, <2>4, <2>5
<1>3. CASE qnxt[t] = Null
  <2>1. /\ op(t) # "remove" /\ todo'[t] = Tail(todo[t])
        /\ rd'[t] = rd[t] /\ qnxt'[t] = Null /\ pc'[t] = "idle"
    BY <1>3, <1>1, ThreadTypes DEF Unreffed, Placed, Returns, Goto, TypeOK
  <2>2. /\ Len(todo[t]) \in Nat /\ Len(todo'[t]) = Len(todo[t]) - 1
    BY <1>1, <2>1, CallFacts, ThreadTypes
  <2>3. Placed(t)'
    BY <1>1, <2>1, <2>2, Constants DEF Placed, PC
  <2>4. t \in joined => wr[t] = Null
    BY DEF Ends
  <2>5. wr[t] = Null => \A i \in 2..Len(todo[t]) : todo[t][i] \notin Writing
    <3>1. ASSUME wr[t] = Null, NEW i \in 2..Len(todo[t]) PROVE todo[t][i] \notin Writing
      <4>1. i \in 1..Len(todo[t]) /\ Ahead(t, i)
        BY <3>1, <2>2 DEF Ahead
      <4> QED BY <3>1, <4>1 DEF Ends
    <3> QED BY <3>1
  <2>6. Ends(t)'
    BY <1>1, <1>3, <2>1, <2>4, <2>5, ReturnEnds DEF HasIn
  <2> QED BY <1>1, <1>3, <2>1, <2>3, <2>6
<1> QED BY <1>2, <1>3

LEMMA UnrefThread ==
    ASSUME TypeOK, NEW t \in Thread, Placed(t), Ends(t), UnrefWrite(t) \/ UnrefFree(t)
    PROVE  Placed(t)' /\ Ends(t)'
<1>1. CASE Unreffed(t)
    BY <1>1, UnreffedThread DEF UnrefWrite, UnrefFree, history
<1>2. CASE ~Unreffed(t)
  <2>1. /\ pc[t] = "counted" /\ pc'[t] = "unref" /\ seen'[t] = 0 /\ dead'[t] # Null
        /\ UNCHANGED <<todo, rd, wr, qnxt, joined>>
    BY <1>2, ThreadTypes DEF UnrefWrite, UnrefFree, Goto, history, TypeOK
  <2>2. op(t)' = op(t) /\ (Begun(t)' <=> Begun(t)) /\ (HasIn(t)' <=> HasIn(t))
    BY <2>1 DEF op, Begun, HasIn
  <2>3. t \in joined => wr[t] = Null
    BY <2>1 DEF Ends
  <2>4. Ends(t)'
    BY <2>1, <2>2, <2>3, SameEnds
  <2>5. Placed(t)'
    BY <2>1, <2>2 DEF Placed, PC
  <2> QED BY <2>4, <2>5
<1> QED BY <1>1, <1>2

LEMMA ThreadsStep ==
    ASSUME TypeOK, Threads, NEW t \in Thread, Step(t) \/ SpuriousWakeup(t)
    PROVE  Threads'
<1>1. Placed(t) /\ Ends(t)
    BY DEF Threads
<1>2. Placed(t)' /\ Ends(t)'
    BY <1>1, CallThread, InsertThread, CloseThread, LinkThread, UnlockThread,
       UnlockUnrefThread, UnrefThread DEF Step
<1>3. ASSUME NEW s \in Thread, s # t PROVE Placed(s)' /\ Ends(s)'
    BY <1>3, OthersStay, OtherThread DEF Threads
<1> QED BY <1>2, <1>3 DEF Threads

-----------------------------------------------------------------------------
(* Types.                                                                  *)

\* Within a call a thread has the uchan that the call is about.
LEMMA ActiveChan ==
    ASSUME TypeOK, Threads, NEW t \in Thread, pc[t] \in PC \ {"idle", "unref", "counted"}
    PROVE  /\ todo[t] # <<>> /\ op(t) \in {"insert", "remove", "link"}
           /\ op(t) \in {"insert", "link"} => wr[t] = t /\ t \in Uchans /\ chan(t) = t
           /\ op(t) = "remove" => rd[t] \in Uchans /\ chan(t) = rd[t]
           /\ op(t) \in {"insert", "remove"} => t \notin joined
           /\ op(t) = "link" /\ pc[t] # "leave" => rd[t] \in Uchans /\ t \notin joined
<1>1. Placed(t) /\ Ends(t)
    BY DEF Threads
<1>2. todo[t] # <<>> /\ op(t) \in {"insert", "remove", "link"}
    BY <1>1 DEF Placed
<1>3. Len(todo[t]) \in Nat /\ Len(todo[t]) >= 1 /\ op(t) = todo[t][1]
    BY <1>2, CallFacts, ThreadTypes DEF op
<1>4. ~(op(t) = "link" /\ pc[t] = "leave") => Ahead(t, 1)
    BY <1>2, <1>3 DEF Ahead, Begun, PC
<1>5. 1 \in 1..Len(todo[t])
    BY <1>3
<1>6. op(t) \in {"insert", "link"} => wr[t] = t /\ t # Null
    BY <1>1, <1>3, <1>4, <1>5 DEF Ends, Placed, Writing
<1>7. ~(op(t) = "link" /\ pc[t] = "leave") /\ op(t) \in {"remove", "link"} => HasIn(t)
    BY <1>1, <1>3, <1>4, <1>5 DEF Ends, Reading
<1>8. HasIn(t) => rd[t] # Null /\ t \notin joined
    BY <1>1 DEF HasIn, Placed, Ends
<1>9. op(t) = "insert" => t \notin joined
    BY <1>1, <1>6 DEF Ends, Begun
<1> QED BY <1>2, <1>6, <1>7, <1>8, <1>9, ThreadTypes, Constants DEF chan

\* A call of uchan_unref is about a uchan.
LEMMA DeadUchan ==
    ASSUME TypeOK, Threads, NEW t \in Thread, pc[t] \in {"unref", "counted"}
    PROVE  dead[t] \in Uchans
BY ThreadTypes DEF Threads, Placed, Null

\* No message gets a number that is too large.
LEMMA MessageTypes ==
    ASSUME TypeOK, Threads, NEW t \in Uchans, todo[t] # <<>>
    PROVE  Message(t) \in Messages
<1>1. Len(todo[t]) \in 1..MaxCalls
    BY CallFacts, ThreadTypes, Constants DEF Threads, Placed
<1> QED BY <1>1 DEF Message, Messages

LEMMA TypeStep ==
    ASSUME TypeOK, Threads, NEW t \in Thread, Step(t) \/ SpuriousWakeup(t)
    PROVE  TypeOK'
<1>1. CASE Call(t) \/ Lock(t) \/ InsertWait(t) \/ RemoveWait(t) \/ SpuriousWakeup(t)
  <2>1. pc' \in [Thread -> PC]
    BY <1>1 DEF Call, Lock, InsertWait, RemoveWait, SpuriousWakeup, Sleep, Goto, TypeOK, PC
  <2>2. mutex' \in [Uchans -> Thread \cup {NoThread}]
    BY <1>1 DEF Call, Lock, InsertWait, RemoveWait, SpuriousWakeup, Sleep, TypeOK, fields
  <2>3. UNCHANGED <<queue, qnext, rfcnt, freed, rd, wr, todo, qnxt, dead, seen, rcvd, joined>>
    BY <1>1 DEF Call, Lock, InsertWait, RemoveWait, SpuriousWakeup, Sleep, fields, history
  <2> QED BY <2>1, <2>2, <2>3 DEF TypeOK
<1>2. CASE Insert(t)
  <2>1. /\ todo[t] # <<>> /\ wr[t] = t /\ t \in Uchans
    BY <1>2, ActiveChan DEF Insert, PC
  <2>2. queue' = [queue EXCEPT ![t] = Append(queue[t], Message(t))] /\ Len(queue[t]) < Cap
    BY <1>2, <2>1 DEF Insert
  <2>3. queue[t] \in Seq(Messages) /\ Message(t) \in Messages
    BY <2>1, MessageTypes DEF TypeOK
  <2>4. Append(queue[t], Message(t)) \in Seq(Messages)
        /\ Len(Append(queue[t], Message(t))) = Len(queue[t]) + 1
    BY <2>3, AppendProperties
  <2>5. Len(queue[t]) + 1 <= Cap
    BY <2>2, <2>3, LenProperties, Constants
  <2>6. queue' \in [Uchans -> Seq(Messages)] /\ \A u \in Uchans : Len(queue'[u]) <= Cap
    BY <2>2, <2>4, <2>5 DEF TypeOK
  <2>7. pc' \in [Thread -> PC]
    BY <1>2 DEF Insert, GotoSignalling, TypeOK, PC
  <2> QED BY <1>2, <2>6, <2>7 DEF Insert, TypeOK, history
<1>3. CASE Remove(t)
  <2>1. rd[t] \in Uchans
    BY <1>3, ActiveChan DEF Remove, PC
  <2>2. PICK u \in Uchans : u = rd[t]
    BY <2>1
  <2>3. /\ queue' = [queue EXCEPT ![u] = Tail(queue[u])] /\ queue[u] # <<>>
        /\ rcvd' = [rcvd EXCEPT ![t] = Append(rcvd[t], Head(queue[u]))]
    BY <1>3, <2>2 DEF Remove
  <2>4. queue[u] \in Seq(Messages) /\ rcvd[t] \in Seq(Messages) /\ Len(queue[u]) <= Cap
    BY DEF TypeOK
  <2>5. PICK q \in Seq(Messages) : q = queue[u]
    BY <2>4
  <2>6. Tail(q) \in Seq(Messages) /\ Head(q) \in Messages /\ Len(Tail(q)) = Len(q) - 1 /\ Len(q) \in Nat
    BY <2>3, <2>5, HeadTailProperties, LenProperties
  <2>7. Append(rcvd[t], Head(q)) \in Seq(Messages)
    BY <2>4, <2>6, AppendProperties
  <2>8. Len(Tail(q)) <= Cap
    BY <2>4, <2>5, <2>6, Constants
  <2>9. queue' \in [Uchans -> Seq(Messages)] /\ \A v \in Uchans : Len(queue'[v]) <= Cap
    BY <2>3, <2>5, <2>6, <2>8 DEF TypeOK
  <2>10. rcvd' \in [Thread -> Seq(Messages)]
    BY <2>3, <2>5, <2>7 DEF TypeOK
  <2>11. pc' \in [Thread -> PC]
    BY <1>3 DEF Remove, GotoSignalling, TypeOK, PC
  <2> QED BY <1>3, <2>9, <2>10, <2>11 DEF Remove, TypeOK
<1>4. CASE RemoveNext(t)
  <2>1. rd[t] \in Uchans
    BY <1>4, ActiveChan DEF RemoveNext, PC
  <2>2. qnext[rd[t]] \in Uchans \cup {Null}
    BY <2>1 DEF TypeOK
  <2> QED BY <1>4, <2>1, <2>2 DEF RemoveNext, TypeOK, Goto, PC, history
<1>5. CASE Link(t)
  <2>1. wr[t] \in Uchans /\ rd[t] \in Uchans
    BY <1>5, ActiveChan DEF Link, PC
  <2>2. pc' \in [Thread -> PC]
    BY <1>5 DEF Link, GotoSignalling, TypeOK, PC
  <2> QED BY <1>5, <2>1, <2>2 DEF Link, TypeOK
<1>6. CASE Close(t)
  <2>1. chan(t) \in Uchans \cup {Null}
    BY ThreadTypes DEF chan, Null
  <2> QED BY <1>6, <2>1 DEF Close, TypeOK, Goto, PC, fields, history
<1>7. CASE Unlock(t)
  <2>1. Tail(todo[t]) \in Seq(Op)
    BY <1>7, UnlockThread, CallFacts, ThreadTypes DEF Threads
  <2> QED BY <1>7, <2>1 DEF Unlock, Returns, TypeOK, Goto, PC, history
<1>8. CASE UnlockUnref(t)
  <2>1. chan(t) \in Uchans
    BY <1>8, ActiveChan DEF UnlockUnref, PC
  <2> QED BY <1>8, <2>1 DEF UnlockUnref, TypeOK, Goto, PC, history
<1>9. CASE UnrefRead(t)
  <2>1. rfcnt[dead[t]] \in 0..2
    <3>1. rfcnt \in [Uchans -> 1..2]
        BY DEF TypeOK
    <3>2. dead[t] \in Uchans
        BY <1>9, DeadUchan DEF UnrefRead
    <3>3. rfcnt[dead[t]] \in 1..2
        BY <3>1, <3>2
    <3> QED BY <3>3
  <2>2. seen' \in [Thread -> 0..2]
    BY <1>9, <2>1 DEF UnrefRead, TypeOK
  <2> QED BY <1>9, <2>2 DEF UnrefRead, TypeOK, Goto, PC, fields, history
<1>10. CASE UnrefWrite(t) \/ UnrefFree(t)
  <2>1. dead[t] \in Uchans /\ todo[t] # <<>>
    BY <1>10, DeadUchan DEF UnrefWrite, UnrefFree, Threads, Placed
  <2>2. Tail(todo[t]) \in Seq(Op)
    BY <2>1, CallFacts, ThreadTypes
  <2>3. /\ todo' \in [Thread -> Seq(Op)] /\ rd' \in [Thread -> Uchans \cup {Null}]
        /\ qnxt' \in [Thread -> Uchans \cup {Null}]
    <3>1. /\ todo \in [Thread -> Seq(Op)] /\ rd \in [Thread -> Uchans \cup {Null}]
          /\ qnxt \in [Thread -> Uchans \cup {Null}]
      BY DEF TypeOK
    <3>2. UNCHANGED todo \/ todo' = [todo EXCEPT ![t] = Tail(@)]
      BY <1>10 DEF UnrefWrite, UnrefFree, Unreffed, Returns
    <3>3. \/ UNCHANGED <<rd, qnxt>>
          \/ rd' = [rd EXCEPT ![t] = qnxt[t]] /\ qnxt' = [qnxt EXCEPT ![t] = Null]
      BY <1>10 DEF UnrefWrite, UnrefFree, Unreffed
    <3>4. todo' \in [Thread -> Seq(Op)]
      BY <2>2, <3>1, <3>2
    <3>5. rd' \in [Thread -> Uchans \cup {Null}] /\ qnxt' \in [Thread -> Uchans \cup {Null}]
      BY <3>1, <3>3
    <3> QED BY <3>4, <3>5
  <2>4. qnext[dead[t]] \in Uchans \cup {Null}
    BY <2>1 DEF TypeOK
  <2>5. dead' \in [Thread -> Uchans \cup {Null}]
    BY <1>10, <2>4 DEF UnrefWrite, UnrefFree, Unreffed, TypeOK
  <2>6. pc' \in [Thread -> PC]
    <3>1. \E l \in {"idle", "enter", "unref"} : pc' = [pc EXCEPT ![t] = l]
        BY <1>10 DEF UnrefWrite, UnrefFree, Unreffed, Returns, Goto
    <3> QED BY <3>1 DEF TypeOK, PC
  <2>10. seen' \in [Thread -> 0..2]
    <3>1. seen' = [seen EXCEPT ![t] = 0]
        BY <1>10 DEF UnrefWrite, UnrefFree
    <3>2. seen \in [Thread -> 0..2]
        BY DEF TypeOK
    <3> QED BY <3>1, <3>2
  <2>7. rfcnt' \in [Uchans -> 1..2]
    <3>1. seen[t] > 1 => seen[t] - 1 \in 1..2
        BY ThreadTypes
    <3> QED BY <1>10, <3>1 DEF UnrefWrite, UnrefFree, TypeOK
  <2>8. qnext' \in [Uchans -> Uchans \cup {Null}] /\ freed' \subseteq Uchans
    BY <1>10, <2>1 DEF UnrefWrite, UnrefFree, TypeOK
  <2>9. UNCHANGED <<queue, mutex, wr, rcvd, joined>>
    BY <1>10 DEF UnrefWrite, UnrefFree, history
  <2> QED BY <2>3, <2>5, <2>6, <2>7, <2>8, <2>9, <2>10 DEF TypeOK
<1> QED BY <1>1, <1>2, <1>3, <1>4, <1>5, <1>6, <1>7, <1>8, <1>9, <1>10 DEF Step

-----------------------------------------------------------------------------
(* Paths.                                                                  *)

LEMMA QuietStep ==
    ASSUME TypeOK, NEW t \in Thread,
           \/ Call(t) \/ Lock(t) \/ InsertWait(t) \/ RemoveWait(t) \/ SpuriousWakeup(t)
           \/ Insert(t) \/ Remove(t) \/ Unlock(t) \/ UnrefRead(t)
    PROVE  UNCHANGED <<rd, wr, qnxt, dead, qnext, joined, rfcnt, freed>>
BY DEF Call, Lock, InsertWait, RemoveWait, SpuriousWakeup, Insert, Remove, Unlock, UnrefRead,
       Sleep, fields, history

LEMMA JoinedGrows ==
    ASSUME NEW t \in Thread, Step(t) \/ SpuriousWakeup(t)
    PROVE  joined \subseteq joined' /\ (~Link(t) => joined' = joined)
BY DEF Step, Call, Close, Lock, SpuriousWakeup, InsertWait, RemoveWait, UnrefRead, Sleep,
       Insert, Remove, Link, RemoveNext, Unlock, UnlockUnref, UnrefWrite, UnrefFree, fields, history

LEMMA QueueStays ==
    ASSUME NEW t \in Thread, Step(t) \/ SpuriousWakeup(t), ~Insert(t), ~Remove(t)
    PROVE  queue' = queue
BY DEF Step, Call, Close, Lock, SpuriousWakeup, InsertWait, RemoveWait, UnrefRead, Sleep,
       Link, RemoveNext, Unlock, UnlockUnref, UnrefWrite, UnrefFree, fields, history

LEMMA ThroughStays ==
    ASSUME TypeOK, Threads, NEW t \in Thread, Step(t) \/ SpuriousWakeup(t),
           NEW x \in Thread, NEW u \in Uchans, Through(x, u)
    PROVE  Through(x, u)'
<1>1. joined \subseteq joined'
    BY JoinedGrows
<1>2. ASSUME NEW j \in Uchans, j \in joined, queue[j] = <<>>
      PROVE  queue'[j] = <<>>
  <2>1. CASE Insert(t)
    <3>1. wr[t] = t /\ t \in Uchans /\ t \notin joined
        BY <2>1, ActiveChan DEF Insert, PC
    <3>2. queue'[j] = queue[j]
        BY <1>2, <2>1, <3>1 DEF Insert, TypeOK
    <3> QED BY <1>2, <3>2
  <2>2. CASE Remove(t)
    <3>1. rd[t] # j
        BY <1>2, <2>2 DEF Remove
    <3>2. queue'[j] = queue[j]
        BY <1>2, <2>2, <3>1 DEF Remove, TypeOK
    <3> QED BY <1>2, <3>2
  <2>3. CASE ~Insert(t) /\ ~Remove(t)
    <3>1. queue' = queue
        BY <2>3, QueueStays
    <3> QED BY <1>2, <3>1
  <2> QED BY <2>1, <2>2, <2>3
<1> QED BY <1>1, <1>2 DEF Through

LEMMA RemoveNextEffect ==
    ASSUME TypeOK, Threads, NEW t \in Thread, RemoveNext(t)
    PROVE  \E u \in Uchans, v \in Uchans :
              /\ rd[t] = u /\ qnext[u] = v /\ queue[u] = <<>>
              /\ qnxt[t] = Null /\ dead[t] = Null
              /\ qnxt' = [qnxt EXCEPT ![t] = v]
              /\ qnext' = [qnext EXCEPT ![u] = Null]
              /\ UNCHANGED <<queue, rfcnt, freed, rd, wr, todo, dead, seen, joined>>
<1>1. rd[t] \in Uchans /\ op(t) = "remove"
    BY ActiveChan DEF RemoveNext, PC
<1>2. qnext[rd[t]] \in Uchans
    BY <1>1 DEF RemoveNext, TypeOK
<1>3. qnxt[t] = Null /\ dead[t] = Null
    BY DEF RemoveNext, Threads, Placed
<1> QED BY <1>1, <1>2, <1>3 DEF RemoveNext, history

LEMMA LinkEffect ==
    ASSUME TypeOK, Threads, NEW t \in Thread, Link(t)
    PROVE  /\ t \in Uchans /\ rd[t] \in Uchans /\ wr[t] = t /\ t \notin joined
           /\ qnext[t] = Null /\ qnxt[t] = Null /\ dead[t] = Null
           /\ qnext' = [qnext EXCEPT ![t] = rd[t]]
           /\ rd' = [rd EXCEPT ![t] = Null]
           /\ joined' = joined \cup {t}
           /\ UNCHANGED <<queue, rfcnt, freed, wr, todo, qnxt, dead, seen>>
<1>1. rd[t] # Null /\ wr[t] = t /\ t # Null /\ qnxt[t] = Null /\ dead[t] = Null /\ t \notin joined
    BY LinkThread DEF Threads
<1> QED BY <1>1, Constants, ThreadTypes DEF Link

LEMMA UnreffedEffect ==
    ASSUME TypeOK, Threads, NEW t \in Thread, UnrefWrite(t) \/ UnrefFree(t)
    PROVE  \E u \in Uchans :
              /\ dead[t] = u /\ UNCHANGED <<queue, wr, joined>>
              /\ \/ /\ qnxt[t] # Null /\ rd[t] = Null /\ UNCHANGED todo
                    /\ rd' = [rd EXCEPT ![t] = qnxt[t]] /\ qnxt' = [qnxt EXCEPT ![t] = Null]
                    /\ dead' = [dead EXCEPT ![t] = Null]
                 \/ /\ qnxt[t] = Null /\ UNCHANGED <<rd, qnxt>>
                    /\ dead' = [dead EXCEPT ![t] = Null]
                 \/ /\ UNCHANGED <<rd, qnxt, todo>> /\ UnrefFree(t) /\ qnext[u] \in Uchans
                    /\ dead' = [dead EXCEPT ![t] = qnext[u]]
              /\ UnrefWrite(t) => qnext' = qnext
              /\ UnrefFree(t) => qnext' = [qnext EXCEPT ![u] = Null]
<1>1. dead[t] \in Uchans
    BY DeadUchan DEF UnrefWrite, UnrefFree
<1>2. PICK u \in Uchans : u = dead[t]
    BY <1>1
<1>3. qnext[u] \in Uchans \cup {Null}
    BY DEF TypeOK
<1>4. UNCHANGED <<queue, wr, joined>>
    BY DEF UnrefWrite, UnrefFree, history
<1>5. CASE Unreffed(t)
  <2>1. qnxt[t] # Null => rd[t] = Null
    BY DEF Threads, Placed, UnrefWrite, UnrefFree
  <2>2. UnrefWrite(t) => qnext' = qnext
    BY DEF UnrefWrite
  <2>3. UnrefFree(t) => qnext' = [qnext EXCEPT ![u] = Null]
    BY <1>2 DEF UnrefFree
  <2> QED BY <1>2, <1>4, <1>5, <2>1, <2>2, <2>3 DEF Unreffed
<1>6. CASE ~Unreffed(t)
    BY <1>2, <1>3, <1>4, <1>6 DEF UnrefWrite, UnrefFree
<1> QED BY <1>5, <1>6

LEMMA PathsStep ==
    ASSUME TypeOK, Threads, Paths, NEW t \in Thread, Step(t) \/ SpuriousWakeup(t)
    PROVE  Paths'
<1> DEFINE P == {p \in Thread \X Uchans : Through(p[1], p[2])}
<1>1. P \subseteq P'
    BY ThroughStays
<1>2. /\ \A s \in Thread : rd[s] # Null => rd[s] \in Uchans /\ <<s, rd[s]>> \in P
      /\ \A s \in Thread : qnxt[s] # Null => qnxt[s] \in Uchans /\ <<s, qnxt[s]>> \in P
      /\ \A s \in Thread : rd[s] # Null /\ qnxt[s] # Null =>
            /\ rd[s] < qnxt[s] /\ rd[s] \in joined /\ qnext[rd[s]] = Null
      /\ \A u \in Uchans : qnext[u] # Null =>
            u \in joined /\ qnext[u] \in Uchans /\ <<u, qnext[u]>> \in P
  <2>1. ASSUME NEW s \in Thread, rd[s] # Null, qnxt[s] # Null
        PROVE  rd[s] < qnxt[s] /\ rd[s] \in joined /\ qnext[rd[s]] = Null
    <3>1. /\ rd[s] < qnxt[s] /\ qnext[rd[s]] = Null /\ rd[s] \in Uchans
          /\ Through(s, rd[s]) /\ Through(s, qnxt[s])
        BY <2>1 DEF Paths, TypeOK
    <3> QED BY <3>1 DEF Through
  <2> QED BY <2>1, Constants DEF Paths, TypeOK
<1>3. TypeOK'
    BY TypeStep
<1>4. joined \subseteq joined'
    BY JoinedGrows
<1>5. SUFFICES /\ \A s \in Thread : rd'[s] # Null => <<s, rd'[s]>> \in P'
               /\ \A s \in Thread : qnxt'[s] # Null => <<s, qnxt'[s]>> \in P'
               /\ \A s \in Thread : rd'[s] # Null /\ qnxt'[s] # Null =>
                     rd'[s] < qnxt'[s] /\ qnext'[rd'[s]] = Null
               /\ \A u \in Uchans : qnext'[u] # Null => u \in joined' /\ <<u, qnext'[u]>> \in P'
    BY <1>3 DEF Paths, Through, TypeOK
<1>6. ASSUME NEW x \in Thread, NEW u \in Uchans, NEW v \in Uchans,
             <<x, u>> \in P, u \in joined, queue[u] = <<>>, <<u, v>> \in P
      PROVE  <<x, v>> \in P /\ u < v
  <2>1. Through(x, u) /\ Through(u, v)
    BY <1>6
  <2>2. x \in Nat /\ u \in Nat /\ v \in Nat /\ Uchans \subseteq Nat
    BY Constants
  <2>3. Through(x, v) /\ u < v
    BY <1>6, <2>1, <2>2 DEF Through
  <2> QED BY <2>3
<1>7. \A x \in Thread, u \in Uchans : <<x, u>> \in P => x < u
    BY DEF Through
<1> HIDE DEF P
<1>8. CASE UNCHANGED <<rd, qnxt, qnext>>
    BY <1>1, <1>2, <1>4, <1>8
<1>9. CASE Close(t) \/ UnlockUnref(t)
  <2>1. UNCHANGED <<qnxt, qnext>> /\ (rd' = rd \/ rd' = [rd EXCEPT ![t] = Null])
    BY <1>9 DEF Close, UnlockUnref, fields
  <2>2. rd \in [Thread -> Uchans \cup {Null}]
    BY DEF TypeOK
  <2> QED BY <1>1, <1>2, <1>4, <2>1, <2>2
<1>10. CASE RemoveNext(t)
  <2>1. PICK u \in Uchans, v \in Uchans :
              /\ rd[t] = u /\ qnext[u] = v /\ queue[u] = <<>>
              /\ qnxt' = [qnxt EXCEPT ![t] = v]
              /\ qnext' = [qnext EXCEPT ![u] = Null]
              /\ UNCHANGED <<rd, joined>>
    BY <1>10, RemoveNextEffect
  <2>2. u # Null /\ v # Null
    BY Constants
  <2>3. <<t, v>> \in P /\ u < v
    BY <1>2, <1>6, <2>1, <2>2
  <2>4. qnxt \in [Thread -> Uchans \cup {Null}] /\ qnext \in [Uchans -> Uchans \cup {Null}]
    BY DEF TypeOK
  <2> QED BY <1>1, <1>2, <1>4, <2>1, <2>2, <2>3, <2>4
<1>11. CASE Link(t)
  <2>1. /\ t \in Uchans /\ rd[t] \in Uchans /\ t \notin joined
        /\ qnext' = [qnext EXCEPT ![t] = rd[t]]
        /\ rd' = [rd EXCEPT ![t] = Null]
        /\ joined' = joined \cup {t}
        /\ UNCHANGED qnxt
    BY <1>11, LinkEffect
  <2>2. <<t, rd[t]>> \in P
    BY <1>2, <2>1, Constants
  <2>3. rd \in [Thread -> Uchans \cup {Null}] /\ qnext \in [Uchans -> Uchans \cup {Null}]
    BY DEF TypeOK
  <2>4. ASSUME NEW s \in Thread, rd'[s] # Null, qnxt'[s] # Null
        PROVE  rd'[s] < qnxt'[s] /\ qnext'[rd'[s]] = Null
    <3>1. rd'[s] = rd[s] /\ qnxt'[s] = qnxt[s] /\ rd[s] # t
        BY <1>2, <2>1, <2>3, <2>4
    <3> QED BY <1>2, <2>1, <2>3, <2>4, <3>1
  <2>5. \A s \in Thread : rd'[s] # Null => <<s, rd'[s]>> \in P'
    BY <1>1, <1>2, <2>1, <2>3
  <2>6. \A s \in Thread : qnxt'[s] # Null => <<s, qnxt'[s]>> \in P'
    BY <1>1, <1>2, <2>1
  <2>7. \A u \in Uchans : qnext'[u] # Null => u \in joined' /\ <<u, qnext'[u]>> \in P'
    BY <1>1, <1>2, <1>4, <2>1, <2>2, <2>3
  <2> QED BY <2>4, <2>5, <2>6, <2>7
<1>12. CASE UnrefWrite(t) \/ UnrefFree(t)
  <2>1. \/ /\ rd' = [rd EXCEPT ![t] = qnxt[t]] /\ qnxt' = [qnxt EXCEPT ![t] = Null]
        \/ UNCHANGED <<rd, qnxt>>
    BY <1>12, UnreffedEffect
  <2>2. \A v \in Uchans : qnext'[v] = qnext[v] \/ qnext'[v] = Null
    BY <1>12 DEF UnrefWrite, UnrefFree, TypeOK
  <2>3. rd \in [Thread -> Uchans \cup {Null}] /\ qnxt \in [Thread -> Uchans \cup {Null}]
    BY DEF TypeOK
  <2>4. \A s \in Thread : \/ rd'[s] = rd[s] /\ qnxt'[s] = qnxt[s]
                          \/ rd'[s] = qnxt[s] /\ qnxt'[s] = Null
    BY <2>1, <2>3
  <2>5. \A u \in Uchans : qnext'[u] # Null => u \in joined' /\ <<u, qnext'[u]>> \in P'
    BY <1>1, <1>2, <1>4, <2>2
  <2>6. \A s \in Thread : rd'[s] # Null /\ qnxt'[s] # Null =>
            rd'[s] < qnxt'[s] /\ qnext'[rd'[s]] = Null
    <3> SUFFICES ASSUME NEW s \in Thread, rd'[s] # Null, qnxt'[s] # Null
                 PROVE  rd'[s] < qnxt'[s] /\ qnext'[rd'[s]] = Null
      OBVIOUS
    <3>1. rd'[s] = rd[s] /\ qnxt'[s] = qnxt[s]
      BY <2>4
    <3>2. rd[s] < qnxt[s] /\ qnext[rd[s]] = Null /\ rd[s] \in Uchans
      BY <1>2, <2>3, <3>1
    <3> QED BY <2>2, <3>1, <3>2
  <2>7. /\ \A s \in Thread : rd'[s] # Null => <<s, rd'[s]>> \in P'
        /\ \A s \in Thread : qnxt'[s] # Null => <<s, qnxt'[s]>> \in P'
    BY <1>1, <1>2, <2>4
  <2> QED BY <2>5, <2>6, <2>7
<1>13. CASE \/ Call(t) \/ Lock(t) \/ InsertWait(t) \/ RemoveWait(t) \/ SpuriousWakeup(t)
            \/ Insert(t) \/ Remove(t) \/ Unlock(t) \/ UnrefRead(t)
    BY <1>8, <1>13, QuietStep
<1> QED BY <1>9, <1>10, <1>11, <1>12, <1>13 DEF Step

-----------------------------------------------------------------------------
(* Tokens.                                                                 *)

\* A step that leaves to t no more of the readers' references than it had.
LEMMA TokensKept ==
    ASSUME Tokens, NEW t \in Thread,
           \A s \in Thread : s # t =>
              /\ rd'[s] = rd[s] /\ wr'[s] = wr[s] /\ qnxt'[s] = qnxt[s] /\ dead'[s] = dead[s],
           \A u \in Uchans :
              /\ InHand(t, u)' => InHand(t, u)
              /\ ~(rd'[t] = u /\ qnxt'[t] = u) /\ ~(rd'[t] = u /\ dead'[t] = u)
              /\ ~(qnxt'[t] = u /\ dead'[t] = u)
              /\ dead'[t] = u => t <= u /\ (t = u => wr'[t] = Null),
           \A v \in Uchans : qnext'[v] = qnext[v] \/ qnext'[v] = Null
    PROVE  Tokens'
<1>1. \A s \in Thread, u \in Uchans : InHand(s, u)' => InHand(s, u)
    BY DEF InHand
<1>2. \A s, r \in Thread, u \in Uchans : InHand(s, u)' /\ InHand(r, u)' => s = r
    BY <1>1 DEF Tokens
<1>3. ASSUME NEW s \in Thread, NEW u \in Uchans
      PROVE  /\ ~(rd'[s] = u /\ qnxt'[s] = u) /\ ~(rd'[s] = u /\ dead'[s] = u)
             /\ ~(qnxt'[s] = u /\ dead'[s] = u)
             /\ dead'[s] = u => s <= u /\ (s = u => wr'[s] = Null)
    BY DEF Tokens
<1>4. ASSUME NEW s \in Thread, NEW u \in Uchans, NEW v \in Uchans, qnext'[v] = u
      PROVE  ~InHand(s, u)'
    BY <1>1, <1>4, Constants DEF Tokens
<1>5. \A v, w \in Uchans : qnext'[v] # Null /\ qnext'[v] = qnext'[w] => v = w
    BY DEF Tokens
<1> QED BY <1>2, <1>3, <1>4, <1>5 DEF Tokens

\* A step by which t takes over the reader's reference to w from qnext[u].
LEMMA TokensTaken ==
    ASSUME Tokens, NEW t \in Thread, NEW u \in Uchans, NEW w \in Uchans,
           \A s \in Thread : s # t =>
              /\ rd'[s] = rd[s] /\ wr'[s] = wr[s] /\ qnxt'[s] = qnxt[s] /\ dead'[s] = dead[s],
           \A v \in Uchans :
              /\ InHand(t, v)' => v = w \/ InHand(t, v)
              /\ ~(rd'[t] = v /\ qnxt'[t] = v) /\ ~(rd'[t] = v /\ dead'[t] = v)
              /\ ~(qnxt'[t] = v /\ dead'[t] = v)
              /\ dead'[t] = v => t <= v /\ (t = v => wr'[t] = Null),
           qnext[u] = w, qnext'[u] = Null,
           \A v \in Uchans : v # u => qnext'[v] = qnext[v]
    PROVE  Tokens'
<1>1. \A s \in Thread, v \in Uchans : InHand(s, v)' => InHand(s, v) \/ (s = t /\ v = w)
    BY DEF InHand
<1>2. \A s \in Thread : ~InHand(s, w)
    BY DEF Tokens
<1>3. \A s, r \in Thread, v \in Uchans : InHand(s, v)' /\ InHand(r, v)' => s = r
    BY <1>1, <1>2 DEF Tokens
<1>4. ASSUME NEW s \in Thread, NEW v \in Uchans
      PROVE  /\ ~(rd'[s] = v /\ qnxt'[s] = v) /\ ~(rd'[s] = v /\ dead'[s] = v)
             /\ ~(qnxt'[s] = v /\ dead'[s] = v)
             /\ dead'[s] = v => s <= v /\ (s = v => wr'[s] = Null)
    BY DEF Tokens
<1>5. ASSUME NEW s \in Thread, NEW v \in Uchans, NEW x \in Uchans, qnext'[x] = v
      PROVE  ~InHand(s, v)'
  <2>1. qnext[x] = v /\ x # u
    BY <1>5, Constants
  <2>2. v # w /\ ~InHand(s, v)
    BY <2>1, Constants DEF Tokens
  <2> QED BY <1>1, <2>2
<1>6. \A v, x \in Uchans : qnext'[v] # Null /\ qnext'[v] = qnext'[x] => v = x
    BY DEF Tokens
<1> QED BY <1>3, <1>4, <1>5, <1>6 DEF Tokens

LEMMA TokensStep ==
    ASSUME TypeOK, Threads, Paths, Tokens, NEW t \in Thread, Step(t) \/ SpuriousWakeup(t)
    PROVE  Tokens'
<1>1. Placed(t) /\ Ends(t)
    BY DEF Threads
<1>2. \A s \in Thread : s # t =>
          /\ rd'[s] = rd[s] /\ wr'[s] = wr[s] /\ qnxt'[s] = qnxt[s] /\ dead'[s] = dead[s]
    BY OthersStay DEF SameThread
<1>3. /\ rd[t] \in Uchans \cup {0} /\ qnxt[t] \in Uchans \cup {0} /\ dead[t] \in Uchans \cup {0}
      /\ t \in Nat /\ Uchans \subseteq Nat /\ 0 \notin Uchans /\ Null = 0
    BY ThreadTypes, Constants
<1>4. /\ rd[t] # 0 => t < rd[t]
      /\ qnxt[t] # 0 => t < qnxt[t]
      /\ \A u \in Uchans : qnext[u] # 0 => u < qnext[u]
    BY <1>3 DEF Paths, Through
<1>5. CASE \/ Call(t) \/ Lock(t) \/ InsertWait(t) \/ RemoveWait(t) \/ SpuriousWakeup(t)
           \/ Insert(t) \/ Remove(t) \/ Unlock(t) \/ UnrefRead(t)
  <2>1. UNCHANGED <<rd, wr, qnxt, dead, qnext>>
    BY <1>5, QuietStep
  <2> QED BY <2>1 DEF Tokens, InHand
<1>6. CASE Close(t) \/ UnlockUnref(t)
  <2>1. qnext' = qnext /\ dead[t] = Null /\ qnxt'[t] = qnxt[t]
    BY <1>1, <1>6 DEF Close, UnlockUnref, fields, Placed
  <2>2. \/ rd[t] # Null /\ dead'[t] = rd[t] /\ rd'[t] = Null /\ wr'[t] = wr[t]
        \/ t # Null /\ dead'[t] = t /\ wr'[t] = Null /\ rd'[t] = rd[t]
    <3>1. CASE Close(t)
        BY <1>1, <3>1, CloseThread DEF Close
    <3>2. CASE UnlockUnref(t)
        BY <1>1, <3>2, UnlockUnrefThread
    <3> QED BY <1>6, <3>1, <3>2
  <2>3. \A u \in Uchans : ~(rd[t] = u /\ qnxt[t] = u)
    BY DEF Tokens
  <2>4. ASSUME NEW u \in Uchans
        PROVE  /\ InHand(t, u)' => InHand(t, u)
               /\ ~(rd'[t] = u /\ qnxt'[t] = u) /\ ~(rd'[t] = u /\ dead'[t] = u)
               /\ ~(qnxt'[t] = u /\ dead'[t] = u)
               /\ dead'[t] = u => t <= u /\ (t = u => wr'[t] = Null)
    <3>1. u # 0 /\ u \in Nat
        BY <1>3
    <3>2. CASE rd[t] # Null /\ dead'[t] = rd[t] /\ rd'[t] = Null /\ wr'[t] = wr[t]
        BY <1>3, <1>4, <2>1, <2>3, <3>1, <3>2 DEF InHand
    <3>3. CASE t # Null /\ dead'[t] = t /\ wr'[t] = Null /\ rd'[t] = rd[t]
        BY <1>3, <1>4, <2>1, <2>3, <3>1, <3>3 DEF InHand
    <3> QED BY <2>2, <3>2, <3>3
  <2> QED BY <1>2, <2>1, <2>4, TokensKept
<1>7. CASE RemoveNext(t)
  <2>1. PICK u \in Uchans, v \in Uchans :
              /\ rd[t] = u /\ qnext[u] = v
              /\ qnxt[t] = Null /\ dead[t] = Null
              /\ qnxt' = [qnxt EXCEPT ![t] = v]
              /\ qnext' = [qnext EXCEPT ![u] = Null]
              /\ UNCHANGED <<rd, wr, dead>>
    BY <1>7, RemoveNextEffect
  <2>2. qnxt'[t] = v /\ qnext'[u] = Null /\ \A x \in Uchans : x # u => qnext'[x] = qnext[x]
    BY <2>1 DEF TypeOK
  <2>3. u # v
    BY <1>3, <1>4, <2>1
  <2>4. ASSUME NEW x \in Uchans
        PROVE  /\ InHand(t, x)' => x = v \/ InHand(t, x)
               /\ ~(rd'[t] = x /\ qnxt'[t] = x) /\ ~(rd'[t] = x /\ dead'[t] = x)
               /\ ~(qnxt'[t] = x /\ dead'[t] = x)
               /\ dead'[t] = x => t <= x /\ (t = x => wr'[t] = Null)
    <3>1. x # Null
        BY <1>3
    <3> QED BY <2>1, <2>2, <2>3, <3>1 DEF InHand
  <2> QED BY <1>2, <2>1, <2>2, <2>4, TokensTaken
<1>8. CASE Link(t)
  <2>1. /\ t \in Uchans /\ rd[t] \in Uchans
        /\ qnext[t] = Null /\ qnxt[t] = Null /\ dead[t] = Null
        /\ qnext'[t] = rd[t] /\ \A v \in Uchans : v # t => qnext'[v] = qnext[v]
        /\ rd'[t] = Null
        /\ UNCHANGED <<wr, qnxt, dead>>
    BY <1>8, LinkEffect DEF TypeOK
  <2>2. PICK r \in Uchans : r = rd[t]
    BY <2>1
  <2>3. \A u \in Uchans : ~InHand(t, u)'
    BY <1>3, <2>1 DEF InHand
  <2>4. \A s \in Thread, u \in Uchans : InHand(s, u)' => InHand(s, u) /\ s # t
    BY <1>2, <2>3 DEF InHand
  <2>5. InHand(t, r)
    BY <2>2 DEF InHand
  <2>6. \A s, x \in Thread, u \in Uchans : InHand(s, u)' /\ InHand(x, u)' => s = x
    BY <2>4 DEF Tokens
  <2>7. ASSUME NEW s \in Thread, NEW u \in Uchans
        PROVE  /\ ~(rd'[s] = u /\ qnxt'[s] = u) /\ ~(rd'[s] = u /\ dead'[s] = u)
               /\ ~(qnxt'[s] = u /\ dead'[s] = u)
               /\ dead'[s] = u => s <= u /\ (s = u => wr'[s] = Null)
    <3>1. CASE s = t
        BY <1>3, <2>1, <3>1
    <3>2. CASE s # t
        BY <1>2, <3>2 DEF Tokens
    <3> QED BY <3>1, <3>2
  <2>8. ASSUME NEW s \in Thread, NEW u \in Uchans, NEW v \in Uchans, qnext'[v] = u, InHand(s, u)'
        PROVE  FALSE
    <3>1. InHand(s, u) /\ s # t
        BY <2>4, <2>8
    <3>2. v # t
        BY <2>1, <2>2, <2>5, <2>8, <3>1 DEF Tokens
    <3>3. qnext[v] = u
        BY <2>1, <2>8, <3>2
    <3> QED BY <3>1, <3>3 DEF Tokens
  <2>9. \A v \in Uchans : qnext[v] # r
    BY <2>5 DEF Tokens
  <2>10. \A v, w \in Uchans : qnext'[v] # Null /\ qnext'[v] = qnext'[w] => v = w
    BY <2>1, <2>2, <2>9 DEF Tokens
  <2> QED BY <2>6, <2>7, <2>8, <2>10 DEF Tokens
<1>9. CASE UnrefWrite(t) \/ UnrefFree(t)
  <2>1. PICK u \in Uchans :
              /\ dead[t] = u /\ UNCHANGED wr
              /\ \/ /\ qnxt[t] # Null /\ rd[t] = Null
                    /\ rd' = [rd EXCEPT ![t] = qnxt[t]] /\ qnxt' = [qnxt EXCEPT ![t] = Null]
                    /\ dead' = [dead EXCEPT ![t] = Null]
                 \/ /\ qnxt[t] = Null /\ UNCHANGED <<rd, qnxt>>
                    /\ dead' = [dead EXCEPT ![t] = Null]
                 \/ /\ UNCHANGED <<rd, qnxt>> /\ UnrefFree(t) /\ qnext[u] \in Uchans
                    /\ dead' = [dead EXCEPT ![t] = qnext[u]]
              /\ UnrefWrite(t) => qnext' = qnext
              /\ UnrefFree(t) => qnext' = [qnext EXCEPT ![u] = Null]
    BY <1>9, UnreffedEffect
  <2>2. \A v \in Uchans : qnext'[v] = qnext[v] \/ qnext'[v] = Null
    BY <1>9, <2>1 DEF TypeOK
  <2>3. /\ rd \in [Thread -> Uchans \cup {Null}] /\ qnxt \in [Thread -> Uchans \cup {Null}]
        /\ dead \in [Thread -> Uchans \cup {Null}] /\ qnext \in [Uchans -> Uchans \cup {Null}]
    BY DEF TypeOK
  <2>4. CASE dead'[t] = Null /\ \/ rd'[t] = qnxt[t] /\ qnxt'[t] = Null
                                \/ rd'[t] = rd[t] /\ qnxt'[t] = qnxt[t]
    <3>1. ASSUME NEW x \in Uchans
          PROVE  /\ InHand(t, x)' => InHand(t, x)
                 /\ ~(rd'[t] = x /\ qnxt'[t] = x) /\ ~(rd'[t] = x /\ dead'[t] = x)
                 /\ ~(qnxt'[t] = x /\ dead'[t] = x)
                 /\ dead'[t] = x => t <= x /\ (t = x => wr'[t] = Null)
      <4>1. x # Null /\ ~(rd[t] = x /\ qnxt[t] = x)
        BY <1>3 DEF Tokens
      <4> QED BY <2>4, <4>1 DEF InHand
    <3> QED BY <1>2, <2>2, <3>1, TokensKept
  <2>5. CASE /\ UNCHANGED <<rd, qnxt>> /\ UnrefFree(t) /\ qnext[u] \in Uchans
             /\ dead' = [dead EXCEPT ![t] = qnext[u]]
    <3>1. PICK w \in Uchans : w = qnext[u]
        BY <2>5
    <3>2. /\ dead'[t] = w /\ rd'[t] = rd[t] /\ qnxt'[t] = qnxt[t]
          /\ qnext'[u] = Null /\ \A v \in Uchans : v # u => qnext'[v] = qnext[v]
        BY <2>1, <2>3, <2>5, <3>1
    <3>3. t < w
      <4>1. t <= u
        BY <2>1 DEF Tokens
      <4>2. u < w
        BY <1>3, <1>4, <3>1
      <4> QED BY <1>3, <4>1, <4>2
    <3>4. ~InHand(t, w)
        BY <3>1 DEF Tokens
    <3>5. ASSUME NEW x \in Uchans
          PROVE  /\ InHand(t, x)' => x = w \/ InHand(t, x)
                 /\ ~(rd'[t] = x /\ qnxt'[t] = x) /\ ~(rd'[t] = x /\ dead'[t] = x)
                 /\ ~(qnxt'[t] = x /\ dead'[t] = x)
                 /\ dead'[t] = x => t <= x /\ (t = x => wr'[t] = Null)
      <4>1. ~(rd[t] = x /\ qnxt[t] = x)
        BY DEF Tokens
      <4> QED BY <1>3, <3>2, <3>3, <3>4, <4>1 DEF InHand
    <3> QED BY <1>2, <3>1, <3>2, <3>5, TokensTaken
  <2> QED BY <2>1, <2>3, <2>4, <2>5
<1> QED BY <1>5, <1>6, <1>7, <1>8, <1>9 DEF Step

-----------------------------------------------------------------------------
(* Counts.                                                                 *)

\* A reference that was given up does not come back.
LEMMA HasStays ==
    ASSUME TypeOK, Threads, Paths, Tokens, NEW t \in Thread, Step(t) \/ SpuriousWakeup(t),
           NEW u \in Uchans
    PROVE  /\ WriterHas(u)' => WriterHas(u)
           /\ ReaderHas(u)' => ReaderHas(u)
<1>1. Placed(t) /\ Ends(t)
    BY DEF Threads
<1>2. \A s \in Thread : s # t =>
          /\ rd'[s] = rd[s] /\ wr'[s] = wr[s] /\ qnxt'[s] = qnxt[s] /\ dead'[s] = dead[s]
    BY OthersStay DEF SameThread
<1>3. /\ rd[t] \in Uchans \cup {0} /\ qnxt[t] \in Uchans \cup {0} /\ dead[t] \in Uchans \cup {0}
      /\ t \in Nat /\ Uchans \subseteq Nat /\ 0 \notin Uchans /\ Null = 0 /\ u \in Nat /\ u # 0
      /\ u \in Thread
    BY ThreadTypes, Constants
<1>4. /\ rd[t] # 0 => t < rd[t]
      /\ qnxt[t] # 0 => t < qnxt[t]
      /\ \A v \in Uchans : qnext[v] # 0 => v < qnext[v]
    BY <1>3 DEF Paths, Through
<1>5. CASE \/ Call(t) \/ Lock(t) \/ InsertWait(t) \/ RemoveWait(t) \/ SpuriousWakeup(t)
           \/ Insert(t) \/ Remove(t) \/ Unlock(t) \/ UnrefRead(t)
  <2>1. UNCHANGED <<rd, wr, qnxt, dead, qnext>>
    BY <1>5, QuietStep
  <2> QED BY <2>1 DEF WriterHas, ReaderHas, InHand
<1>6. CASE Close(t) \/ UnlockUnref(t)
  <2>1. qnext' = qnext /\ dead[t] = Null /\ qnxt'[t] = qnxt[t]
    BY <1>1, <1>6 DEF Close, UnlockUnref, fields, Placed
  <2>2. \/ rd[t] # Null /\ dead'[t] = rd[t] /\ rd'[t] = Null /\ wr'[t] = wr[t]
        \/ t # Null /\ dead'[t] = t /\ wr[t] = t /\ wr'[t] = Null /\ rd'[t] = rd[t]
    <3>1. CASE Close(t)
        BY <1>1, <3>1, CloseThread DEF Close
    <3>2. CASE UnlockUnref(t)
        BY <1>1, <3>2, UnlockUnrefThread
    <3> QED BY <1>6, <3>1, <3>2
  <2>3. InHand(t, u)' => InHand(t, u)
    BY <1>3, <1>4, <2>1, <2>2 DEF InHand
  <2>4. WriterHas(u)' => WriterHas(u)
    BY <1>2, <1>3, <1>4, <2>1, <2>2 DEF WriterHas
  <2>5. \A s \in Thread : InHand(s, u)' => InHand(s, u)
    BY <1>2, <2>3 DEF InHand
  <2> QED BY <2>1, <2>4, <2>5 DEF ReaderHas
<1>7. CASE RemoveNext(t)
  <2>1. PICK x \in Uchans, y \in Uchans :
              /\ rd[t] = x /\ qnext[x] = y
              /\ qnxt' = [qnxt EXCEPT ![t] = y]
              /\ qnext' = [qnext EXCEPT ![x] = Null]
              /\ UNCHANGED <<rd, wr, dead>>
    BY <1>7, RemoveNextEffect
  <2>2. \A s \in Thread : InHand(s, u)' => InHand(s, u) \/ qnext[x] = u
    BY <2>1 DEF InHand, TypeOK
  <2>3. \A v \in Uchans : qnext'[v] = u => qnext[v] = u
    BY <1>3, <2>1 DEF TypeOK
  <2> QED BY <2>1, <2>2, <2>3 DEF WriterHas, ReaderHas
<1>8. CASE Link(t)
  <2>1. /\ t \in Uchans /\ rd[t] \in Uchans
        /\ qnext' = [qnext EXCEPT ![t] = rd[t]]
        /\ rd' = [rd EXCEPT ![t] = Null]
        /\ UNCHANGED <<wr, qnxt, dead>>
    BY <1>8, LinkEffect
  <2>2. \A s \in Thread : InHand(s, u)' => InHand(s, u)
    BY <1>3, <2>1 DEF InHand, TypeOK
  <2>3. \A v \in Uchans : qnext'[v] = u => qnext[v] = u \/ InHand(t, u)
    BY <2>1 DEF TypeOK, InHand
  <2> QED BY <2>1, <2>2, <2>3 DEF WriterHas, ReaderHas
<1>9. CASE UnrefWrite(t) \/ UnrefFree(t)
  <2>1. PICK x \in Uchans :
              /\ dead[t] = x /\ UNCHANGED wr
              /\ \/ /\ qnxt[t] # Null /\ rd[t] = Null
                    /\ rd' = [rd EXCEPT ![t] = qnxt[t]] /\ qnxt' = [qnxt EXCEPT ![t] = Null]
                    /\ dead' = [dead EXCEPT ![t] = Null]
                 \/ /\ qnxt[t] = Null /\ UNCHANGED <<rd, qnxt>>
                    /\ dead' = [dead EXCEPT ![t] = Null]
                 \/ /\ UNCHANGED <<rd, qnxt>> /\ UnrefFree(t) /\ qnext[x] \in Uchans
                    /\ dead' = [dead EXCEPT ![t] = qnext[x]]
              /\ UnrefWrite(t) => qnext' = qnext
              /\ UnrefFree(t) => qnext' = [qnext EXCEPT ![x] = Null]
    BY <1>9, UnreffedEffect
  <2>2. /\ rd \in [Thread -> Uchans \cup {Null}] /\ qnxt \in [Thread -> Uchans \cup {Null}]
        /\ dead \in [Thread -> Uchans \cup {Null}] /\ qnext \in [Uchans -> Uchans \cup {Null}]
    BY DEF TypeOK
  <2>3. \/ /\ dead'[t] = Null /\ \/ rd'[t] = qnxt[t] /\ qnxt'[t] = Null
                                 \/ rd'[t] = rd[t] /\ qnxt'[t] = qnxt[t]
        \/ dead'[t] = qnext[x] /\ qnext[x] \in Uchans /\ rd'[t] = rd[t] /\ qnxt'[t] = qnxt[t]
    BY <2>1, <2>2
  <2>4. InHand(t, u)' => InHand(t, u) \/ qnext[x] = u
    BY <1>3, <2>3 DEF InHand
  <2>5. \A s \in Thread : InHand(s, u)' => InHand(s, u) \/ qnext[x] = u
    BY <1>2, <2>4 DEF InHand
  <2>6. \A v \in Uchans : qnext'[v] = u => qnext[v] = u
    BY <1>3, <1>9, <2>1, <2>2
  <2>7. dead'[t] = t /\ t # Null => FALSE
    <3>1. t # Null => t \in Uchans
        BY <1>3, Constants
    <3>2. CASE dead'[t] = qnext[x] /\ qnext[x] \in Uchans
      <4>1. x < qnext[x] /\ x \in Nat /\ qnext[x] \in Nat
        BY <1>3, <1>4, <3>2
      <4>2. t <= x
        BY <2>1 DEF Tokens
      <4> QED BY <1>3, <3>2, <4>1, <4>2
    <3> QED BY <1>3, <2>3, <3>2
  <2>8. WriterHas(u)' => WriterHas(u)
    BY <1>2, <1>3, <2>1, <2>7 DEF WriterHas
  <2> QED BY <2>5, <2>6, <2>8 DEF ReaderHas
<1> QED BY <1>5, <1>6, <1>7, <1>8, <1>9 DEF Step

\* Who writes the count of u, or frees it, gives up its reference to u.
LEMMA GivenUp ==
    ASSUME TypeOK, Threads, Paths, Tokens, NEW t \in Thread, UnrefWrite(t) \/ UnrefFree(t),
           NEW u \in Uchans, dead[t] = u
    PROVE  /\ t = u => WriterHas(u) /\ ~WriterHas(u)'
           /\ t # u => ReaderHas(u) /\ ~ReaderHas(u)'
<1>1. \A s \in Thread : s # t =>
          /\ rd'[s] = rd[s] /\ wr'[s] = wr[s] /\ qnxt'[s] = qnxt[s] /\ dead'[s] = dead[s]
    BY OthersStay DEF SameThread, Step
<1>2. u # 0 /\ u \in Nat /\ Null = 0 /\ u \in Thread /\ t \in Nat
    BY Constants
<1>3. /\ UNCHANGED wr
      /\ \/ /\ rd' = [rd EXCEPT ![t] = qnxt[t]] /\ qnxt' = [qnxt EXCEPT ![t] = Null]
            /\ dead' = [dead EXCEPT ![t] = Null]
         \/ /\ UNCHANGED <<rd, qnxt>>
            /\ dead' = [dead EXCEPT ![t] = Null]
         \/ /\ UNCHANGED <<rd, qnxt>> /\ qnext[u] \in Uchans
            /\ dead' = [dead EXCEPT ![t] = qnext[u]]
      /\ UnrefWrite(t) => qnext' = qnext
      /\ UnrefFree(t) => qnext' = [qnext EXCEPT ![u] = Null]
    BY UnreffedEffect
<1>4. /\ rd \in [Thread -> Uchans \cup {Null}] /\ qnxt \in [Thread -> Uchans \cup {Null}]
      /\ dead \in [Thread -> Uchans \cup {Null}] /\ qnext \in [Uchans -> Uchans \cup {Null}]
    BY DEF TypeOK
<1>5. dead'[t] # u
  <2>1. qnext[u] \in Uchans => u < qnext[u]
    BY Constants DEF Paths, Through
  <2>2. qnext[u] \in Uchans => u # qnext[u]
    BY <2>1, Constants
  <2> QED BY <1>2, <1>3, <1>4, <2>2
<1>6. CASE t = u
    BY <1>2, <1>3, <1>5, <1>6 DEF WriterHas, Tokens
<1>7. CASE t # u
  <2>1. InHand(t, u)
    BY <1>7 DEF InHand
  <2>2. rd[t] # u /\ qnxt[t] # u
    BY DEF Tokens
  <2>3. ~InHand(t, u)'
    BY <1>2, <1>3, <1>4, <1>5, <2>2 DEF InHand
  <2>4. ASSUME NEW s \in Thread, s # t PROVE ~InHand(s, u)'
    <3>1. ~InHand(s, u)
        BY <2>1, <2>4 DEF Tokens
    <3> QED BY <1>1, <2>4, <3>1 DEF InHand
  <2>5. \A v \in Uchans : qnext[v] # u
    BY <2>1 DEF Tokens
  <2>6. \A v \in Uchans : qnext'[v] # u
    BY <1>2, <1>3, <1>4, <2>5
  <2> QED BY <1>7, <2>1, <2>3, <2>4, <2>6 DEF ReaderHas
<1> QED BY <1>6, <1>7

LEMMA CountsStep ==
    ASSUME TypeOK, Threads, Paths, Tokens, Counts, NEW t \in Thread, Step(t) \/ SpuriousWakeup(t)
    PROVE  Counts'
<1>1. \A u \in Uchans : /\ WriterHas(u)' => WriterHas(u)
                        /\ ReaderHas(u)' => ReaderHas(u)
    BY HasStays
<1>2. \A s \in Thread : s # t => dead'[s] = dead[s] /\ seen'[s] = seen[s]
    BY OthersStay DEF SameThread
<1>3. \A s \in Thread : seen[s] # 0 => dead[s] \in Uchans /\ pc[s] = "counted"
    BY DeadUchan DEF Threads, Placed
<1>4. /\ seen \in [Thread -> 0..2] /\ rfcnt \in [Uchans -> 1..2]
      /\ qnext \in [Uchans -> Uchans \cup {Null}]
    BY DEF TypeOK
<1>5. CASE UnrefWrite(t) \/ UnrefFree(t)
  <2>1. dead[t] \in Uchans /\ pc[t] = "counted" /\ seen[t] # 0
    BY <1>5, DeadUchan DEF UnrefWrite, UnrefFree, Threads, Placed
  <2>2. PICK u \in Uchans : u = dead[t]
    BY <2>1
  <2>3. seen' = [seen EXCEPT ![t] = 0]
    BY <1>5 DEF UnrefWrite, UnrefFree
  <2>4. ~WriterHas(u)' \/ ~ReaderHas(u)'
    BY <1>5, <2>2, GivenUp
  <2>5. CASE UnrefWrite(t)
    <3>1. /\ rfcnt' = [rfcnt EXCEPT ![u] = seen[t] - 1] /\ UNCHANGED <<freed, qnext>>
        BY <2>2, <2>5, UnreffedEffect DEF UnrefWrite
    <3>2. seen[t] = 2
        BY <1>4, <2>5 DEF UnrefWrite
    <3>3. rfcnt'[u] = 1 /\ \A v \in Uchans : v # u => rfcnt'[v] = rfcnt[v]
        BY <1>4, <3>1, <3>2
    <3>4. ASSUME NEW v \in Uchans
          PROVE  /\ rfcnt'[v] = 1 => ~WriterHas(v)' \/ ~ReaderHas(v)'
                 /\ v \in freed' => ~WriterHas(v)' /\ ~ReaderHas(v)' /\ qnext'[v] = Null
        BY <1>1, <2>4, <3>1, <3>3 DEF Counts
    <3>5. ASSUME NEW s \in Thread, seen'[s] = 1 PROVE rfcnt'[dead'[s]] = 1
      <4>1. s # t /\ seen[s] = 1 /\ dead'[s] = dead[s]
        BY <1>2, <1>4, <2>3, <3>5
      <4>2. dead[s] \in Uchans /\ rfcnt[dead[s]] = 1
        BY <1>3, <4>1 DEF Counts
      <4> QED BY <3>3, <4>1, <4>2
    <3> QED BY <3>4, <3>5 DEF Counts
  <2>6. CASE UnrefFree(t)
    <3>1. /\ freed' = freed \cup {u} /\ UNCHANGED rfcnt
          /\ qnext' = [qnext EXCEPT ![u] = Null]
        BY <2>2, <2>6 DEF UnrefFree
    <3>2. seen[t] = 1
        BY <1>4, <2>1, <2>6 DEF UnrefFree
    <3>3. rfcnt[u] = 1
        BY <2>2, <3>2 DEF Counts
    <3>4. ~WriterHas(u)' /\ ~ReaderHas(u)'
      <4>1. ~WriterHas(u) \/ ~ReaderHas(u)
        BY <3>3 DEF Counts
      <4> QED BY <1>1, <1>5, <2>2, <4>1, GivenUp
    <3>5. ASSUME NEW v \in Uchans
          PROVE  /\ rfcnt'[v] = 1 => ~WriterHas(v)' \/ ~ReaderHas(v)'
                 /\ v \in freed' => ~WriterHas(v)' /\ ~ReaderHas(v)' /\ qnext'[v] = Null
        BY <1>1, <1>4, <3>1, <3>4 DEF Counts
    <3>6. ASSUME NEW s \in Thread, seen'[s] = 1 PROVE rfcnt'[dead'[s]] = 1
      <4>1. s # t /\ seen[s] = 1 /\ dead'[s] = dead[s]
        BY <1>2, <1>4, <2>3, <3>6
      <4> QED BY <3>1, <4>1 DEF Counts
    <3> QED BY <3>5, <3>6 DEF Counts
  <2> QED BY <1>5, <2>5, <2>6
<1>6. CASE ~UnrefWrite(t) /\ ~UnrefFree(t)
  <2>1. UNCHANGED <<rfcnt, freed>>
    BY <1>6 DEF Step, Call, Close, Lock, SpuriousWakeup, InsertWait, RemoveWait, UnrefRead,
        Sleep,
           Insert, Remove, Link, RemoveNext, Unlock, UnlockUnref, fields
  <2>2. \A v \in Uchans : v \in freed => qnext'[v] = Null
    <3>1. CASE Link(t)
      <4>1. t \in Uchans /\ wr[t] = t /\ qnext' = [qnext EXCEPT ![t] = rd[t]]
        BY <3>1, LinkEffect
      <4>2. t \notin freed
        BY <4>1 DEF Counts, WriterHas
      <4> QED BY <1>4, <4>1, <4>2 DEF Counts
    <3>2. CASE ~Link(t)
      <4>1. \A v \in Uchans : qnext'[v] = qnext[v] \/ qnext'[v] = Null
        BY <1>4, <1>6, <3>2 DEF Step, Call, Close, Lock, SpuriousWakeup, InsertWait, RemoveWait,
           UnrefRead, Sleep, Insert, Remove, RemoveNext, Unlock, UnlockUnref, fields
      <4> QED BY <4>1 DEF Counts
    <3> QED BY <3>1, <3>2
  <2>3. seen'[t] = 1 => rfcnt[dead'[t]] = 1
    <3>1. CASE UnrefRead(t)
        BY <1>4, <3>1 DEF UnrefRead
    <3>2. CASE ~UnrefRead(t)
      <4>1. seen'[t] = seen[t] /\ (dead'[t] = dead[t] \/ pc[t] \in {"idle", "leave"})
        BY <1>6, <3>2 DEF Step, Call, Close, Lock, SpuriousWakeup, InsertWait, RemoveWait,
            Sleep,
           Insert, Remove, Link, RemoveNext, Unlock, UnlockUnref
      <4>2. CASE seen'[t] = 1
        <5>1. seen[t] = 1
            BY <4>1, <4>2
        <5>3. pc[t] = "counted"
            BY <1>3, <5>1
        <5>2. dead'[t] = dead[t]
            BY <4>1, <5>3
        <5> QED BY <5>1, <5>2 DEF Counts
      <4> QED BY <4>2
    <3> QED BY <3>1, <3>2
  <2>4. \A s \in Thread : seen'[s] = 1 => rfcnt[dead'[s]] = 1
    BY <1>2, <2>3 DEF Counts
  <2>5. ASSUME NEW v \in Uchans
        PROVE  /\ rfcnt'[v] = 1 => ~WriterHas(v)' \/ ~ReaderHas(v)'
               /\ v \in freed' => ~WriterHas(v)' /\ ~ReaderHas(v)' /\ qnext'[v] = Null
    BY <1>1, <2>1, <2>2 DEF Counts
  <2> QED BY <2>1, <2>4, <2>5 DEF Counts
<1> QED BY <1>5, <1>6

-----------------------------------------------------------------------------
(* What is sent and received.                                              *)

LEMMA SentStep ==
    ASSUME TypeOK, Threads, Sent, NEW t \in Thread, Step(t) \/ SpuriousWakeup(t)
    PROVE  Sent'
<1> DEFINE Ok(u, q) == \A i \in 1..Len(q) :
              /\ q[i][1] = u
              /\ \/ q[i][2] > Len(todo[u])
                 \/ q[i][2] = Len(todo[u]) /\ pc[u] = "leave" /\ op(u) = "insert"
           Falls(q) == \A i, j \in 1..Len(q) : i < j => q[i][2] > q[j][2]
<1>1. \A u \in Uchans : Ok(u, queue[u]) /\ Falls(queue[u])
    BY DEF Sent
<1>2. ASSUME NEW u \in Uchans
      PROVE  /\ Len(todo[u]) \in Nat /\ Len(todo'[u]) \in Nat /\ Len(todo'[u]) <= Len(todo[u])
             /\ \/ Len(todo'[u]) < Len(todo[u])
                \/ pc[u] = "leave" /\ op(u) = "insert" => pc'[u] = "leave" /\ op(u)' = "insert"
  <2>1. u \in Thread /\ Placed(u)
    BY Constants DEF Threads
  <2>2. Len(todo[u]) \in Nat
    BY <2>1, ThreadTypes, CallFacts
  <2>3. CASE u # t
    <3>1. todo'[u] = todo[u] /\ (pc[u] = "leave" => pc'[u] = "leave")
        BY <2>1, <2>3, OthersStay DEF SameThread, Woken
    <3> QED BY <2>2, <3>1 DEF op
  <2>4. CASE u = t /\ todo'[t] = todo[t] /\ ~(pc[t] = "leave" /\ op(t) = "insert")
    BY <2>2, <2>4
  <2>5. CASE u = t /\ todo'[t] = Tail(todo[t]) /\ todo[t] # <<>>
    <3>1. Len(todo'[t]) = Len(todo[t]) - 1 /\ Len(todo[t]) >= 1
        BY <2>5, ThreadTypes, CallFacts
    <3> QED BY <2>2, <2>5, <3>1
  <2>6. u = t => \/ todo'[t] = todo[t] /\ ~(pc[t] = "leave" /\ op(t) = "insert")
                 \/ todo'[t] = Tail(todo[t]) /\ todo[t] # <<>>
    <3>1. CASE Unlock(t)
        BY <2>1, <3>1, ThreadTypes DEF Unlock, Returns, TypeOK, Placed
    <3>2. CASE UnlockUnref(t)
        BY <2>1, <3>2, UnlockUnrefThread DEF Threads
    <3>3. CASE UnrefWrite(t) \/ UnrefFree(t)
        BY <2>1, <3>3, ThreadTypes DEF UnrefWrite, UnrefFree, Unreffed, Returns, Placed, TypeOK
    <3>4. CASE ~(Unlock(t) \/ UnlockUnref(t) \/ UnrefWrite(t) \/ UnrefFree(t))
        BY <3>4 DEF Step, Call, Close, Lock, SpuriousWakeup, InsertWait, RemoveWait,
            UnrefRead, Sleep,
           Insert, Remove, Link, RemoveNext
    <3> QED BY <3>1, <3>2, <3>3, <3>4
  <2> QED BY <2>3, <2>4, <2>5, <2>6
<1>3. ASSUME NEW u \in Uchans, NEW n \in Nat,
             \/ n > Len(todo[u])
             \/ n = Len(todo[u]) /\ pc[u] = "leave" /\ op(u) = "insert"
      PROVE  \/ n > Len(todo'[u])
             \/ n = Len(todo'[u]) /\ pc'[u] = "leave" /\ op(u)' = "insert"
    BY <1>2, <1>3
<1>4. ASSUME NEW u \in Uchans
      PROVE  queue[u] \in Seq(Messages) /\ Len(queue[u]) \in Nat
             /\ \A i \in 1..Len(queue[u]) : queue[u][i][1] \in Uchans /\ queue[u][i][2] \in Nat
  <2>1. PICK q \in Seq(Messages) : q = queue[u]
    BY DEF TypeOK
  <2>2. Len(q) \in Nat /\ \A i \in 1..Len(q) : q[i] \in Messages
    BY LenProperties, ElementOfSeq
  <2> QED BY <2>1, <2>2, Constants DEF Messages
<1>5. ASSUME NEW u \in Uchans, queue'[u] = queue[u]
      PROVE  Ok(u, queue[u])' /\ Falls(queue[u])'
    BY <1>1, <1>3, <1>4, <1>5
<1>6. CASE Insert(t)
  <2>1. /\ todo[t] # <<>> /\ wr[t] = t /\ t \in Uchans
    BY <1>6, ActiveChan DEF Insert, PC
  <2>2. queue' = [queue EXCEPT ![t] = Append(queue[t], Message(t))]
        /\ pc[t] = "locked" /\ pc'[t] = "leave" /\ todo' = todo /\ op(t) = "insert"
    BY <1>6, <2>1 DEF Insert, GotoSignalling
  <2>3. \A u \in Uchans : u # t => queue'[u] = queue[u]
    BY <2>2 DEF TypeOK
  <2>4. PICK q \in Seq(Messages) : q = queue[t]
    BY <1>4, <2>1
  <2>5. Message(t) \in Messages
    BY <2>1, MessageTypes
  <2>6. PICK m \in Messages : m = Message(t)
    BY <2>5
  <2>7. /\ Len(Append(q, m)) = Len(q) + 1 /\ Append(q, m)[Len(q) + 1] = m /\ Len(q) \in Nat
        /\ \A i \in 1..Len(q) : Append(q, m)[i] = q[i]
    BY AppendProperties, LenProperties
  <2>8. queue'[t] = Append(q, m)
    BY <2>1, <2>2, <2>4, <2>6 DEF TypeOK
  <2>9. m[1] = t /\ m[2] = Len(todo[t])
    BY <2>6 DEF Message
  <2>10. \A i \in 1..Len(q) : q[i][1] = t /\ q[i][2] > Len(todo[t])
    BY <1>1, <2>1, <2>2, <2>4
  <2>11. Len(todo[t]) \in Nat /\ todo'[t] = todo[t] /\ op(t)' = "insert"
    BY <1>2, <2>1, <2>2 DEF op
  <2>12. Ok(t, queue[t])'
    <3>1. ASSUME NEW i \in 1..Len(queue'[t])
          PROVE  /\ queue'[t][i][1] = t
                 /\ \/ queue'[t][i][2] > Len(todo'[t])
                    \/ queue'[t][i][2] = Len(todo'[t]) /\ pc'[t] = "leave" /\ op(t)' = "insert"
      <4>1. i \in 1..Len(q) \/ i = Len(q) + 1
        BY <2>7, <2>8
      <4>2. CASE i \in 1..Len(q)
        BY <2>7, <2>8, <2>10, <2>11, <4>2
      <4>3. CASE i = Len(q) + 1
        BY <2>2, <2>7, <2>8, <2>9, <2>11, <4>3
      <4> QED BY <4>1, <4>2, <4>3
    <3> QED BY <3>1
  <2>13. Falls(queue[t])'
    <3>1. ASSUME NEW i \in 1..Len(queue'[t]), NEW j \in 1..Len(queue'[t]), i < j
          PROVE  queue'[t][i][2] > queue'[t][j][2]
      <4>1. i \in 1..Len(q) /\ (j \in 1..Len(q) \/ j = Len(q) + 1)
        BY <2>7, <2>8, <3>1
      <4>2. CASE j \in 1..Len(q)
        <5>1. q[i][2] > q[j][2]
            BY <1>1, <2>1, <2>4, <3>1, <4>1, <4>2
        <5> QED BY <2>7, <2>8, <4>1, <4>2, <5>1
      <4>3. CASE j = Len(q) + 1
        BY <2>7, <2>8, <2>9, <2>10, <4>1, <4>3
      <4> QED BY <4>1, <4>2, <4>3
    <3> QED BY <3>1
  <2>14. ASSUME NEW u \in Uchans PROVE Ok(u, queue[u])' /\ Falls(queue[u])'
    BY <1>5, <2>3, <2>12, <2>13
  <2> QED BY <2>14 DEF Sent
<1>7. CASE Remove(t)
  <2>1. rd[t] \in Uchans
    BY <1>7, ActiveChan DEF Remove, PC
  <2>2. PICK v \in Uchans : v = rd[t]
    BY <2>1
  <2>3. PICK q \in Seq(Messages) : q = queue[v]
    BY <1>4
  <2>4. queue' = [queue EXCEPT ![v] = Tail(q)] /\ q # <<>>
    BY <1>7, <2>2, <2>3 DEF Remove
  <2>5. \A u \in Uchans : u # v => queue'[u] = queue[u]
    BY <2>4 DEF TypeOK
  <2>6. queue'[v] = Tail(q)
    BY <2>4 DEF TypeOK
  <2>7. Len(Tail(q)) = Len(q) - 1 /\ Len(q) \in Nat /\ \A i \in 1..Len(q) - 1 : Tail(q)[i] = q[i + 1]
    BY <2>4, HeadTailProperties, LenProperties
  <2>8. ASSUME NEW i \in 1..Len(queue'[v])
        PROVE  i + 1 \in 1..Len(q) /\ queue'[v][i] = q[i + 1]
    BY <2>6, <2>7
  <2>9. ASSUME NEW i \in 1..Len(queue'[v])
        PROVE  /\ queue'[v][i][1] = v
               /\ \/ queue'[v][i][2] > Len(todo'[v])
                  \/ queue'[v][i][2] = Len(todo'[v]) /\ pc'[v] = "leave" /\ op(v)' = "insert"
    <3>1. i + 1 \in 1..Len(q) /\ queue'[v][i] = q[i + 1]
        BY <2>8
    <3>2. PICK j \in 1..Len(q) : j = i + 1
        BY <3>1
    <3>3. /\ q[j][1] = v /\ q[j][2] \in Nat
          /\ \/ q[j][2] > Len(todo[v])
             \/ q[j][2] = Len(todo[v]) /\ pc[v] = "leave" /\ op(v) = "insert"
        BY <1>1, <1>4, <2>3
    <3>4. \/ q[j][2] > Len(todo'[v])
          \/ q[j][2] = Len(todo'[v]) /\ pc'[v] = "leave" /\ op(v)' = "insert"
        BY <1>3, <3>3
    <3> QED BY <3>1, <3>2, <3>3, <3>4
  <2>10. ASSUME NEW i \in 1..Len(queue'[v]), NEW j \in 1..Len(queue'[v]), i < j
         PROVE  queue'[v][i][2] > queue'[v][j][2]
    <3>1. /\ i + 1 \in 1..Len(q) /\ queue'[v][i] = q[i + 1] /\ j + 1 \in 1..Len(q)
          /\ queue'[v][j] = q[j + 1] /\ i + 1 < j + 1
        BY <2>8, <2>10
    <3>2. q[i + 1][2] > q[j + 1][2]
        BY <1>1, <2>3, <3>1
    <3> QED BY <3>1, <3>2
  <2>11. ASSUME NEW u \in Uchans PROVE Ok(u, queue[u])' /\ Falls(queue[u])'
    <3>1. CASE u = v
        BY <2>9, <2>10, <3>1
    <3>2. CASE u # v
        BY <1>5, <2>5, <3>2
    <3> QED BY <3>1, <3>2
  <2> QED BY <2>11 DEF Sent
<1>8. CASE ~Insert(t) /\ ~Remove(t)
  <2>1. queue' = queue
    BY <1>8, QueueStays
  <2>2. ASSUME NEW u \in Uchans PROVE Ok(u, queue[u])' /\ Falls(queue[u])'
    BY <1>5, <2>1
  <2> QED BY <2>2 DEF Sent
<1> QED BY <1>6, <1>7, <1>8

\* The calls that t has before it, if it goes on with the same call, ...
LEMMA SameCalls ==
    ASSUME TypeOK, NEW t \in Thread, todo'[t] = todo[t],
           op(t) = "insert" => (pc'[t] = "leave" <=> pc[t] = "leave"),
           op(t) = "remove" =>
              (pc'[t] = "leave" /\ qnxt'[t] = Null <=> pc[t] = "leave" /\ qnxt[t] = Null)
    PROVE  \A n : (ToSend(t, n)' <=> ToSend(t, n)) /\ (ToReceive(t, n)' <=> ToReceive(t, n))
<1>1. Len(todo[t]) \in Nat /\ (todo[t] # <<>> => op(t) = todo[t][1]) /\ (todo[t] = <<>> <=> Len(todo[t]) = 0)
    BY ThreadTypes, CallFacts DEF op
<1> TAKE n
<1>2. CASE n = Len(todo[t]) /\ todo[t] # <<>>
  <2>1. todo[t][Len(todo[t]) + 1 - n] = op(t)
    BY <1>1, <1>2
  <2>2. ToSend(t, n)' <=> ToSend(t, n)
    BY <2>1 DEF ToSend
  <2>3. ToReceive(t, n)' <=> ToReceive(t, n)
    BY <2>1 DEF ToReceive
  <2> QED BY <2>2, <2>3
<1>3. CASE n # Len(todo[t])
    BY <1>3 DEF ToSend, ToReceive
<1>4. CASE todo[t] = <<>>
    BY <1>1, <1>4 DEF ToSend, ToReceive
<1> QED BY <1>2, <1>3, <1>4

\* ... and if it returns, having sent or received, or called something else.
LEMMA ReturnCalls ==
    ASSUME TypeOK, NEW t \in Thread, todo[t] # <<>>, todo'[t] = Tail(todo[t]), pc'[t] = "idle",
           op(t) = "insert" => pc[t] = "leave",
           op(t) = "remove" => pc[t] = "leave" /\ qnxt[t] = Null
    PROVE  \A n : (ToSend(t, n)' <=> ToSend(t, n)) /\ (ToReceive(t, n)' <=> ToReceive(t, n))
<1>1. /\ Len(todo[t]) \in Nat /\ op(t) = todo[t][1] /\ Len(todo[t]) >= 1
      /\ Len(todo'[t]) = Len(todo[t]) - 1
      /\ \A i \in 1..Len(todo[t]) - 1 : todo'[t][i] = todo[t][i + 1]
    BY ThreadTypes, CallFacts DEF op
<1> TAKE n
<1>2. CASE n \in 1..Len(todo[t]) - 1
  <2>0. Len(todo[t]) - n \in 1..Len(todo[t]) - 1
    BY <1>1, <1>2
  <2>1. PICK i \in 1..Len(todo[t]) - 1 : i = Len(todo[t]) - n
    BY <2>0
  <2>2. Len(todo'[t]) + 1 - n = i /\ Len(todo[t]) + 1 - n = i + 1 /\ n # Len(todo[t]) /\ n \in 1..Len(todo'[t])
        /\ n \in 1..Len(todo[t])
    BY <1>1, <1>2, <2>1
  <2>3. todo'[t][Len(todo'[t]) + 1 - n] = todo[t][Len(todo[t]) + 1 - n]
    BY <1>1, <2>1, <2>2
  <2>4. ToSend(t, n)' <=> ToSend(t, n)
    BY <2>2, <2>3 DEF ToSend
  <2>5. ToReceive(t, n)' <=> ToReceive(t, n)
    BY <2>2, <2>3 DEF ToReceive
  <2> QED BY <2>4, <2>5
<1>3. CASE n = Len(todo[t])
  <2>1. n \notin 1..Len(todo'[t]) /\ todo[t][Len(todo[t]) + 1 - n] = op(t)
    BY <1>1, <1>3
  <2> QED BY <1>3, <2>1 DEF ToSend, ToReceive
<1>4. CASE n \notin 1..Len(todo[t])
  <2>1. n \notin 1..Len(todo'[t])
    BY <1>1, <1>4
  <2> QED BY <1>4, <2>1 DEF ToSend, ToReceive
<1> QED BY <1>1, <1>2, <1>3, <1>4

LEMMA OthersCalls ==
    ASSUME TypeOK, NEW t \in Thread, Step(t) \/ SpuriousWakeup(t), NEW s \in Thread, s # t
    PROVE  \A n : (ToSend(s, n)' <=> ToSend(s, n)) /\ (ToReceive(s, n)' <=> ToReceive(s, n))
<1>1. /\ todo'[s] = todo[s] /\ (pc'[s] = "leave" <=> pc[s] = "leave") /\ qnxt'[s] = qnxt[s]
    BY OthersStay DEF SameThread, Woken
<1> QED BY <1>1, SameCalls

\* Only the steps that send or receive change what is to be sent or received.
LEMMA CallsStep ==
    ASSUME TypeOK, Threads, NEW t \in Thread, Step(t) \/ SpuriousWakeup(t),
           ~Insert(t), ~Remove(t), NEW s \in Thread
    PROVE  \A n : (ToSend(s, n)' <=> ToSend(s, n)) /\ (ToReceive(s, n)' <=> ToReceive(s, n))
<1>1. CASE s # t
    BY <1>1, OthersCalls
<1>2. CASE s = t
  <2>1. Placed(t) /\ Ends(t) /\ t \in DOMAIN pc /\ pc[t] \in PC
    BY ThreadTypes DEF Threads
  <2>2. CASE Call(t) \/ Lock(t) \/ InsertWait(t) \/ RemoveWait(t) \/ SpuriousWakeup(t) \/ Close(t)
             \/ UnrefRead(t) \/ Link(t)
    <3>1. todo'[t] = todo[t] /\ qnxt'[t] = qnxt[t] /\ pc[t] # "leave"
        BY <2>2 DEF Call, Lock, InsertWait, RemoveWait, SpuriousWakeup, Close, UnrefRead,
            Link, Sleep
    <3>2. pc'[t] # "leave" \/ op(t) = "link"
        BY <2>1, <2>2 DEF Call, Lock, InsertWait, RemoveWait, SpuriousWakeup, Close,
            UnrefRead, Link,
            Sleep, Goto
    <3> QED BY <1>2, <3>1, <3>2, SameCalls
  <2>3. CASE RemoveNext(t)
    <3>1. todo'[t] = todo[t] /\ qnxt'[t] # Null /\ pc[t] # "leave" /\ op(t) = "remove"
        BY <2>3, ThreadTypes DEF RemoveNext, TypeOK
    <3> QED BY <1>2, <3>1, SameCalls
  <2>4. CASE Unlock(t)
    <3>1. todo[t] # <<>> /\ todo'[t] = Tail(todo[t]) /\ pc'[t] = "idle" /\ pc[t] = "leave" /\ qnxt[t] = Null
        BY <2>1, <2>4, ThreadTypes DEF Unlock, Returns, Goto, Placed, PC, TypeOK
    <3> QED BY <1>2, <3>1, ReturnCalls
  <2>5. CASE UnlockUnref(t)
    <3>1. todo'[t] = todo[t] /\ op(t) # "insert" /\ pc'[t] = "unref" /\ pc[t] = "leave"
          /\ qnxt'[t] = qnxt[t] /\ (op(t) = "remove" => qnxt[t] # Null)
        BY <2>1, <2>5, UnlockUnrefThread DEF UnlockUnref, Goto
    <3> QED BY <1>2, <3>1, SameCalls
  <2>6. CASE UnrefWrite(t) \/ UnrefFree(t)
    <3>1. CASE Unreffed(t)
      <4>1. pc[t] = "counted" /\ seen' = [seen EXCEPT ![t] = 0] /\ UNCHANGED <<wr, joined>>
        BY <2>6 DEF UnrefWrite, UnrefFree, history
      <4>2. /\ todo[t] # <<>> /\ op(t) # "insert"
            /\ \/ qnxt[t] # Null /\ op(t) = "remove" /\ todo'[t] = todo[t] /\ pc'[t] = "enter"
               \/ op(t) # "remove" /\ todo'[t] = Tail(todo[t]) /\ pc'[t] = "idle"
        BY <2>1, <3>1, <4>1, UnreffedThread
      <4>3. CASE qnxt[t] # Null /\ op(t) = "remove" /\ todo'[t] = todo[t] /\ pc'[t] = "enter"
        BY <1>2, <4>1, <4>3, SameCalls
      <4>4. CASE op(t) # "remove" /\ todo'[t] = Tail(todo[t]) /\ pc'[t] = "idle"
        BY <1>2, <4>2, <4>4, ReturnCalls
      <4> QED BY <4>2, <4>3, <4>4
    <3>2. CASE ~Unreffed(t)
      <4>1. todo'[t] = todo[t] /\ pc'[t] = "unref" /\ pc[t] = "counted"
        BY <2>1, <2>6, <3>2 DEF UnrefWrite, UnrefFree, Goto
      <4> QED BY <1>2, <4>1, SameCalls
    <3> QED BY <3>1, <3>2
  <2> QED BY <2>2, <2>3, <2>4, <2>5, <2>6 DEF Step
<1> QED BY <1>1, <1>2

LEMMA InsertCalls ==
    ASSUME TypeOK, Threads, NEW t \in Thread, Insert(t)
    PROVE  /\ t \in Uchans /\ todo[t] # <<>> /\ t \notin joined /\ ToSend(t, Len(todo[t]))
           /\ \A s \in Thread : \A n :
                /\ ToSend(s, n)' <=> ToSend(s, n) /\ <<s, n>> # Message(t)
                /\ ToReceive(s, n)' <=> ToReceive(s, n)
                /\ s \in Uchans => (InQueue(s, n)' <=> InQueue(s, n) \/ <<s, n>> = Message(t))
<1>1. /\ todo[t] # <<>> /\ wr[t] = t /\ t \in Uchans /\ op(t) = "insert" /\ t \notin joined
      /\ pc[t] = "locked" /\ pc'[t] = "leave" /\ todo'[t] = todo[t]
    BY ActiveChan DEF Insert, PC, GotoSignalling
<1>2. Len(todo[t]) \in Nat /\ Len(todo[t]) >= 1 /\ op(t) = todo[t][1]
    BY <1>1, ThreadTypes, CallFacts DEF op
<1>3. ToSend(t, Len(todo[t]))
    BY <1>1, <1>2 DEF ToSend
<1>4. ASSUME NEW n
      PROVE  /\ ToSend(t, n)' <=> ToSend(t, n) /\ <<t, n>> # Message(t)
             /\ ToReceive(t, n)' <=> ToReceive(t, n)
  <2>1. CASE n = Len(todo[t])
    <3>1. todo[t][Len(todo[t]) + 1 - n] = "insert"
        BY <1>1, <1>2, <2>1
    <3> QED BY <1>1, <2>1, <3>1 DEF ToSend, ToReceive, Message
  <2>2. CASE n # Len(todo[t])
    BY <1>1, <2>2 DEF ToSend, ToReceive, Message
  <2> QED BY <2>1, <2>2
<1>5. ASSUME NEW s \in Thread, s # t, NEW n
      PROVE  /\ ToSend(s, n)' <=> ToSend(s, n) /\ <<s, n>> # Message(t)
             /\ ToReceive(s, n)' <=> ToReceive(s, n)
    BY <1>5, OthersCalls DEF Message, Step
<1>6. ASSUME NEW s \in Uchans, NEW n
      PROVE  InQueue(s, n)' <=> InQueue(s, n) \/ <<s, n>> = Message(t)
  <2>1. CASE s # t
    <3>1. queue'[s] = queue[s]
        BY <1>1, <2>1 DEF Insert, TypeOK
    <3> QED BY <2>1, <3>1 DEF InQueue, Message
  <2>2. CASE s = t
    <3>1. PICK q \in Seq(Messages), m \in Messages : q = queue[t] /\ m = Message(t)
        BY <1>1, MessageTypes DEF TypeOK
    <3>2. queue'[t] = Append(q, m)
        BY <1>1, <3>1 DEF Insert, TypeOK
    <3>3. /\ Len(Append(q, m)) = Len(q) + 1 /\ Append(q, m)[Len(q) + 1] = m /\ Len(q) \in Nat
          /\ \A i \in 1..Len(q) : Append(q, m)[i] = q[i]
        BY AppendProperties, LenProperties
    <3>4. ASSUME InQueue(t, n)' PROVE InQueue(t, n) \/ <<t, n>> = m
      <4>1. PICK i \in 1..Len(queue'[t]) : queue'[t][i] = <<t, n>>
        BY <3>4 DEF InQueue
      <4>2. CASE i \in 1..Len(q)
        BY <3>1, <3>2, <3>3, <4>1, <4>2 DEF InQueue
      <4>3. CASE i = Len(q) + 1
        BY <3>2, <3>3, <4>1, <4>3
      <4> QED BY <3>2, <3>3, <4>2, <4>3
    <3>5. ASSUME InQueue(t, n) PROVE InQueue(t, n)'
      <4>1. PICK i \in 1..Len(q) : q[i] = <<t, n>>
        BY <3>1, <3>5 DEF InQueue
      <4>2. i \in 1..Len(queue'[t]) /\ queue'[t][i] = <<t, n>>
        BY <3>2, <3>3, <4>1
      <4> QED BY <4>2 DEF InQueue
    <3>6. ASSUME <<t, n>> = m PROVE InQueue(t, n)'
      <4>1. Len(q) + 1 \in 1..Len(queue'[t]) /\ queue'[t][Len(q) + 1] = <<t, n>>
        BY <3>2, <3>3, <3>6
      <4> QED BY <4>1 DEF InQueue
    <3> QED BY <2>2, <3>1, <3>4, <3>5, <3>6
  <2> QED BY <2>1, <2>2
<1> QED BY <1>1, <1>3, <1>4, <1>5, <1>6

LEMMA RemoveCalls ==
    ASSUME TypeOK, Threads, Sent, NEW t \in Thread, Remove(t)
    PROVE  \E u \in Uchans, h \in 1..MaxCalls :
              /\ u = rd[t] /\ todo[t] # <<>> /\ t \notin joined
              /\ ToReceive(t, Len(todo[t])) /\ InQueue(u, h) /\ ~ToSend(u, h)
              /\ \A s \in Thread : \A n :
                    /\ ToSend(s, n)' <=> ToSend(s, n)
                    /\ ToReceive(s, n)' <=> ToReceive(s, n) /\ <<s, n>> # Message(t)
                    /\ s \in Uchans => (InQueue(s, n)' <=> InQueue(s, n) /\ <<s, n>> # <<u, h>>)
<1>1. /\ todo[t] # <<>> /\ rd[t] \in Uchans /\ op(t) = "remove" /\ t \notin joined /\ qnxt[t] = Null
      /\ pc[t] = "locked" /\ pc'[t] = "leave" /\ todo'[t] = todo[t] /\ qnxt'[t] = qnxt[t]
    BY ActiveChan DEF Remove, PC, GotoSignalling, Threads, Placed
<1>2. Len(todo[t]) \in Nat /\ Len(todo[t]) >= 1 /\ op(t) = todo[t][1]
    BY <1>1, ThreadTypes, CallFacts DEF op
<1>3. ToReceive(t, Len(todo[t]))
    BY <1>1, <1>2 DEF ToReceive
<1>4. PICK u \in Uchans : u = rd[t]
    BY <1>1
<1>5. PICK q \in Seq(Messages) : q = queue[u]
    BY DEF TypeOK
<1>6. queue'[u] = Tail(q) /\ q # <<>>
    BY <1>4, <1>5 DEF Remove, TypeOK
<1>7. /\ Len(Tail(q)) = Len(q) - 1 /\ Len(q) \in Nat /\ Len(q) >= 1
      /\ \A i \in 1..Len(q) - 1 : Tail(q)[i] = q[i + 1]
    BY <1>6, HeadTailProperties, LenProperties, EmptySeq
<1>8. q[1] \in Messages
    BY <1>7, ElementOfSeq
<1>9. PICK h \in 1..MaxCalls : q[1] = <<u, h>>
  <2>1. q[1][1] = u
    BY <1>5, <1>7 DEF Sent
  <2> QED BY <1>8, <2>1 DEF Messages
<1>10. InQueue(u, h) /\ ~ToSend(u, h)
  <2>1. 1 \in 1..Len(q) /\ q[1][2] = h
    BY <1>7, <1>9
  <2>2. \/ h > Len(todo[u])
        \/ h = Len(todo[u]) /\ pc[u] = "leave"
    BY <1>5, <2>1 DEF Sent
  <2>3. Len(todo[u]) \in Nat /\ h \in Nat
    BY Constants, ThreadTypes, CallFacts
  <2>4. ~ToSend(u, h)
    BY <2>2, <2>3 DEF ToSend
  <2> QED BY <1>5, <1>9, <2>1, <2>4 DEF InQueue
<1>11. ASSUME NEW n
       PROVE  /\ ToSend(t, n)' <=> ToSend(t, n)
              /\ ToReceive(t, n)' <=> ToReceive(t, n) /\ <<t, n>> # Message(t)
  <2>1. CASE n = Len(todo[t])
    <3>1. todo[t][Len(todo[t]) + 1 - n] = "remove"
        BY <1>1, <1>2, <2>1
    <3> QED BY <1>1, <2>1, <3>1 DEF ToSend, ToReceive, Message
  <2>2. CASE n # Len(todo[t])
    BY <1>1, <2>2 DEF ToSend, ToReceive, Message
  <2> QED BY <2>1, <2>2
<1>12. ASSUME NEW s \in Thread, s # t, NEW n
       PROVE  /\ ToSend(s, n)' <=> ToSend(s, n)
              /\ ToReceive(s, n)' <=> ToReceive(s, n) /\ <<s, n>> # Message(t)
    BY <1>12, OthersCalls DEF Message, Step
<1>13. ASSUME NEW s \in Uchans, NEW n
       PROVE  InQueue(s, n)' <=> InQueue(s, n) /\ <<s, n>> # <<u, h>>
  <2>1. CASE s # u
    <3>1. queue'[s] = queue[s]
        BY <1>4, <2>1 DEF Remove, TypeOK
    <3> QED BY <2>1, <3>1 DEF InQueue
  <2>2. CASE s = u
    <3>1. ASSUME InQueue(u, n)' PROVE InQueue(u, n) /\ n # h
      <4>1. PICK i \in 1..Len(queue'[u]) : queue'[u][i] = <<u, n>>
        BY <3>1 DEF InQueue
      <4>2. i + 1 \in 1..Len(q) /\ q[i + 1] = <<u, n>> /\ 1 \in 1..Len(q) /\ 1 < i + 1
        BY <1>6, <1>7, <4>1
      <4>3. q[1][2] > q[i + 1][2]
        BY <1>5, <4>2 DEF Sent
      <4>4. n # h
        BY <1>9, <4>2, <4>3
      <4> QED BY <1>5, <4>2, <4>4 DEF InQueue
    <3>2. ASSUME InQueue(u, n), n # h PROVE InQueue(u, n)'
      <4>1. PICK i \in 1..Len(q) : q[i] = <<u, n>>
        BY <1>5, <3>2 DEF InQueue
      <4>2. i # 1
        BY <1>9, <3>2, <4>1
      <4>3. PICK j \in 1..Len(q) - 1 : i = j + 1
        BY <1>7, <4>1, <4>2
      <4>4. j \in 1..Len(queue'[u]) /\ queue'[u][j] = <<u, n>>
        BY <1>6, <1>7, <4>1, <4>3
      <4> QED BY <4>4 DEF InQueue
    <3>3. InQueue(u, n)' <=> InQueue(u, n) /\ n # h
        BY <3>1, <3>2
    <3> QED BY <2>2, <3>3
  <2> QED BY <2>1, <2>2
<1>14. \A s \in Thread : \A n :
          /\ ToSend(s, n)' <=> ToSend(s, n)
          /\ ToReceive(s, n)' <=> ToReceive(s, n) /\ <<s, n>> # Message(t)
          /\ s \in Uchans => (InQueue(s, n)' <=> InQueue(s, n) /\ <<s, n>> # <<u, h>>)
    BY <1>11, <1>12, <1>13
<1> QED BY <1>1, <1>3, <1>4, <1>10, <1>14

-----------------------------------------------------------------------------
(* Silence.                                                                *)

\* Whoever has no end to read from is not going to receive.
LEMMA NoInCalls ==
    ASSUME TypeOK, Threads, NEW t \in Thread, ~HasIn(t)
    PROVE  \A n : ~ToReceive(t, n)
<1> SUFFICES ASSUME NEW n, ToReceive(t, n) PROVE FALSE
    OBVIOUS
<1>1. Len(todo[t]) \in Nat /\ n \in 1..Len(todo[t]) /\ Ends(t)
    BY ThreadTypes, CallFacts DEF ToReceive, Threads
<1>2. PICK i \in 1..Len(todo[t]) : i = Len(todo[t]) + 1 - n
  <2>1. Len(todo[t]) + 1 - n \in 1..Len(todo[t])
    BY <1>1
  <2> QED BY <2>1
<1>3. todo[t][i] = "remove"
    BY <1>2 DEF ToReceive
<1>4. ~Ahead(t, i)
    BY <1>1, <1>3 DEF Ends, Reading
<1>5. i = 1 /\ Begun(t)
    BY <1>4 DEF Ahead
<1>6. op(t) = "remove"
    BY <1>1, <1>3, <1>5, ThreadTypes, CallFacts DEF op
<1> QED BY <1>5, <1>6 DEF Begun

\* Nor is a thread that has linked, and it will not send.
LEMMA JoinedCalls ==
    ASSUME TypeOK, Threads, NEW t \in Thread, t \in joined
    PROVE  \A n : ~ToSend(t, n) /\ ~ToReceive(t, n)
<1>1. ~HasIn(t) /\ Ends(t) /\ (wr[t] # Null => Begun(t) /\ op(t) = "link")
    BY DEF Threads, Ends
<1>2. \A n : ~ToReceive(t, n)
    BY <1>1, NoInCalls
<1>3. ASSUME NEW n, ToSend(t, n) PROVE FALSE
  <2>1. Len(todo[t]) \in Nat /\ n \in 1..Len(todo[t])
    BY <1>3, ThreadTypes, CallFacts DEF ToSend
  <2>2. PICK i \in 1..Len(todo[t]) : i = Len(todo[t]) + 1 - n
    <3>1. Len(todo[t]) + 1 - n \in 1..Len(todo[t])
        BY <2>1
    <3> QED BY <3>1
  <2>3. todo[t][i] = "insert"
    BY <1>3, <2>2 DEF ToSend
  <2>4. op(t) = todo[t][1]
    BY <2>1, ThreadTypes, CallFacts DEF op
  <2>5. CASE wr[t] = Null
    <3>1. ~Ahead(t, i)
        BY <1>1, <2>3, <2>5 DEF Ends, Writing
    <3>2. i = 1 /\ Begun(t)
        BY <3>1 DEF Ahead
    <3> QED BY <2>3, <2>4, <3>2 DEF Begun
  <2>6. CASE wr[t] # Null
    <3>1. op(t) = "link"
        BY <1>1, <2>6
    <3>3. i # 1
        BY <2>3, <2>4, <3>1
    <3>2. 1 \in 1..Len(todo[t]) /\ 1 < i
        BY <2>1, <3>3
    <3> QED BY <1>1, <2>3, <2>4, <3>1, <3>2 DEF Ends, Writing
  <2> QED BY <2>5, <2>6
<1> QED BY <1>2, <1>3

LEMMA SilentStays ==
    ASSUME TypeOK, Threads, Sent, NEW t \in Thread, Step(t) \/ SpuriousWakeup(t),
           NEW u \in Uchans, Silent(u)
    PROVE  Silent(u)'
<1>1. u \in Thread
    BY Constants
<1>2. CASE Insert(t)
  <2>1. t # u
    <3>1. t \in Uchans /\ todo[t] # <<>> /\ ToSend(t, Len(todo[t]))
        BY <1>2, InsertCalls
    <3>2. Len(todo[t]) \in 1..MaxCalls
        BY <3>1, CallFacts, ThreadTypes, Constants DEF Threads, Placed
    <3> QED BY <3>1, <3>2 DEF Silent
  <2>2. queue'[u] = queue[u]
    BY <1>2, <2>1, ActiveChan DEF Insert, PC, TypeOK
  <2> QED BY <1>1, <1>2, <2>2, InsertCalls DEF Silent
<1>3. CASE Remove(t)
  <2>1. rd[t] # u
    BY <1>3 DEF Remove, Silent
  <2>2. queue'[u] = queue[u]
    BY <1>3, <2>1 DEF Remove, TypeOK
  <2> QED BY <1>1, <1>3, <2>2, RemoveCalls DEF Silent
<1>4. CASE ~Insert(t) /\ ~Remove(t)
  <2>1. queue' = queue
    BY <1>4, QueueStays
  <2> QED BY <1>1, <1>4, <2>1, CallsStep DEF Silent
<1> QED BY <1>2, <1>3, <1>4

LEMMA MessagesFinite == IsFiniteSet(Thread \X (1..MaxCalls))
<1>1. N \in Int /\ MaxCalls \in Int /\ 0 \in Int /\ 1 \in Int
    BY Constants
<1>2. IsFiniteSet(0..N) /\ IsFiniteSet(1..MaxCalls)
    BY <1>1, FS_Interval
<1> QED BY <1>2, FS_Product DEF Thread

\* What was sent to a, which does not receive any more, is nothing.
LEMMA Drained ==
    ASSUME TypeOK, Threads, Sent, Protocol, NEW a \in Thread, NEW u \in Uchans, a < u,
           Closing(a), \A n : ~ToReceive(a, n),
           \A j \in Uchans : a < j /\ j < u => j \in joined
    PROVE  Silent(u)
<1>1. Cardinality(Due(a, u)) <= Cardinality(Expected(a, u))
    BY DEF Protocol, Linking
<1>2. Expected(a, u) = {}
  <2>1. ASSUME NEW m \in Thread \X (1..MaxCalls), a <= m[1], m[1] < u, ToReceive(m[1], m[2])
        PROVE  FALSE
    <3>1. m[1] # a /\ m[1] \in Thread
        BY <2>1
    <3>4. PICK s \in Thread : s = m[1]
        BY <3>1
    <3>5. a < s /\ s # 0
        BY <2>1, <3>1, <3>4, Constants
    <3>2. m[1] \in Uchans /\ a < m[1]
        BY <3>4, <3>5, Constants
    <3>3. m[1] \in joined
        BY <2>1, <3>2
    <3> QED BY <2>1, <3>3, JoinedCalls
  <2> QED BY <2>1 DEF Expected
<1>3. IsFiniteSet(Due(a, u))
  <2>1. Due(a, u) \subseteq Thread \X (1..MaxCalls)
    BY DEF Due
  <2> QED BY <2>1, MessagesFinite, FS_Subset
<1>4. Due(a, u) = {}
  <2>1. Cardinality(Expected(a, u)) = 0
    BY <1>2, FS_EmptySet
  <2>2. Cardinality(Due(a, u)) \in Nat
    BY <1>3, FS_CardinalityType
  <2>3. Cardinality(Due(a, u)) = 0
    BY <1>1, <2>1, <2>2
  <2> QED BY <1>3, <2>3, FS_EmptySet
<1>5. ASSUME NEW n \in 1..MaxCalls PROVE ~InQueue(u, n) /\ ~ToSend(u, n)
  <2>1. <<u, n>> \notin Due(a, u)
    BY <1>4
  <2>2. <<u, n>> \in Thread \X (1..MaxCalls) /\ u <= u
    BY Constants
  <2> QED BY <2>1, <2>2 DEF Due
<1>6. queue[u] = <<>>
  <2>1. SUFFICES ASSUME queue[u] # <<>> PROVE FALSE
    OBVIOUS
  <2>2. PICK q \in Seq(Messages) : q = queue[u]
    BY DEF TypeOK
  <2>3. Len(q) \in Nat /\ 1 \in 1..Len(q)
    BY <2>1, <2>2, LenProperties, EmptySeq
  <2>4. q[1] \in Messages /\ q[1][1] = u
    BY <2>2, <2>3, ElementOfSeq DEF Sent
  <2>5. PICK n \in 1..MaxCalls : q[1] = <<u, n>>
    BY <2>4 DEF Messages
  <2>6. InQueue(u, n)
    BY <2>2, <2>3, <2>5 DEF InQueue
  <2> QED BY <1>5, <2>6
<1> QED BY <1>5, <1>6 DEF Silent

LEMMA ClosedStays ==
    ASSUME TypeOK, Threads, NEW t \in Thread, Step(t) \/ SpuriousWakeup(t),
           NEW a \in Thread, Closed(a)
    PROVE  Closed(a)'
<1>1. CASE a # t
    BY <1>1, OthersStay DEF SameThread, Closed, HasIn
<1>2. CASE a = t
  <2>1. rd[t] = Null /\ qnxt[t] = Null /\ t \notin joined
    BY <1>2 DEF Closed, HasIn
  <2>2. CASE UNCHANGED <<rd, qnxt, joined>>
    BY <1>2, <2>1, <2>2 DEF Closed, HasIn
  <2>3. ~Link(t) /\ ~RemoveNext(t)
    BY <2>1, LinkEffect, RemoveNextEffect, Constants
  <2>4. CASE UnrefWrite(t) \/ UnrefFree(t)
    BY <1>2, <2>1, <2>2, <2>4, UnreffedEffect
  <2>5. CASE Close(t) \/ UnlockUnref(t)
    <3>1. rd'[t] = rd[t] \/ rd'[t] = Null
        BY <2>5 DEF Close, UnlockUnref, TypeOK
    <3>2. UNCHANGED <<qnxt, joined>>
        BY <2>5 DEF Close, UnlockUnref, history
    <3> QED BY <1>2, <2>1, <3>1, <3>2 DEF Closed, HasIn
  <2> QED BY <2>2, <2>3, <2>4, <2>5, QuietStep DEF Step
<1> QED BY <1>1, <1>2

\* How a uchan loses the last reference that leads a reader to it.
LEMMA ReaderLeaves ==
    ASSUME TypeOK, Threads, Paths, Tokens, NEW t \in Thread, Step(t) \/ SpuriousWakeup(t),
           NEW u \in Uchans, ~ReaderUp(u), ReaderUp(u)'
    PROVE  \/ Close(t) /\ op(t) = "close_in" /\ rd[t] = u
           \/ UnlockUnref(t) /\ op(t) = "remove" /\ rd[t] = u
           \/ UnrefFree(t) /\ dead[t] \in Uchans /\ qnext[dead[t]] = u
<1>1. \A s \in Thread : s # t => rd'[s] = rd[s] /\ qnxt'[s] = qnxt[s]
    BY OthersStay DEF SameThread
<1>2. Placed(t) /\ Ends(t) /\ u # Null /\ u \in Nat
    BY Constants DEF Threads
<1>3. /\ \A s \in Thread : rd'[s] # u /\ qnxt'[s] # u
      /\ \A v \in Uchans : qnext'[v] # u
    BY DEF ReaderUp
<1>4. rd[t] = u \/ qnxt[t] = u \/ \E v \in Uchans : qnext[v] = u
    BY <1>1, <1>3 DEF ReaderUp
<1>5. CASE \/ Call(t) \/ Lock(t) \/ InsertWait(t) \/ RemoveWait(t) \/ SpuriousWakeup(t)
           \/ Insert(t) \/ Remove(t) \/ Unlock(t) \/ UnrefRead(t)
    BY <1>3, <1>4, <1>5, QuietStep
<1>6. CASE Close(t)
  <2>1. qnext' = qnext /\ qnxt' = qnxt /\ op(t) \in {"close_in", "close_out"}
    BY <1>6 DEF Close, fields
  <2>2. rd[t] = u /\ rd'[t] # u
    BY <1>3, <1>4, <2>1
  <2> QED BY <1>2, <1>6, <2>1, <2>2, CloseThread
<1>7. CASE UnlockUnref(t)
  <2>1. qnext' = qnext /\ qnxt' = qnxt
    BY <1>7 DEF UnlockUnref
  <2>2. rd[t] = u /\ rd'[t] # u
    BY <1>3, <1>4, <2>1
  <2> QED BY <1>2, <1>7, <2>2, UnlockUnrefThread
<1>8. CASE RemoveNext(t)
  <2>1. PICK x \in Uchans, y \in Uchans :
              /\ rd[t] = x /\ qnext[x] = y /\ qnxt[t] = Null
              /\ qnxt' = [qnxt EXCEPT ![t] = y]
              /\ qnext' = [qnext EXCEPT ![x] = Null]
              /\ UNCHANGED rd
    BY <1>8, RemoveNextEffect
  <2>2. qnxt'[t] = y /\ \A v \in Uchans : v # x => qnext'[v] = qnext[v]
    BY <2>1 DEF TypeOK
  <2> QED BY <1>2, <1>3, <1>4, <2>1, <2>2
<1>9. CASE Link(t)
  <2>1. /\ t \in Uchans /\ qnext[t] = Null /\ qnxt[t] = Null
        /\ qnext'[t] = rd[t] /\ \A v \in Uchans : v # t => qnext'[v] = qnext[v]
    BY <1>9, LinkEffect DEF TypeOK
  <2> QED BY <1>2, <1>3, <1>4, <2>1
<1>10. CASE UnrefWrite(t) \/ UnrefFree(t)
  <2>1. PICK x \in Uchans :
              /\ dead[t] = x
              /\ \/ /\ rd[t] = Null
                    /\ rd' = [rd EXCEPT ![t] = qnxt[t]] /\ qnxt' = [qnxt EXCEPT ![t] = Null]
                 \/ UNCHANGED <<rd, qnxt>>
              /\ UnrefWrite(t) => qnext' = qnext
              /\ UnrefFree(t) => qnext' = [qnext EXCEPT ![x] = Null]
    BY <1>10, UnreffedEffect
  <2>2. rd[t] # u /\ qnxt[t] # u
    BY <1>2, <1>3, <2>1 DEF TypeOK
  <2>3. PICK v \in Uchans : qnext[v] = u
    BY <1>4, <2>2
  <2>4. qnext'[v] # u
    BY <1>3
  <2>5. UnrefFree(t) /\ v = x
    BY <1>10, <2>1, <2>3, <2>4 DEF TypeOK
  <2> QED BY <2>1, <2>3, <2>5
<1> QED BY <1>5, <1>6, <1>7, <1>8, <1>9, <1>10 DEF Step

LEMMA SilenceStep ==
    ASSUME TypeOK, Threads, Paths, Tokens, Counts, Sent, Silence, Protocol,
           NEW t \in Thread, Step(t) \/ SpuriousWakeup(t)
    PROVE  Silence'
<1> DEFINE Shut(u) == \E a \in Thread : /\ a < u /\ Closed(a)
                                        /\ \A j \in Uchans : a < j /\ j < u => j \in joined
<1>1. joined \subseteq joined'
    BY JoinedGrows
<1>2. \A u \in Uchans : Shut(u) => Shut(u)'
    BY <1>1, ClosedStays
<1>3. Placed(t) /\ Ends(t)
    BY DEF Threads
<1>4. Null = 0 /\ 0 \notin Uchans /\ Uchans \subseteq Nat /\ Thread \subseteq Nat
    BY Constants
<1>5. \A u \in Uchans : Silent(u) => Silent(u)'
    BY SilentStays
<1> SUFFICES ASSUME NEW u \in Uchans, ReaderUp(u)'
             PROVE  Silent(u)' /\ (u \notin joined' \/ qnext'[u] # Null => Shut(u)')
    BY DEF Silence
<1>6. CASE ReaderUp(u)
  <2>1. Silent(u) /\ (u \notin joined \/ qnext[u] # Null => Shut(u))
    BY <1>6 DEF Silence
  <2>2. qnext'[u] # Null => qnext[u] # Null \/ u \notin joined
    <3>1. CASE Link(t)
        BY <3>1, LinkEffect DEF TypeOK
    <3>2. CASE ~Link(t)
        BY <3>2 DEF TypeOK, Step, Call, Close, Lock, SpuriousWakeup, InsertWait, RemoveWait,
            UnrefRead,
           Sleep, Insert, Remove, RemoveNext, Unlock, UnlockUnref, UnrefWrite, UnrefFree, fields
    <3> QED BY <3>1, <3>2
  <2> QED BY <1>1, <1>2, <1>5, <2>1, <2>2
<1>7. CASE Close(t) /\ op(t) = "close_in" /\ rd[t] = u
  <2>1. /\ t < u /\ Through(t, u) /\ rd'[t] = Null /\ qnxt[t] = Null /\ pc[t] = "idle"
        /\ todo[t] # <<>> /\ UNCHANGED <<qnxt, joined>>
    BY <1>3, <1>4, <1>7, CloseThread DEF Close, Paths, Through, history
  <2>2. HasIn(t) /\ t \notin joined
    BY <1>3, <1>4, <1>7 DEF HasIn, Ends
  <2>3. Len(todo[t]) \in Nat /\ Len(todo[t]) >= 1 /\ todo[t][1] = "close_in"
    BY <1>7, <2>1, ThreadTypes, CallFacts DEF op
  <2>4. Closing(t)
    BY <2>2, <2>3 DEF Closing
  <2>5. ASSUME NEW n, ToReceive(t, n) PROVE FALSE
    <3>1. PICK i \in 1..Len(todo[t]) : i = Len(todo[t]) + 1 - n
      <4>1. Len(todo[t]) + 1 - n \in 1..Len(todo[t])
        BY <2>3, <2>5 DEF ToReceive
      <4> QED BY <4>1
    <3>2. todo[t][i] = "remove" /\ 1 \in 1..Len(todo[t])
        BY <2>3, <2>5, <3>1 DEF ToReceive
    <3>3. 1 < i
        BY <2>3, <3>1, <3>2
    <3> QED BY <1>3, <2>3, <3>2, <3>3 DEF Ends, Reading
  <2>6. Silent(u)
    BY <2>1, <2>4, <2>5, Drained DEF Through
  <2>7. Closed(t)'
    BY <2>1, <2>2 DEF Closed, HasIn
  <2>8. Shut(u)'
    BY <1>1, <2>1, <2>7 DEF Through
  <2> QED BY <1>5, <2>6, <2>8
<1>8. CASE UnlockUnref(t) /\ op(t) = "remove" /\ rd[t] = u
  <2>1. qnxt[t] \in Uchans /\ UNCHANGED <<qnext, joined>>
    BY <1>3, <1>8, UnlockUnrefThread DEF UnlockUnref, TypeOK
  <2>2. /\ Through(t, u) /\ Through(t, qnxt[t]) /\ u < qnxt[t] /\ qnext[u] = Null
    BY <1>4, <1>8, <2>1 DEF Paths
  <2>3. u \in joined /\ queue[u] = <<>>
    BY <2>2 DEF Through
  <2>4. Silent(u)
    BY <2>3, JoinedCalls, Constants DEF Silent
  <2> QED BY <1>5, <2>1, <2>2, <2>3, <2>4
<1>9. CASE UnrefFree(t) /\ dead[t] \in Uchans /\ qnext[dead[t]] = u
  <2>1. PICK x \in Uchans : x = dead[t]
    BY <1>9
  <2>2. ReaderUp(x)
    <3>1. CASE t = x
      <4>1. seen[t] = 1
        BY <1>3, <1>9, ThreadTypes DEF UnrefFree, Placed
      <4>2. rfcnt[x] = 1 /\ WriterHas(x)
        BY <2>1, <3>1, <4>1 DEF Counts, WriterHas
      <4>3. ~ReaderHas(x)
        BY <4>2 DEF Counts
      <4> QED BY <4>3 DEF ReaderHas, ReaderUp, InHand
    <3>2. CASE t # x
      <4>1. InHand(t, x)
        BY <2>1, <3>2 DEF InHand
      <4>2. rd[t] # x /\ qnxt[t] # x /\ \A v \in Uchans : qnext[v] # x
        BY <2>1, <4>1 DEF Tokens
      <4>3. \A s \in Thread : s # t => ~InHand(s, x)
        BY <4>1 DEF Tokens
      <4> QED BY <4>2, <4>3 DEF ReaderUp, InHand
    <3> QED BY <3>1, <3>2
  <2>3. x \in joined /\ Through(x, u)
    BY <1>4, <1>9, <2>1 DEF Paths
  <2>4. Shut(x)
    BY <1>4, <1>9, <2>1, <2>2 DEF Silence
  <2>5. PICK a \in Thread : /\ a < x /\ Closed(a)
                            /\ \A j \in Uchans : a < j /\ j < x => j \in joined
    BY <2>4
  <2>6. a < u /\ \A j \in Uchans : a < j /\ j < u => j \in joined
    <3>1. x < u
        BY <2>3 DEF Through
    <3>2. a < u
        BY <1>4, <2>5, <3>1
    <3>3. ASSUME NEW j \in Uchans, a < j, j < u PROVE j \in joined
      <4>1. j < x \/ j = x \/ x < j
        BY <1>4
      <4> QED BY <2>3, <2>5, <3>3, <4>1 DEF Through
    <3> QED BY <3>2, <3>3
  <2>7. Closing(a) /\ \A n : ~ToReceive(a, n)
    BY <2>5, NoInCalls DEF Closed, Closing
  <2>8. Silent(u)
    BY <2>6, <2>7, Drained
  <2>9. Shut(u)
    BY <2>5, <2>6
  <2> QED BY <1>2, <1>5, <2>8, <2>9
<1> QED BY <1>6, <1>7, <1>8, <1>9, ReaderLeaves

-----------------------------------------------------------------------------
(* Protocol.                                                               *)

\* Calls that are left were there before.
LEMMA CallsLeft ==
    ASSUME TypeOK, Threads, NEW t \in Thread, Step(t) \/ SpuriousWakeup(t), NEW s \in Thread,
           NEW o, \E i \in 1..Len(todo'[s]) : todo'[s][i] = o
    PROVE  \E i \in 1..Len(todo[s]) : todo[s][i] = o
<1>1. todo'[s] = todo[s] \/ (todo[s] # <<>> /\ todo'[s] = Tail(todo[s]))
  <2>1. CASE s # t
    BY <2>1, OthersStay DEF SameThread
  <2>2. CASE s = t
    <3>1. CASE Unlock(t) \/ UnrefWrite(t) \/ UnrefFree(t)
        BY <2>2, <3>1, ThreadTypes DEF Unlock, UnrefWrite, UnrefFree, Unreffed, Returns, TypeOK,
            Threads, Placed
    <3>2. CASE ~(Unlock(t) \/ UnrefWrite(t) \/ UnrefFree(t))
        BY <2>2, <3>2 DEF Step, Call, Close, Lock, SpuriousWakeup, InsertWait, RemoveWait,
            UnrefRead,
            Sleep, Insert, Remove, Link, RemoveNext, UnlockUnref
    <3> QED BY <3>1, <3>2
  <2> QED BY <2>1, <2>2
<1>2. CASE todo[s] # <<>> /\ todo'[s] = Tail(todo[s])
  <2>1. /\ Len(todo[s]) \in Nat /\ Len(todo'[s]) = Len(todo[s]) - 1
        /\ \A i \in 1..Len(todo[s]) - 1 : todo'[s][i] = todo[s][i + 1]
    BY <1>2, ThreadTypes, CallFacts
  <2>2. PICK i \in 1..Len(todo'[s]) : todo'[s][i] = o
    OBVIOUS
  <2>3. i + 1 \in 1..Len(todo[s]) /\ todo[s][i + 1] = o
    BY <2>1, <2>2
  <2> QED BY <2>3
<1> QED BY <1>1, <1>2

\* Nobody closes or links who was not going to.
LEMMA ClosingBefore ==
    ASSUME TypeOK, Threads, NEW t \in Thread, Step(t) \/ SpuriousWakeup(t), NEW a \in Thread
    PROVE  /\ Closing(a)' => Closing(a)
           /\ Linking(a)' => Linking(a)
<1>1. Placed(t) /\ Ends(t)
    BY DEF Threads
<1>2. ASSUME Closing(a)' PROVE Closing(a)
  <2>1. a \notin joined /\ a \notin joined'
    BY <1>2, JoinedGrows DEF Closing
  <2>2. CASE \E i \in 1..Len(todo'[a]) : todo'[a][i] = "close_in"
    BY <2>1, <2>2, CallsLeft DEF Closing
  <2>3. CASE ~HasIn(a)
    BY <2>1, <2>3 DEF Closing
  <2>4. CASE HasIn(a) /\ ~HasIn(a)'
    <3>1. a = t
        BY <2>4, OthersStay DEF SameThread, HasIn
    <3>2. CASE Close(t)
      <4>1. op(t) = "close_in" /\ todo[t] # <<>>
        BY <1>1, <2>4, <3>1, <3>2, CloseThread DEF HasIn, Close
      <4>2. 1 \in 1..Len(todo[t]) /\ todo[t][1] = "close_in"
        BY <4>1, ThreadTypes, CallFacts DEF op
      <4> QED BY <2>1, <3>1, <4>2 DEF Closing
    <3>3. CASE UnlockUnref(t)
        BY <1>1, <2>4, <3>1, <3>3, UnlockUnrefThread DEF HasIn
    <3>4. CASE RemoveNext(t)
        BY <2>4, <3>1, <3>4, RemoveNextEffect DEF HasIn
    <3>5. CASE UnrefWrite(t) \/ UnrefFree(t)
        BY <2>4, <3>1, <3>5, UnreffedEffect DEF HasIn, TypeOK
    <3>6. CASE Link(t)
        BY <2>1, <3>1, <3>6 DEF Link
    <3> QED BY <2>4, <3>1, <3>2, <3>3, <3>4, <3>5, <3>6, QuietStep DEF Step, HasIn
  <2> QED BY <1>2, <2>2, <2>3, <2>4 DEF Closing
<1>3. ASSUME Linking(a)' PROVE Linking(a)
  <2>1. CASE \E i \in 1..Len(todo'[a]) : todo'[a][i] = "link"
    BY <2>1, CallsLeft DEF Linking
  <2>2. CASE a \in joined
    BY <2>2 DEF Linking
  <2>3. CASE a \in joined' /\ a \notin joined
    <3>1. Link(t) /\ a = t
        BY <2>3, JoinedGrows DEF Link
    <3>2. todo[t] # <<>> /\ op(t) = "link"
        BY <3>1, ActiveChan DEF Link, PC
    <3>3. 1 \in 1..Len(todo[t]) /\ todo[t][1] = "link"
        BY <3>2, ThreadTypes, CallFacts DEF op
    <3> QED BY <3>1, <3>3 DEF Linking
  <2> QED BY <1>3, <2>1, <2>2, <2>3 DEF Linking
<1> QED BY <1>2, <1>3

LEMMA ProtocolStep ==
    ASSUME TypeOK, Threads, Paths, Sent, Protocol, NEW t \in Thread, Step(t) \/ SpuriousWakeup(t)
    PROVE  Protocol'
<1> SUFFICES ASSUME NEW a \in Thread, NEW k \in Uchans, a < k, Closing(a)',
                    \A j \in Uchans : a < j /\ j < k => Linking(j)'
             PROVE  Cardinality(Due(a, k)') <= Cardinality(Expected(a, k)')
    BY DEF Protocol
<1> DEFINE M == Thread \X (1..MaxCalls)
<1>1. Closing(a) /\ \A j \in Uchans : a < j /\ j < k => Linking(j)
    BY ClosingBefore, Constants
<1>2. Cardinality(Due(a, k)) <= Cardinality(Expected(a, k))
    BY <1>1 DEF Protocol
<1>3. \A S : S \subseteq M => IsFiniteSet(S) /\ Cardinality(S) \in Nat
    BY MessagesFinite, FS_Subset, FS_CardinalityType
<1>4. /\ Due(a, k) \subseteq M /\ Expected(a, k) \subseteq M
      /\ Due(a, k)' \subseteq M /\ Expected(a, k)' \subseteq M
    BY DEF Due, Expected
<1>5. Thread \subseteq Nat /\ Uchans \subseteq Thread /\ 0 \notin Uchans
      /\ \A s \in Thread : s = 0 \/ s \in Uchans
    BY Constants
<1>6. \A m \in M : a < m[1] => m[1] \in Uchans
  <2>1. ASSUME NEW s \in Thread, a < s PROVE s \in Uchans
    BY <1>5, <2>1
  <2> QED BY <2>1
<1>7. CASE ~Insert(t) /\ ~Remove(t)
  <2>1. queue' = queue
    BY <1>7, QueueStays
  <2>2. \A m \in M : /\ InQueue(m[1], m[2])' <=> InQueue(m[1], m[2])
                     /\ ToSend(m[1], m[2])' <=> ToSend(m[1], m[2])
                     /\ ToReceive(m[1], m[2])' <=> ToReceive(m[1], m[2])
    BY <1>7, <2>1, CallsStep DEF InQueue
  <2>3. Due(a, k)' = Due(a, k) /\ Expected(a, k)' = Expected(a, k)
    BY <2>2 DEF Due, Expected
  <2> QED BY <1>2, <2>3
<1>8. CASE Insert(t)
  <2>1. /\ t \in Uchans /\ ToSend(t, Len(todo[t]))
        /\ \A s \in Thread : \A n :
                /\ ToSend(s, n)' <=> ToSend(s, n) /\ <<s, n>> # Message(t)
                /\ ToReceive(s, n)' <=> ToReceive(s, n)
                /\ s \in Uchans => (InQueue(s, n)' <=> InQueue(s, n) \/ <<s, n>> = Message(t))
    BY <1>8, InsertCalls
  <2>2. \A m \in M : ToReceive(m[1], m[2])' <=> ToReceive(m[1], m[2])
    BY <2>1
  <2>3. ASSUME NEW m \in M, a < m[1]
        PROVE  InQueue(m[1], m[2])' \/ ToSend(m[1], m[2])'
                  <=> InQueue(m[1], m[2]) \/ ToSend(m[1], m[2])
    <3>1. PICK s \in Thread, n \in 1..MaxCalls : m = <<s, n>>
        OBVIOUS
    <3>2. s \in Uchans
        BY <1>6, <2>3, <3>1
    <3>3. <<s, n>> = Message(t) => ToSend(s, n)
        BY <2>1 DEF Message
    <3>4. InQueue(s, n)' \/ ToSend(s, n)' <=> InQueue(s, n) \/ ToSend(s, n)
        BY <2>1, <3>2, <3>3
    <3> QED BY <3>1, <3>4
  <2>4. Expected(a, k)' = Expected(a, k)
    BY <2>2 DEF Expected
  <2>5. Due(a, k)' = Due(a, k)
    BY <2>3 DEF Due
  <2> QED BY <1>2, <2>4, <2>5
<1>9. CASE Remove(t)
  <2>1. PICK u \in Uchans, h \in 1..MaxCalls :
              /\ u = rd[t] /\ todo[t] # <<>> /\ t \notin joined
              /\ ToReceive(t, Len(todo[t])) /\ InQueue(u, h) /\ ~ToSend(u, h)
              /\ \A s \in Thread : \A n :
                    /\ ToSend(s, n)' <=> ToSend(s, n)
                    /\ ToReceive(s, n)' <=> ToReceive(s, n) /\ <<s, n>> # Message(t)
                    /\ s \in Uchans => (InQueue(s, n)' <=> InQueue(s, n) /\ <<s, n>> # <<u, h>>)
    BY <1>9, RemoveCalls
  <2>2. /\ t < u /\ \A j \in Uchans : t < j /\ j < u => j \in joined /\ queue[j] = <<>>
    BY <1>5, <2>1, Constants DEF Paths, Through
  <2>3. ASSUME NEW m \in M, a < m[1]
        PROVE  InQueue(m[1], m[2])' \/ ToSend(m[1], m[2])'
                  <=> (InQueue(m[1], m[2]) \/ ToSend(m[1], m[2])) /\ m # <<u, h>>
    <3>1. PICK s \in Thread, n \in 1..MaxCalls : m = <<s, n>>
        OBVIOUS
    <3>2. s \in Uchans
        BY <1>6, <2>3, <3>1
    <3>3. <<s, n>> = <<u, h>> => ~ToSend(s, n)
        BY <2>1
    <3>4. InQueue(s, n)' \/ ToSend(s, n)' <=> (InQueue(s, n) \/ ToSend(s, n)) /\ <<s, n>> # <<u, h>>
        BY <2>1, <3>2, <3>3
    <3> QED BY <3>1, <3>4
  <2>4. Due(a, k)' = Due(a, k) \ {<<u, h>>}
    BY <2>3 DEF Due
  <2>5. Expected(a, k)' = Expected(a, k) \ {Message(t)}
    BY <2>1 DEF Expected
  <2>6. Message(t) \in M /\ Message(t)[1] = t /\ ToReceive(t, Message(t)[2])
    <3>1. Len(todo[t]) \in 1..MaxCalls
        BY <2>1, CallFacts, ThreadTypes, Constants DEF Threads, Placed
    <3> QED BY <2>1, <3>1 DEF Message
  <2>7. \A S : S \subseteq M => \A x : x \in S => Cardinality(S \ {x}) = Cardinality(S) - 1
    BY <1>3, FS_RemoveElement
  <2>8. CASE ~(a <= t /\ t < k)
    <3>1. Expected(a, k)' = Expected(a, k)
        BY <2>5, <2>6, <2>8 DEF Expected
    <3>2. Cardinality(Due(a, k)') <= Cardinality(Due(a, k))
        BY <1>3, <1>4, <2>4, FS_Subset
    <3> QED BY <1>2, <1>3, <1>4, <3>1, <3>2
  <2>9. CASE a <= t /\ t < k /\ u <= k
    <3>1. Message(t) \in Expected(a, k)
        BY <2>6, <2>9 DEF Expected
    <3>2. <<u, h>> \in Due(a, k)
      <4>1. a < u
        BY <1>5, <2>2, <2>9
      <4> QED BY <1>5, <2>1, <2>9, <4>1 DEF Due
    <3>3. /\ Cardinality(Due(a, k)') = Cardinality(Due(a, k)) - 1
          /\ Cardinality(Expected(a, k)') = Cardinality(Expected(a, k)) - 1
        BY <1>4, <2>4, <2>5, <2>7, <3>1, <3>2
    <3> QED BY <1>2, <1>3, <1>4, <3>3
  <2>10. CASE a <= t /\ t < k /\ k < u
    <3>1. ASSUME NEW m \in Due(a, k)' PROVE m \in Due(a, t)
      <4>1. m \in M /\ a < m[1] /\ m[1] <= k /\ (InQueue(m[1], m[2]) \/ ToSend(m[1], m[2]))
        BY <2>4 DEF Due
      <4>2. PICK s \in Uchans, n \in 1..MaxCalls : m = <<s, n>>
        BY <1>6, <4>1
      <4>3. ~(t < s)
        <5>1. SUFFICES ASSUME t < s PROVE FALSE
            OBVIOUS
        <5>2. s < u
            BY <1>5, <2>10, <4>1, <4>2
        <5>3. s \in joined /\ queue[s] = <<>>
            BY <2>2, <5>1, <5>2
        <5>4. ~ToSend(s, n)
            BY <1>5, <5>3, JoinedCalls
        <5>5. ~InQueue(s, n)
            BY <5>3, EmptySeq DEF InQueue
        <5> QED BY <4>1, <4>2, <5>4, <5>5
      <4>4. s <= t
        BY <1>5, <4>3
      <4> QED BY <4>1, <4>2, <4>4 DEF Due
    <3>2. CASE a = t
      <4>1. ASSUME NEW m \in Due(a, t) PROVE FALSE
        <5>1. m \in M /\ a < m[1] /\ m[1] <= t
            BY DEF Due
        <5>2. PICK s \in Thread : s = m[1]
            BY <5>1
        <5> QED BY <1>5, <3>2, <5>1, <5>2
      <4>2. Due(a, k)' = {}
        BY <3>1, <4>1
      <4>3. Cardinality(Due(a, k)') = 0
        BY <4>2, FS_EmptySet
      <4> QED BY <1>3, <1>4, <4>3
    <3>3. CASE a # t
      <4>1. a < t /\ t \in Uchans
        BY <1>5, <2>10, <3>3
      <4>2. Cardinality(Due(a, t)) <= Cardinality(Expected(a, t))
        <5>1. \A j \in Uchans : a < j /\ j < t => Linking(j)
            BY <1>1, <1>5, <2>10
        <5> QED BY <1>1, <4>1, <5>1 DEF Protocol
      <4>3. Expected(a, t) \subseteq Expected(a, k)'
        <5>1. ASSUME NEW m \in Expected(a, t) PROVE m \in Expected(a, k) /\ m # Message(t)
          <6>1. m \in M /\ a <= m[1] /\ m[1] < t /\ ToReceive(m[1], m[2])
            BY DEF Expected
          <6>2. PICK s \in Thread : s = m[1]
            BY <6>1
          <6>3. s < k /\ s # t
            BY <1>5, <2>10, <6>1, <6>2
          <6> QED BY <2>6, <6>1, <6>2, <6>3 DEF Expected
        <5> QED BY <2>5, <5>1
      <4>4. Cardinality(Expected(a, t)) <= Cardinality(Expected(a, k)')
        BY <1>3, <1>4, <4>3, FS_Subset
      <4>5. Due(a, t) \subseteq M /\ Expected(a, t) \subseteq M
        BY DEF Due, Expected
      <4>6. Cardinality(Due(a, k)') <= Cardinality(Due(a, t))
        BY <1>3, <3>1, <4>5, FS_Subset
      <4> QED BY <1>3, <1>4, <4>2, <4>4, <4>5, <4>6
    <3> QED BY <3>2, <3>3
  <2> QED BY <1>5, <2>8, <2>9, <2>10
<1> QED BY <1>7, <1>8, <1>9

-----------------------------------------------------------------------------
(* The invariant holds.                                                    *)

LEMMA InitUchanInv ==
    ASSUME Init PROVE UchanInv
<1>1. /\ queue = [u \in Uchans |-> <<>>] /\ qnext = [u \in Uchans |-> Null]
      /\ mutex = [u \in Uchans |-> NoThread] /\ rfcnt = [u \in Uchans |-> 2] /\ freed = {}
      /\ rd = [t \in Thread |-> IF t < N THEN t + 1 ELSE Null] /\ wr = [t \in Thread |-> t]
      /\ pc = [t \in Thread |-> "idle"] /\ todo \in Programs
      /\ qnxt = [t \in Thread |-> Null] /\ dead = [t \in Thread |-> Null]
      /\ seen = [t \in Thread |-> 0] /\ rcvd = [t \in Thread |-> <<>>] /\ joined = {}
    BY DEF Init
<1>2. /\ todo \in [Thread -> Seq(Op)] /\ Linear(todo) /\ Agreed(todo)
      /\ \A t \in Thread : Len(todo[t]) <= MaxCalls
    BY <1>1, SessionsAssumption DEF UchanAssumption
<1>3. /\ N \in Nat \ {0} /\ Cap \in Nat \ {0} /\ MaxCalls \in Nat
      /\ Thread = 0..N /\ Uchans = 1..N /\ Null = 0
    BY Constants DEF Thread, Uchans, Null
<1>4. ASSUME NEW t \in Thread
      PROVE  /\ Len(todo[t]) \in Nat /\ DOMAIN todo[t] = 1..Len(todo[t])
             /\ rd[t] = IF t < N THEN t + 1 ELSE 0
             /\ wr[t] = t /\ qnxt[t] = 0 /\ dead[t] = 0 /\ pc[t] = "idle" /\ seen[t] = 0
  <2>1. Len(todo[t]) \in Nat /\ DOMAIN todo[t] = 1..Len(todo[t])
    BY <1>2, LenProperties
  <2> QED BY <1>1, <1>3, <2>1
<1>5. TypeOK
  <2>1. <<>> \in Seq(Messages) /\ Len(<<>>) = 0
    BY EmptySeq
  <2>2. queue \in [Uchans -> Seq(Messages)] /\ \A u \in Uchans : Len(queue[u]) <= Cap
    BY <1>1, <1>3, <2>1
  <2>3. rd \in [Thread -> Uchans \cup {Null}] /\ wr \in [Thread -> Uchans \cup {Null}]
    BY <1>1, <1>3
  <2>4. rcvd \in [Thread -> Seq(Messages)]
    BY <1>1, <2>1
  <2>5. /\ qnext \in [Uchans -> Uchans \cup {Null}] /\ rfcnt \in [Uchans -> 1..2]
        /\ mutex \in [Uchans -> Thread \cup {NoThread}] /\ freed \subseteq Uchans
        /\ pc \in [Thread -> PC] /\ seen \in [Thread -> 0..2] /\ joined \subseteq Thread
        /\ qnxt \in [Thread -> Uchans \cup {Null}] /\ dead \in [Thread -> Uchans \cup {Null}]
    BY <1>1 DEF PC
  <2> QED BY <1>2, <2>2, <2>3, <2>4, <2>5 DEF TypeOK
<1>6. ASSUME NEW t \in Thread PROVE Placed(t) /\ Ends(t)
  <2>1. Placed(t)
    BY <1>2, <1>3, <1>4 DEF Placed
  <2>2. ASSUME NEW i \in 1..Len(todo[t])
        PROVE  /\ todo[t][i] \in Reading => HasIn(t)
               /\ todo[t][i] \in Writing => wr[t] = t /\ t # Null
    <3>1. i \in DOMAIN todo[t]
        BY <1>4
    <3>2. t = N => todo[t][i] \notin Reading
        BY <1>2, <3>1 DEF Linear
    <3>3. t = 0 => todo[t][i] \notin Writing
        BY <1>2, <3>1 DEF Linear
    <3>4. t # N => HasIn(t)
        BY <1>3, <1>4 DEF HasIn
    <3> QED BY <1>3, <1>4, <3>2, <3>3, <3>4
  <2>3. \A i, j \in 1..Len(todo[t]) : i < j =>
          /\ todo[t][i] \in {"link", "close_in"} => todo[t][j] \notin Reading
          /\ todo[t][i] \in {"link", "close_out"} => todo[t][j] \notin Writing
    BY <1>2, <1>4 DEF Linear
  <2>4. Ends(t)
    BY <1>1, <1>4, <2>2, <2>3 DEF Ends
  <2> QED BY <2>1, <2>4
<1>7. Threads
    BY <1>6 DEF Threads
<1>8. \A u \in Uchans : qnext[u] = 0 /\ queue[u] = <<>> /\ rfcnt[u] = 2
    BY <1>1, <1>3
<1>9. Paths
  <2>1. ASSUME NEW t \in Thread, rd[t] # 0 PROVE Through(t, rd[t])
    BY <1>3, <1>4, <2>1 DEF Through
  <2> QED BY <1>3, <1>4, <1>8, <2>1 DEF Paths
<1>10. Tokens
  <2>1. \A t \in Thread, u \in Uchans : InHand(t, u) => rd[t] = u /\ u = t + 1
    BY <1>3, <1>4 DEF InHand
  <2>2. \A t, s \in Thread, u \in Uchans : InHand(t, u) /\ InHand(s, u) => t = s
    BY <1>3, <2>1
  <2>3. ASSUME NEW t \in Thread, NEW u \in Uchans
        PROVE  /\ ~(rd[t] = u /\ qnxt[t] = u) /\ ~(rd[t] = u /\ dead[t] = u)
               /\ ~(qnxt[t] = u /\ dead[t] = u)
               /\ \A v \in Uchans : qnext[v] = u => ~InHand(t, u)
               /\ dead[t] = u => t <= u /\ (t = u => wr[t] = Null)
    <3>1. u # 0 /\ qnxt[t] = 0 /\ dead[t] = 0
        BY <1>3, <1>4
    <3> QED BY <1>8, <3>1
  <2>4. \A v, w \in Uchans : qnext[v] # Null /\ qnext[v] = qnext[w] => v = w
    BY <1>3, <1>8
  <2> QED BY <2>2, <2>3, <2>4 DEF Tokens
<1>11. Counts
    BY <1>1, <1>4, <1>8 DEF Counts
<1>12. Sent
  <2>1. \A u \in Uchans : 1..Len(queue[u]) = {}
    BY <1>8, EmptySeq
  <2> QED BY <2>1 DEF Sent
<1>13. ASSUME NEW u \in Uchans PROVE ~ReaderUp(u)
  <2>1. u - 1 \in Thread /\ u - 1 < N /\ (u - 1) + 1 = u
    BY <1>3
  <2>2. rd[u - 1] = u
    BY <1>4, <2>1
  <2> QED BY <2>1, <2>2 DEF ReaderUp
<1>14. ASSUME NEW a \in Thread, NEW k \in Uchans, a < k, Closing(a),
              \A j \in Uchans : a < j /\ j < k => Linking(j)
       PROVE  Cardinality(Due(a, k)) <= Cardinality(Expected(a, k))
  <2>1. \E i \in DOMAIN todo[a] : todo[a][i] = "close_in"
    <3>1. HasIn(a)
        BY <1>3, <1>4, <1>14 DEF HasIn
    <3> QED BY <1>4, <1>14, <3>1 DEF Closing
  <2>2. ASSUME NEW t \in a + 1..k - 1 PROVE \E i \in DOMAIN todo[t] : todo[t][i] = "link"
    <3>1. t \in Uchans /\ a < t /\ t < k /\ t \in Thread
        BY <1>3
    <3> QED BY <1>1, <1>4, <1>14, <3>1 DEF Linking
  <2>3. Cardinality(Calls(todo, a + 1..k, "insert")) <= Cardinality(Calls(todo, a..k - 1, "remove"))
    BY <1>2, <1>14, <2>1, <2>2 DEF Agreed
  <2>4. ASSUME NEW s \in Thread, NEW n \in 1..MaxCalls
        PROVE  /\ ToSend(s, n) <=> n <= Len(todo[s]) /\ todo[s][Len(todo[s]) + 1 - n] = "insert"
               /\ ToReceive(s, n) <=> n <= Len(todo[s]) /\ todo[s][Len(todo[s]) + 1 - n] = "remove"
               /\ s \in Uchans => ~InQueue(s, n)
    <3>1. pc[s] = "idle" /\ (n \in 1..Len(todo[s]) <=> n <= Len(todo[s]))
        BY <1>3, <1>4
    <3>2. s \in Uchans => ~InQueue(s, n)
        BY <1>8, EmptySeq DEF InQueue
    <3> QED BY <3>1, <3>2 DEF ToSend, ToReceive
  <2>5. Due(a, k) = Calls(todo, a + 1..k, "insert")
    <3>1. ASSUME NEW m \in Thread \X (1..MaxCalls)
          PROVE  m \in Due(a, k) <=> m \in Calls(todo, a + 1..k, "insert")
      <4>1. PICK s \in Thread, n \in 1..MaxCalls : m = <<s, n>>
        OBVIOUS
      <4>2. a < s /\ s <= k <=> s \in a + 1..k
        BY <1>3
      <4>3. s \in a + 1..k => s \in Uchans
        BY <1>3
      <4> QED BY <2>4, <4>1, <4>2, <4>3 DEF Due, Calls
    <3>2. Due(a, k) \subseteq Thread \X (1..MaxCalls)
        BY DEF Due
    <3>3. Calls(todo, a + 1..k, "insert") \subseteq Thread \X (1..MaxCalls)
      <4>1. a + 1..k \subseteq Thread
        BY <1>3
      <4> QED BY <4>1 DEF Calls
    <3> QED BY <3>1, <3>2, <3>3
  <2>6. Expected(a, k) = Calls(todo, a..k - 1, "remove")
    <3>1. ASSUME NEW m \in Thread \X (1..MaxCalls)
          PROVE  m \in Expected(a, k) <=> m \in Calls(todo, a..k - 1, "remove")
      <4>1. PICK s \in Thread, n \in 1..MaxCalls : m = <<s, n>>
        OBVIOUS
      <4>2. a <= s /\ s < k <=> s \in a..k - 1
        BY <1>3
      <4> QED BY <2>4, <4>1, <4>2 DEF Expected, Calls
    <3>2. Expected(a, k) \subseteq Thread \X (1..MaxCalls)
        BY DEF Expected
    <3>3. Calls(todo, a..k - 1, "remove") \subseteq Thread \X (1..MaxCalls)
      <4>1. a..k - 1 \subseteq Thread
        BY <1>3
      <4> QED BY <4>1 DEF Calls
    <3> QED BY <3>1, <3>2, <3>3
  <2> QED BY <2>3, <2>5, <2>6
<1> QED BY <1>5, <1>7, <1>9, <1>10, <1>11, <1>12, <1>13, <1>14 DEF UchanInv, Silence, Protocol

LEMMA UchanInvStep ==
    ASSUME UchanInv, [Next]_vars PROVE UchanInv'
<1>1. ASSUME NEW t \in Thread, Step(t) \/ SpuriousWakeup(t) PROVE UchanInv'
    BY <1>1, TypeStep, ThreadsStep, PathsStep, TokensStep, CountsStep, SentStep, SilenceStep,
       ProtocolStep DEF UchanInv
<1>2. CASE UNCHANGED vars
  <2>1. UNCHANGED <<queue, qnext, mutex, rfcnt, freed, rd, wr, pc, todo, qnxt, dead, seen, rcvd, joined>>
    BY <1>2 DEF vars, fields, history
  <2>2. TypeOK' /\ Threads'
    BY <2>1 DEF UchanInv, TypeOK, Threads, Placed, Ends, HasIn, Begun, Ahead, op
  <2>3. Paths' /\ Tokens' /\ Counts'
    BY <2>1 DEF UchanInv, Paths, Through, Tokens, InHand, Counts, WriterHas, ReaderHas
  <2>4. Sent' /\ Silence'
    BY <2>1 DEF UchanInv, Sent, op, Silence, ReaderUp, Silent, ToSend, Closed, HasIn
  <2>5. Protocol'
    <3>1. \A a, k : Due(a, k)' = Due(a, k) /\ Expected(a, k)' = Expected(a, k)
        BY <2>1 DEF Due, Expected, InQueue, ToSend, ToReceive
    <3>2. \A a : (Closing(a)' <=> Closing(a)) /\ (Linking(a)' <=> Linking(a))
        BY <2>1 DEF Closing, HasIn, Linking
    <3> QED BY <3>1, <3>2 DEF UchanInv, Protocol
  <2> QED BY <2>2, <2>3, <2>4, <2>5 DEF UchanInv
<1> QED BY <1>1, <1>2 DEF Next

\* Nothing is used after it was freed, and what is freed is empty: the
\* reader's and the writer's reference are both given up by then.
LEMMA FreedSafelyFollows ==
    ASSUME UchanInv PROVE FreedSafely
<1>1. TypeOK /\ Threads /\ Counts /\ Silence /\ freed \subseteq Uchans
    BY DEF UchanInv, TypeOK
<1>2. \A u \in freed : u \in Uchans /\ ~WriterHas(u) /\ ~ReaderHas(u) /\ u # 0
    BY <1>1, Constants DEF Counts
<1>3. ASSUME NEW t \in Thread
      PROVE  /\ {rd[t], wr[t], qnxt[t], dead[t]} \cap freed = {}
             /\ pc[t] \in PC \ {"idle", "unref", "counted"} => chan(t) # Null
  <2>1. wr[t] \in {t, Null} /\ Null = 0
    BY <1>1, Constants DEF Threads, Ends
  <2>2. ASSUME NEW u \in freed PROVE rd[t] # u /\ qnxt[t] # u /\ dead[t] # u /\ wr[t] # u
    <3>1. \A s \in Thread : ~InHand(s, u)
        BY <1>2 DEF ReaderHas
    <3>2. wr[u] # u /\ dead[u] # u /\ u # 0
        BY <1>2 DEF WriterHas
    <3>3. dead[t] # u
        BY <3>1, <3>2 DEF InHand
    <3> QED BY <2>1, <3>1, <3>2, <3>3 DEF InHand
  <2>3. pc[t] \in PC \ {"idle", "unref", "counted"} => chan(t) # Null
    BY <1>1, ActiveChan, Constants
  <2> QED BY <2>2, <2>3
<1>4. ASSUME NEW u \in Uchans
      PROVE  IF u \in freed THEN queue[u] = <<>> ELSE qnext[u] \notin freed
  <2>1. CASE u \in freed
    <3>1. ReaderUp(u)
        BY <1>2, <2>1 DEF ReaderHas, ReaderUp, InHand
    <3> QED BY <1>1, <2>1, <3>1 DEF Silence, Silent
  <2>2. qnext[u] \notin freed
    BY <1>2 DEF ReaderHas
  <2> QED BY <2>1, <2>2
<1> QED BY <1>3, <1>4 DEF FreedSafely

LEMMA MCStep == [MCNext]_mcvars => [Next]_vars
BY DEF MCNext, mcvars, uchan

\* For every number of uchans and threads and for all programs: whoever is
\* inside a call for a uchan finds it in memory, no pointer leads to one that
\* was freed, and what is freed is nil (the assertion of queue_free_exn).
THEOREM FreedSafelyHolds == MCSpec => []FreedSafely
<1>1. MCInit => UchanInv
    BY InitUchanInv DEF MCInit
<1>2. UchanInv /\ [MCNext]_mcvars => UchanInv'
    BY MCStep, UchanInvStep
<1>3. UchanInv => FreedSafely
    BY FreedSafelyFollows
<1> QED BY <1>1, <1>2, <1>3, PTL DEF MCSpec

-----------------------------------------------------------------------------
(* The wire.                                                               *)

LEMMA WireStep ==
    ASSUME UchanInv, [Next]_vars PROVE [W!Next]_(W!vars)
<1>1. TypeOK /\ Threads /\ Paths
    BY DEF UchanInv
<1>2. /\ N \in Nat /\ Thread = 0..N /\ Uchans = 1..N /\ Null = 0
    BY Constants DEF Thread, Uchans
<1>3. CASE UNCHANGED vars
    BY <1>3 DEF vars, fields, history, W!vars
<1>4. ASSUME NEW t \in Thread, Step(t) \/ SpuriousWakeup(t) PROVE [W!Next]_(W!vars)
  <2>1. CASE Insert(t)
    <3>1. /\ wr[t] = t /\ t \in 1..N /\ t \notin joined /\ todo[t] # <<>>
        BY <1>1, <1>2, <2>1, ActiveChan DEF Insert, PC
    <3>2. Message(t) \in Messages
        BY <1>1, <1>2, <3>1, MessageTypes
    <3>3. W!Insert(t, Message(t))
        BY <2>1, <3>1 DEF Insert, W!Insert, history
    <3> QED BY <3>1, <3>2, <3>3 DEF W!Next
  <2>2. CASE Remove(t)
    <3>1. rd[t] \in Uchans /\ t \notin joined
        BY <1>1, <2>2, ActiveChan DEF Remove, PC
    <3>2. Through(t, rd[t])
        BY <1>1, <1>2, <3>1 DEF Paths
    <3>3. t \in 0..N - 1 /\ rd[t] \in t + 1..N
        BY <1>2, <3>1, <3>2 DEF Through
    <3>4. \A j \in t + 1..rd[t] - 1 : j \in joined /\ queue[j] = <<>>
        BY <1>2, <3>1, <3>2 DEF Through
    <3>5. W!Remove(t, rd[t])
        BY <2>2, <3>1, <3>4 DEF Remove, W!Remove
    <3> QED BY <3>3, <3>5 DEF W!Next
  <2>3. CASE Link(t)
    <3>1. t \in Uchans /\ rd[t] \in Uchans /\ t \notin joined
        BY <1>1, <2>3, LinkEffect
    <3>2. t < rd[t]
        BY <1>1, <1>2, <3>1 DEF Paths, Through
    <3>3. t \in 1..N - 1
        BY <1>2, <3>1, <3>2
    <3>4. W!Link(t)
        BY <2>3, <3>1 DEF Link, W!Link
    <3> QED BY <3>3, <3>4 DEF W!Next
  <2>4. CASE ~Insert(t) /\ ~Remove(t) /\ ~Link(t)
    <3>1. UNCHANGED <<queue, joined, rcvd>>
        BY <1>4, <2>4 DEF Step, Call, Close, Lock, SpuriousWakeup, InsertWait, RemoveWait,
            UnrefRead,
           Sleep, RemoveNext, Unlock, UnlockUnref, UnrefWrite, UnrefFree, fields, history
    <3> QED BY <3>1 DEF W!vars
  <2> QED BY <2>1, <2>2, <2>3, <2>4
<1> QED BY <1>3, <1>4 DEF Next

\* Uchan implements Wire: links neither lose nor duplicate nor reorder
\* messages, for every number of uchans and all programs.
THEOREM WireImplemented == MCSpec => ImplementsWire
<1>1. MCInit => UchanInv /\ W!Init
  <2>1. ASSUME MCInit PROVE W!Init
    BY <2>1 DEF MCInit, Init, W!Init, Uchans, Thread
  <2> QED BY <2>1, InitUchanInv DEF MCInit
<1>2. UchanInv /\ [MCNext]_mcvars => UchanInv' /\ [W!Next]_(W!vars)
    BY MCStep, UchanInvStep, WireStep
<1> QED BY <1>1, <1>2, PTL DEF MCSpec, ImplementsWire, W!Spec

-----------------------------------------------------------------------------
(* Counts, when unrefs of a uchan do not overlap.                          *)

Refs(u) == (IF WriterHas(u) THEN 1 ELSE 0) + (IF ReaderHas(u) THEN 1 ELSE 0)

\* A count is that of the references, and nobody has read an old one.
Exact ==
    /\ \A u \in Uchans : u \notin freed => rfcnt[u] = Refs(u)
    /\ \A t \in Thread : seen[t] # 0 => seen[t] = rfcnt[dead[t]] /\ dead[t] \notin freed

SerialInv == use = "serial" => Serial /\ Exact

\* Only uchan_unref gives a reference up, and one only.
LEMMA HasKept ==
    ASSUME TypeOK, Threads, Paths, Tokens, NEW t \in Thread, Step(t) \/ SpuriousWakeup(t),
           NEW u \in Uchans
    PROVE  /\ ~(UnrefWrite(t) \/ UnrefFree(t)) \/ dead[t] # u \/ t # u =>
                 (WriterHas(u) => WriterHas(u)')
           /\ ~(UnrefWrite(t) \/ UnrefFree(t)) \/ dead[t] # u \/ t = u =>
                 (ReaderHas(u) => ReaderHas(u)')
<1>1. Placed(t) /\ Ends(t)
    BY DEF Threads
<1>2. \A s \in Thread : s # t =>
          /\ rd'[s] = rd[s] /\ wr'[s] = wr[s] /\ qnxt'[s] = qnxt[s] /\ dead'[s] = dead[s]
    BY OthersStay DEF SameThread
<1>3. /\ t \in Nat /\ Uchans \subseteq Nat /\ 0 \notin Uchans /\ Null = 0 /\ u \in Nat /\ u # 0
      /\ u \in Thread
    BY Constants
<1>4. /\ rd[t] # 0 => t < rd[t]
      /\ \A v \in Uchans : qnext[v] # 0 => v < qnext[v]
    BY <1>3 DEF Paths, Through
<1>5. CASE \/ Call(t) \/ Lock(t) \/ InsertWait(t) \/ RemoveWait(t) \/ SpuriousWakeup(t)
           \/ Insert(t) \/ Remove(t) \/ Unlock(t) \/ UnrefRead(t)
  <2>1. UNCHANGED <<rd, wr, qnxt, dead, qnext>>
    BY <1>5, QuietStep
  <2> QED BY <2>1 DEF WriterHas, ReaderHas, InHand
<1>6. CASE Close(t) \/ UnlockUnref(t)
  <2>1. qnext' = qnext /\ dead[t] = Null /\ qnxt'[t] = qnxt[t]
    BY <1>1, <1>6 DEF Close, UnlockUnref, fields, Placed
  <2>2. \/ rd[t] # Null /\ dead'[t] = rd[t] /\ rd'[t] = Null /\ wr'[t] = wr[t]
        \/ t # Null /\ dead'[t] = t /\ wr[t] = t /\ wr'[t] = Null /\ rd'[t] = rd[t]
    <3>1. CASE Close(t)
        BY <1>1, <3>1, CloseThread DEF Close
    <3>2. CASE UnlockUnref(t)
        BY <1>1, <3>2, UnlockUnrefThread
    <3> QED BY <1>6, <3>1, <3>2
  <2>3. rd[t] = u => t # u
    BY <1>3, <1>4
  <2>4. InHand(t, u) => InHand(t, u)'
    BY <1>3, <2>1, <2>2, <2>3 DEF InHand
  <2>5. WriterHas(u) => WriterHas(u)'
    BY <1>2, <1>3, <2>1, <2>2 DEF WriterHas
  <2>6. \A s \in Thread : InHand(s, u) => InHand(s, u)'
    BY <1>2, <2>4 DEF InHand
  <2> QED BY <2>1, <2>5, <2>6 DEF ReaderHas
<1>7. CASE RemoveNext(t)
  <2>1. PICK x \in Uchans, y \in Uchans :
              /\ rd[t] = x /\ qnext[x] = y /\ qnxt[t] = Null
              /\ qnxt' = [qnxt EXCEPT ![t] = y]
              /\ qnext' = [qnext EXCEPT ![x] = Null]
              /\ UNCHANGED <<rd, wr, dead>>
    BY <1>7, RemoveNextEffect
  <2>2. qnxt'[t] = y /\ \A v \in Uchans : v # x => qnext'[v] = qnext[v]
    BY <2>1 DEF TypeOK
  <2>3. \A s \in Thread : InHand(s, u) => InHand(s, u)'
    BY <1>2, <1>3, <2>1 DEF InHand
  <2>4. (\E v \in Uchans : qnext[v] = u) => InHand(t, u)' \/ \E v \in Uchans : qnext'[v] = u
    BY <2>1, <2>2 DEF InHand
  <2> QED BY <2>1, <2>3, <2>4 DEF WriterHas, ReaderHas
<1>8. CASE Link(t)
  <2>1. /\ t \in Uchans /\ qnext[t] = Null /\ qnxt[t] = Null /\ dead[t] = Null
        /\ qnext'[t] = rd[t] /\ \A v \in Uchans : v # t => qnext'[v] = qnext[v]
        /\ UNCHANGED <<wr, qnxt, dead>>
    BY <1>8, LinkEffect DEF TypeOK
  <2>2. ASSUME NEW s \in Thread, InHand(s, u)
        PROVE  InHand(s, u)' \/ \E v \in Uchans : qnext'[v] = u
    <3>1. CASE s = t
        BY <1>3, <2>1, <2>2, <3>1 DEF InHand
    <3>2. CASE s # t
        BY <1>2, <2>2, <3>2 DEF InHand
    <3> QED BY <3>1, <3>2
  <2>3. \A v \in Uchans : qnext[v] = u => qnext'[v] = u
    BY <1>3, <2>1
  <2> QED BY <2>1, <2>2, <2>3 DEF WriterHas, ReaderHas
<1>9. CASE UnrefWrite(t) \/ UnrefFree(t)
  <2>1. PICK x \in Uchans :
              /\ dead[t] = x /\ UNCHANGED wr
              /\ \/ /\ qnxt[t] # Null /\ rd[t] = Null
                    /\ rd' = [rd EXCEPT ![t] = qnxt[t]] /\ qnxt' = [qnxt EXCEPT ![t] = Null]
                 \/ UNCHANGED <<rd, qnxt>>
              /\ UnrefWrite(t) => qnext' = qnext
              /\ UnrefFree(t) => qnext' = [qnext EXCEPT ![x] = Null]
    BY <1>9, UnreffedEffect
  <2>2. UnrefFree(t) /\ qnext[x] # Null => dead'[t] = qnext[x]
    BY <2>1 DEF UnrefFree, TypeOK
  <2>3. /\ \/ rd'[t] = rd[t]
           \/ rd[t] = Null /\ rd'[t] = qnxt[t]
        /\ \/ qnxt'[t] = qnxt[t]
           \/ rd'[t] = qnxt[t]
    <3>1. rd \in [Thread -> Uchans \cup {Null}] /\ qnxt \in [Thread -> Uchans \cup {Null}]
        BY DEF TypeOK
    <3> QED BY <2>1, <3>1
  <2>4. \A s \in Thread : InHand(s, u) /\ (s = t => dead[t] # u) => InHand(s, u)'
    <3>1. ASSUME NEW s \in Thread, s # t, InHand(s, u) PROVE InHand(s, u)'
        BY <1>2, <3>1 DEF InHand
    <3>2. ASSUME InHand(t, u), dead[t] # u PROVE InHand(t, u)'
      <4>1. CASE rd[t] = u
        BY <1>3, <2>3, <4>1 DEF InHand
      <4>2. CASE qnxt[t] = u
        BY <2>3, <4>2 DEF InHand
      <4> QED BY <3>2, <4>1, <4>2 DEF InHand
    <3> QED BY <3>1, <3>2
  <2>5. ASSUME NEW v \in Uchans, qnext[v] = u
        PROVE  InHand(t, u)' \/ qnext'[v] = u
    <3>1. CASE UnrefWrite(t) \/ v # x
        BY <1>9, <2>1, <2>5, <3>1 DEF TypeOK
    <3>2. CASE UnrefFree(t) /\ v = x
      <4>1. dead'[t] = u
        BY <1>3, <2>2, <2>5, <3>2
      <4>2. t <= x /\ x < u
        BY <1>3, <1>4, <2>1, <2>5, <3>2 DEF Tokens
      <4>3. t # u
        BY <1>3, <4>2
      <4> QED BY <4>1, <4>3 DEF InHand
    <3> QED BY <1>9, <3>1, <3>2
  <2>6. dead[t] # u \/ t = u => (ReaderHas(u) => ReaderHas(u)')
    <3>1. ASSUME dead[t] # u \/ t = u, NEW s \in Thread, InHand(s, u) PROVE InHand(s, u)'
      <4>1. CASE dead[t] # u \/ s # t
        BY <2>4, <3>1, <4>1
      <4>2. CASE dead[t] = u /\ t = u /\ s = t
        <5>1. rd[t] # u /\ qnxt[t] # u
            BY <4>2 DEF Tokens
        <5> QED BY <3>1, <4>2, <5>1 DEF InHand
      <4> QED BY <3>1, <4>1, <4>2
    <3> QED BY <2>5, <3>1 DEF ReaderHas
  <2>7. dead[t] # u \/ t # u => (WriterHas(u) => WriterHas(u)')
    BY <1>2, <1>3, <2>1 DEF WriterHas
  <2> QED BY <1>9, <2>1, <2>6, <2>7
<1> QED BY <1>5, <1>6, <1>7, <1>8, <1>9 DEF Step

LEMMA ExactStep ==
    ASSUME UchanInv, Serial, Exact, NEW t \in Thread, Step(t) \/ SpuriousWakeup(t)
    PROVE  Exact'
<1>1. TypeOK /\ Threads /\ Paths /\ Tokens /\ Counts /\ Placed(t)
    BY DEF UchanInv, Threads
<1>2. \A s \in Thread : s # t => dead'[s] = dead[s] /\ seen'[s] = seen[s]
    BY <1>1, OthersStay DEF SameThread
<1>3. /\ rfcnt \in [Uchans -> 1..2] /\ seen \in [Thread -> 0..2]
      /\ \A s \in Thread : seen[s] # 0 => pc[s] = "counted" /\ dead[s] \in Uchans
    BY <1>1, DeadUchan DEF TypeOK, Threads, Placed
<1>4. CASE UnrefWrite(t) \/ UnrefFree(t)
  <2>1. pc[t] = "counted" /\ seen[t] # 0 /\ dead[t] \in Uchans
    BY <1>1, <1>4, DeadUchan DEF UnrefWrite, UnrefFree, Placed
  <2>2. PICK x \in Uchans : x = dead[t]
    BY <2>1
  <2>3. /\ seen' = [seen EXCEPT ![t] = 0]
        /\ x \notin freed /\ seen[t] = rfcnt[x] /\ rfcnt[x] = Refs(x)
    BY <1>1, <1>4, <2>1, <2>2 DEF UnrefWrite, UnrefFree, Exact
  <2>4. Refs(x)' = Refs(x) - 1
    <3>1. CASE t = x
      <4>1. WriterHas(x) /\ ~WriterHas(x)' /\ (ReaderHas(x)' <=> ReaderHas(x))
        BY <1>1, <1>4, <2>2, <3>1, GivenUp, HasKept, HasStays
      <4> QED BY <4>1 DEF Refs
    <3>2. CASE t # x
      <4>1. ReaderHas(x) /\ ~ReaderHas(x)' /\ (WriterHas(x)' <=> WriterHas(x))
        BY <1>1, <1>4, <2>2, <3>2, GivenUp, HasKept, HasStays
      <4> QED BY <4>1 DEF Refs
    <3> QED BY <3>1, <3>2
  <2>5. ASSUME NEW u \in Uchans, u # x PROVE Refs(u)' = Refs(u)
    BY <1>1, <1>4, <2>2, <2>5, HasKept, HasStays DEF Refs
  <2>6. ASSUME NEW s \in Thread, seen'[s] # 0
        PROVE  s # t /\ seen[s] = seen'[s] /\ dead'[s] = dead[s] /\ dead[s] # x /\ dead[s] \in Uchans
               /\ seen[s] = rfcnt[dead[s]] /\ dead[s] \notin freed
    <3>1. seen'[t] = 0
        BY <1>3, <1>4 DEF UnrefWrite, UnrefFree
    <3>2. s # t
        BY <2>6, <3>1
    <3>3. seen[s] = seen'[s] /\ dead'[s] = dead[s]
        BY <1>2, <3>2
    <3>4. pc[s] = "counted" /\ dead[s] \in Uchans
        BY <1>3, <2>6, <3>3
    <3>5. dead[s] # x
        BY <2>1, <2>2, <3>2, <3>4 DEF Serial
    <3> QED BY <2>6, <3>2, <3>3, <3>4, <3>5 DEF Exact
  <2>7. CASE UnrefWrite(t)
    <3>1. rfcnt' = [rfcnt EXCEPT ![x] = seen[t] - 1] /\ freed' = freed
        BY <2>2, <2>7 DEF UnrefWrite
    <3>2. rfcnt'[x] = Refs(x)' /\ \A u \in Uchans : u # x => rfcnt'[u] = rfcnt[u]
        BY <1>3, <2>3, <2>4, <3>1
    <3>3. \A u \in Uchans : u \notin freed' => rfcnt'[u] = Refs(u)'
        BY <2>5, <3>1, <3>2 DEF Exact
    <3> QED BY <2>6, <3>1, <3>2, <3>3 DEF Exact
  <2>8. CASE UnrefFree(t)
    <3>1. rfcnt' = rfcnt /\ freed' = freed \cup {x}
        BY <2>2, <2>8 DEF UnrefFree
    <3>2. \A u \in Uchans : u \notin freed' => rfcnt'[u] = Refs(u)'
        BY <2>5, <3>1 DEF Exact
    <3> QED BY <2>6, <3>1, <3>2 DEF Exact
  <2> QED BY <1>4, <2>7, <2>8
<1>5. CASE ~UnrefWrite(t) /\ ~UnrefFree(t)
  <2>1. UNCHANGED <<rfcnt, freed>>
    BY <1>5 DEF Step, Call, Close, Lock, SpuriousWakeup, InsertWait, RemoveWait, UnrefRead,
        Sleep,
           Insert, Remove, Link, RemoveNext, Unlock, UnlockUnref, fields
  <2>2. \A u \in Uchans : Refs(u)' = Refs(u)
    BY <1>1, <1>5, HasKept, HasStays DEF Refs
  <2>3. seen'[t] # 0 => seen'[t] = rfcnt[dead'[t]] /\ dead'[t] \notin freed
    <3>1. CASE UnrefRead(t)
      <4>1. seen'[t] = rfcnt[dead[t]] /\ dead'[t] = dead[t]
        BY <1>3, <3>1 DEF UnrefRead
      <4>2. dead[t] \in Uchans
        BY <1>1, <3>1, DeadUchan DEF UnrefRead
      <4>3. WriterHas(dead[t]) \/ ReaderHas(dead[t])
        BY DEF WriterHas, ReaderHas, InHand
      <4>4. dead[t] \notin freed
        BY <1>1, <4>2, <4>3 DEF Counts
      <4> QED BY <4>1, <4>4
    <3>2. CASE ~UnrefRead(t)
      <4>1. seen'[t] = seen[t] /\ (dead'[t] = dead[t] \/ pc[t] \in {"idle", "leave"})
        BY <1>5, <3>2 DEF Step, Call, Close, Lock, SpuriousWakeup, InsertWait, RemoveWait,
            Sleep,
           Insert, Remove, Link, RemoveNext, Unlock, UnlockUnref
      <4>2. CASE seen'[t] # 0
        <5>1. seen[t] # 0
            BY <4>1, <4>2
        <5>2. pc[t] = "counted"
            BY <1>3, <5>1
        <5>3. dead'[t] = dead[t]
            BY <4>1, <5>2
        <5> QED BY <4>1, <5>1, <5>3 DEF Exact
      <4> QED BY <4>2
    <3> QED BY <3>1, <3>2
  <2>4. ASSUME NEW s \in Thread, seen'[s] # 0
        PROVE  seen'[s] = rfcnt'[dead'[s]] /\ dead'[s] \notin freed'
    <3>1. CASE s = t
        BY <2>1, <2>3, <2>4, <3>1
    <3>2. CASE s # t
        BY <1>2, <2>1, <2>4, <3>2 DEF Exact
    <3> QED BY <3>1, <3>2
  <2>5. \A u \in Uchans : u \notin freed' => rfcnt'[u] = Refs(u)'
    BY <2>1, <2>2 DEF Exact
  <2> QED BY <2>4, <2>5 DEF Exact
<1> QED BY <1>4, <1>5

LEMMA SerialStep ==
    ASSUME UchanInv, SerialInv, [MCNext]_mcvars PROVE SerialInv'
<1> SUFFICES ASSUME use' = "serial" PROVE Serial' /\ Exact'
    BY DEF SerialInv
<1>1. use = "serial" /\ Serial /\ Exact
    BY DEF SerialInv, MCNext, mcvars
<1>2. CASE UNCHANGED vars
  <2>1. UNCHANGED <<qnext, rfcnt, freed, rd, wr, pc, qnxt, dead, seen>>
    BY <1>2 DEF vars, fields
  <2> QED BY <1>1, <2>1 DEF Serial, Exact, Refs, WriterHas, ReaderHas, InHand
<1>3. CASE Next /\ Serial'
    BY <1>1, <1>3, ExactStep DEF Next
<1> QED BY <1>1, <1>2, <1>3 DEF MCNext, mcvars, uchan

LEMMA InitSerial ==
    ASSUME Init PROVE Serial /\ Exact
<1>1. /\ rd = [t \in Thread |-> IF t < N THEN t + 1 ELSE Null] /\ wr = [t \in Thread |-> t]
      /\ pc = [t \in Thread |-> "idle"] /\ seen = [t \in Thread |-> 0]
      /\ rfcnt = [u \in Uchans |-> 2]
    BY DEF Init
<1>2. Serial
    BY <1>1 DEF Serial
<1>3. ASSUME NEW u \in Uchans PROVE rfcnt[u] = Refs(u)
  <2>1. u \in Thread /\ u - 1 \in Thread /\ u - 1 < N /\ (u - 1) + 1 = u
    BY Constants DEF Thread, Uchans
  <2>2. wr[u] = u /\ rd[u - 1] = u /\ rfcnt[u] = 2
    BY <1>1, <2>1
  <2>3. WriterHas(u) /\ ReaderHas(u)
    BY <2>1, <2>2 DEF WriterHas, ReaderHas, InHand
  <2> QED BY <2>2, <2>3 DEF Refs
<1> QED BY <1>1, <1>2, <1>3 DEF Exact

LEMMA ReferencesCounted ==
    ASSUME UchanInv, NEW u \in Uchans, \A t \in Thread : pc[t] = "counted" => dead[t] # u
    PROVE  References(u) = Refs(u)
<1> DEFINE A == {t \in Thread : rd[t] = u}
           B == {t \in Thread : wr[t] = u}
           C == {t \in Thread : qnxt[t] = u}
           D == {t \in Thread : pc[t] = "unref" /\ dead[t] = u}
           E == {v \in Uchans : qnext[v] = u}
           DR == {t \in Thread : dead[t] = u /\ t # u}
           DW == {t \in Thread : dead[t] = u /\ t = u}
<1>1. TypeOK /\ Threads /\ Tokens /\ u \in Thread /\ u # Null
    BY Constants DEF UchanInv
<1>2. \A S : (S = {} => Cardinality(S) = 0) /\ \A x : S = {x} => Cardinality(S) = 1
    BY FS_EmptySet, FS_Singleton
<1>3. D = DR \cup DW
  <2>1. \A t \in Thread : dead[t] = u => pc[t] \in {"unref", "counted"}
    BY <1>1 DEF Threads, Placed
  <2> QED BY <2>1
<1>4. Cardinality(D) = Cardinality(DR) + Cardinality(DW)
  <2>1. IsFiniteSet(DR) /\ IsFiniteSet(DW)
    <3>1. IsFiniteSet(Thread)
        BY Constants, FS_Interval DEF Thread
    <3>2. DR \subseteq Thread /\ DW \subseteq Thread
        OBVIOUS
    <3> QED BY <3>1, <3>2, FS_Subset
  <2>2. DR \cap DW = {}
    OBVIOUS
  <2>3. Cardinality(DR \cap DW) = 0
    BY <1>2, <2>2
  <2>4. Cardinality(DR) \in Nat /\ Cardinality(DW) \in Nat
    BY <2>1, FS_CardinalityType
  <2> HIDE DEF DR, DW
  <2>5. Cardinality(DR \cup DW) = Cardinality(DR) + Cardinality(DW) - Cardinality(DR \cap DW)
    BY <2>1, FS_Union
  <2> QED BY <1>3, <2>3, <2>4, <2>5
<1>5. Cardinality(B) + Cardinality(DW) = IF WriterHas(u) THEN 1 ELSE 0
  <2>1. B = IF wr[u] = u THEN {u} ELSE {}
    <3>1. \A t \in Thread : wr[t] = u => t = u
        BY <1>1 DEF Threads, Ends
    <3> QED BY <1>1, <3>1
  <2>2. DW = IF dead[u] = u THEN {u} ELSE {}
    BY <1>1
  <2>3. ~(wr[u] = u /\ dead[u] = u)
    BY <1>1 DEF Tokens
  <2> HIDE DEF B, DW
  <2>4. CASE wr[u] = u
    BY <1>2, <2>1, <2>2, <2>3, <2>4 DEF WriterHas
  <2>5. CASE dead[u] = u
    BY <1>2, <2>1, <2>2, <2>3, <2>5 DEF WriterHas
  <2>6. CASE wr[u] # u /\ dead[u] # u
    BY <1>2, <2>1, <2>2, <2>6 DEF WriterHas
  <2> QED BY <2>4, <2>5, <2>6
<1>6. Cardinality(A) + Cardinality(C) + Cardinality(DR) + Cardinality(E)
         = IF ReaderHas(u) THEN 1 ELSE 0
  <2>1. /\ \A t, s \in Thread : InHand(t, u) /\ InHand(s, u) => t = s
        /\ \A t \in Thread : /\ ~(rd[t] = u /\ qnxt[t] = u) /\ ~(rd[t] = u /\ dead[t] = u)
                             /\ ~(qnxt[t] = u /\ dead[t] = u)
                             /\ \A v \in Uchans : qnext[v] = u => ~InHand(t, u)
        /\ \A v, w \in Uchans : qnext[v] = u /\ qnext[w] = u => v = w
    BY <1>1 DEF Tokens
  <2>2. CASE \E t \in Thread : rd[t] = u
    <3>1. PICK t \in Thread : rd[t] = u
        BY <2>2
    <3>2. A = {t} /\ C = {} /\ DR = {} /\ E = {} /\ ReaderHas(u)
        BY <2>1, <3>1 DEF InHand, ReaderHas
    <3> HIDE DEF A, C, DR, E
    <3>3. /\ Cardinality(A) = 1 /\ Cardinality(C) = 0
          /\ Cardinality(DR) = 0 /\ Cardinality(E) = 0
        BY <1>2, <3>2
    <3> QED BY <3>2, <3>3
  <2>3. CASE \E t \in Thread : qnxt[t] = u
    <3>1. PICK t \in Thread : qnxt[t] = u
        BY <2>3
    <3>2. A = {} /\ C = {t} /\ DR = {} /\ E = {} /\ ReaderHas(u)
        BY <2>1, <3>1 DEF InHand, ReaderHas
    <3> HIDE DEF A, C, DR, E
    <3>3. /\ Cardinality(A) = 0 /\ Cardinality(C) = 1
          /\ Cardinality(DR) = 0 /\ Cardinality(E) = 0
        BY <1>2, <3>2
    <3> QED BY <3>2, <3>3
  <2>4. CASE \E t \in Thread : dead[t] = u /\ t # u
    <3>1. PICK t \in Thread : dead[t] = u /\ t # u
        BY <2>4
    <3>2. A = {} /\ C = {} /\ DR = {t} /\ E = {} /\ ReaderHas(u)
        BY <2>1, <3>1 DEF InHand, ReaderHas
    <3> HIDE DEF A, C, DR, E
    <3>3. /\ Cardinality(A) = 0 /\ Cardinality(C) = 0
          /\ Cardinality(DR) = 1 /\ Cardinality(E) = 0
        BY <1>2, <3>2
    <3> QED BY <3>2, <3>3
  <2>5. CASE \E v \in Uchans : qnext[v] = u
    <3>1. PICK v \in Uchans : qnext[v] = u
        BY <2>5
    <3>2. A = {} /\ C = {} /\ DR = {} /\ E = {v} /\ ReaderHas(u)
        BY <2>1, <3>1 DEF InHand, ReaderHas
    <3> HIDE DEF A, C, DR, E
    <3>3. /\ Cardinality(A) = 0 /\ Cardinality(C) = 0
          /\ Cardinality(DR) = 0 /\ Cardinality(E) = 1
        BY <1>2, <3>2
    <3> QED BY <3>2, <3>3
  <2>6. CASE ~ReaderHas(u)
    <3>1. A = {} /\ C = {} /\ DR = {} /\ E = {}
        BY <2>6 DEF InHand, ReaderHas
    <3> HIDE DEF A, C, DR, E
    <3> QED BY <1>2, <2>6, <3>1
  <2> QED BY <2>2, <2>3, <2>4, <2>5, <2>6 DEF ReaderHas, InHand
<1>7. \A S : S \in {A, B, C, D, E, DR, DW} => Cardinality(S) \in Nat
  <2>1. IsFiniteSet(Thread) /\ IsFiniteSet(Uchans)
    BY Constants, FS_Interval DEF Thread, Uchans
  <2>2. A \subseteq Thread /\ B \subseteq Thread /\ C \subseteq Thread /\ D \subseteq Thread
        /\ DR \subseteq Thread /\ DW \subseteq Thread /\ E \subseteq Uchans
    OBVIOUS
  <2> HIDE DEF A, B, C, D, E, DR, DW
  <2> QED BY <2>1, <2>2, FS_Subset, FS_CardinalityType
<1>8. References(u) = Cardinality(A) + Cardinality(B) + Cardinality(C) + Cardinality(D) + Cardinality(E)
    BY DEF References
<1> HIDE DEF A, B, C, D, E, DR, DW
<1> QED BY <1>4, <1>5, <1>6, <1>7, <1>8 DEF Refs

\* As long as unrefs of the same uchan do not overlap, the count of every uchan
\* is that of its references; with the last of them it is freed.
THEOREM SerialCountAgreesHolds == MCSpec => []SerialCountAgrees
<1>1. MCInit => UchanInv /\ SerialInv
    BY InitUchanInv, InitSerial DEF MCInit, SerialInv
<1>2. UchanInv /\ SerialInv /\ [MCNext]_mcvars => UchanInv' /\ SerialInv'
    BY MCStep, UchanInvStep, SerialStep
<1>3. UchanInv /\ SerialInv => SerialCountAgrees
  <2>1. ASSUME UchanInv, SerialInv, use = "serial", NEW u \in Uchans,
               \A t \in Thread : pc[t] = "counted" => dead[t] # u
        PROVE  References(u) = IF u \in freed THEN 0 ELSE rfcnt[u]
    <3>1. References(u) = Refs(u) /\ Exact /\ Counts
        BY <2>1, ReferencesCounted DEF SerialInv, UchanInv
    <3> QED BY <3>1 DEF Exact, Counts, Refs
  <2> QED BY <2>1 DEF SerialCountAgrees, CountAgrees
<1> QED BY <1>1, <1>2, <1>3, PTL DEF MCSpec

-----------------------------------------------------------------------------
(* Recursive functions.                                                    *)

LEMMA Minimum == ASSUME NEW T \in SUBSET Nat, T # {} PROVE \E k \in T : \A j \in T : k <= j
<1> DEFINE Less == OpToRel(<, Nat)
<1>1. PICK k \in T : \A j \in T : ~ (<<j, k>> \in Less)
  BY NatLessThanWellFounded, WFMin
<1>2. ASSUME NEW j \in T PROVE k <= j
  <2>1. j < k => <<j, k>> \in Less
    BY DEF OpToRel
  <2> HIDE DEF Less
  <2>2. j \in Nat /\ k \in Nat /\ ~ (j < k)
    BY <1>1, <2>1
  <2> QED BY <2>2
<1> QED BY <1>2

\* B gives the values of a function from those at smaller arguments.
Recursive(S, R, B, m) ==
    /\ B \in [[S -> R] -> [S -> R]]
    /\ m \in [S -> Nat]
    /\ \A g, h \in [S -> R] : \A x \in S :
          (\A y \in S : m[y] < m[x] => g[y] = h[y]) => B[g][x] = B[h][x]

LEMMA Recursion ==
    ASSUME NEW S, NEW R, NEW B, NEW m, NEW f0 \in [S -> R], Recursive(S, R, B, m)
    PROVE  \E f \in [S -> R] : B[f] = f
<1> DEFINE F == [S -> R]
           Solves(n, f) == \A x \in S : m[x] < n => B[f][x] = f[x]
<1>0. /\ \A x \in S : m[x] \in Nat
      /\ \A f \in F : B[f] \in F
      /\ \A g, h \in F : \A x \in S :
            (\A y \in S : m[y] < m[x] => g[y] = h[y]) => B[g][x] = B[h][x]
  BY DEF Recursive
<1>1. ASSUME NEW n \in Nat PROVE \E f \in F : Solves(n, f)
  <2> DEFINE T == {k \in Nat : \A f \in F : ~Solves(k, f)}
  <2>1. ASSUME T # {} PROVE FALSE
    <3>1. PICK k \in T : \A j \in T : k <= j
      BY <2>1, Minimum
    <3>2. CASE k = 0
      BY <1>0, <3>2
    <3>3. CASE k # 0
      <4>1. k - 1 \in Nat /\ k - 1 \notin T
        BY <3>1, <3>3
      <4>2. PICK f \in F : Solves(k - 1, f)
        BY <4>1
      <4>3. B[f] \in F
        BY <1>0
      <4>4. ASSUME NEW x \in S, m[x] < k PROVE B[B[f]][x] = B[f][x]
        <5>1. \A y \in S : m[y] < m[x] => B[f][y] = f[y]
          BY <1>0, <4>2, <4>4
        <5> QED BY <1>0, <4>3, <5>1
      <4> QED BY <4>3, <4>4
    <3> QED BY <3>2, <3>3
  <2> QED BY <2>1
<1>2. ASSUME NEW n \in Nat, NEW f \in F, NEW g \in F, Solves(n, f), Solves(n, g)
      PROVE  \A x \in S : m[x] < n => f[x] = g[x]
  <2> DEFINE D == {x \in S : m[x] < n /\ f[x] # g[x]}
             T == {m[x] : x \in D}
  <2>1. ASSUME D # {} PROVE FALSE
    <3>1. T \in SUBSET Nat /\ T # {}
      <4>1. \A x \in D : m[x] \in Nat
        BY <1>0
      <4> HIDE DEF D
      <4> QED BY <2>1, <4>1
    <3>2. PICK k \in T : \A j \in T : k <= j
      BY <3>1, Minimum
    <3>3. PICK x \in D : k = m[x]
      OBVIOUS
    <3>4. ASSUME NEW y \in S, m[y] < m[x] PROVE f[y] = g[y]
      <4>1. m[y] \in Nat /\ m[x] \in Nat /\ m[x] < n
        BY <1>0
      <4>2. m[y] < n
        BY <3>4, <4>1
      <4>3. y \notin D
        <5> SUFFICES ASSUME y \in D PROVE FALSE
          OBVIOUS
        <5>1. m[y] \in T
          OBVIOUS
        <5>2. m[x] <= m[y]
          BY <3>2, <3>3, <5>1
        <5> QED BY <3>4, <4>1, <5>2
      <4> QED BY <4>2, <4>3
    <3>5. B[f][x] = B[g][x]
      BY <1>0, <3>4
    <3> QED BY <1>2, <3>5
  <2> QED BY <2>1
<1> DEFINE P(n) == CHOOSE f \in F : Solves(n, f)
           f == [x \in S |-> P(m[x] + 1)[x]]
<1>3. \A n \in Nat : P(n) \in F /\ Solves(n, P(n))
  <2> HIDE DEF F, Solves
  <2> QED BY <1>1
<1>4. \A x \in S : m[x] + 1 \in Nat
  BY <1>0
<1>5. f \in F
  <2> HIDE DEF P
  <2>1. \A x \in S : P(m[x] + 1)[x] \in R
    BY <1>3, <1>4
  <2> QED BY <2>1
<1>6. ASSUME NEW x \in S PROVE B[f][x] = f[x]
  <2> HIDE DEF P
  <2>1. P(m[x] + 1) \in F /\ Solves(m[x] + 1, P(m[x] + 1))
    BY <1>3, <1>4
  <2>2. ASSUME NEW y \in S, m[y] < m[x] PROVE f[y] = P(m[x] + 1)[y]
    <3>1. P(m[y] + 1) \in F /\ Solves(m[y] + 1, P(m[y] + 1)) /\ m[y] + 1 \in Nat
      BY <1>3, <1>4
    <3>2. Solves(m[y] + 1, P(m[x] + 1))
      BY <1>0, <2>1, <2>2
    <3>3. m[y] < m[y] + 1
      BY <1>0
    <3> HIDE DEF Solves
    <3> QED BY <1>2, <2>1, <3>1, <3>2, <3>3
  <2>3. B[f][x] = B[P(m[x] + 1)][x]
    BY <1>0, <1>5, <2>1, <2>2
  <2>4. m[x] < m[x] + 1
    BY <1>0
  <2> QED BY <2>1, <2>3, <2>4
<1>7. B[f] = f
  <2> HIDE DEF f
  <2>1. B[f] \in F
    BY <1>0, <1>5
  <2> QED BY <1>5, <1>6, <2>1
<1> QED BY <1>5, <1>7

-----------------------------------------------------------------------------
(* The merge.                                                              *)

Pairs == Seq(Int) \X Seq(Int)

LEMMA UnionRecursion ==
    ASSUME NEW xs1 \in Seq(Int), NEW xs2 \in Seq(Int)
    PROVE  LET x1 == Head(xs1)
               x2 == Head(xs2)
           IN  SL!intset_union[<<xs1, xs2>>] =
                   IF xs1 = <<>> THEN xs2
                   ELSE IF xs2 = <<>> THEN xs1
                   ELSE IF x1 < x2 THEN <<x1>> \o SL!intset_union[<<xs2, Tail(xs1)>>]
                   ELSE IF x1 > x2 THEN <<x2>> \o SL!intset_union[<<xs1, Tail(xs2)>>]
                   ELSE <<x1>> \o SL!intset_union[<<Tail(xs1), Tail(xs2)>>]
<1> DEFINE Body(g, p) ==
               LET ys1 == p[1]
                   ys2 == p[2]
                   x1 == Head(ys1)
                   x2 == Head(ys2)
               IN  IF ys1 = <<>> THEN ys2
                   ELSE IF ys2 = <<>> THEN ys1
                   ELSE IF x1 < x2 THEN <<x1>> \o g[<<ys2, Tail(ys1)>>]
                   ELSE IF x1 > x2 THEN <<x2>> \o g[<<ys1, Tail(ys2)>>]
                   ELSE <<x1>> \o g[<<Tail(ys1), Tail(ys2)>>]
           B == [g \in [Pairs -> Seq(Int)] |-> [p \in Pairs |-> Body(g, p)]]
           m == [p \in Pairs |-> Len(p[1]) + Len(p[2])]
           f0 == [p \in Pairs |-> <<>>]
<1>1. ASSUME NEW ys1 \in Seq(Int), NEW ys2 \in Seq(Int), NEW p, p = <<ys1, ys2>>
      PROVE  /\ p \in Pairs /\ m[p] = Len(ys1) + Len(ys2) /\ m[p] \in Nat
  <2>1. p \in Pairs /\ p[1] = ys1 /\ p[2] = ys2
    BY <1>1 DEF Pairs
  <2>2. m[p] = Len(ys1) + Len(ys2)
    BY <2>1
  <2>3. Len(ys1) \in Nat /\ Len(ys2) \in Nat
    BY LenProperties
  <2> HIDE DEF m
  <2> QED BY <2>1, <2>2, <2>3
<1>2. m \in [Pairs -> Nat]
  <2>1. \A p \in Pairs : m[p] \in Nat
    <3>1. \A p \in Pairs : p[1] \in Seq(Int) /\ p[2] \in Seq(Int) /\ p = <<p[1], p[2]>>
      BY DEF Pairs
    <3> HIDE DEF m
    <3> QED BY <1>1, <3>1
  <2>2. m = [p \in Pairs |-> m[p]]
    OBVIOUS
  <2> HIDE DEF m
  <2> QED BY <2>1, <2>2
<1>12. ASSUME NEW p \in Pairs, p[1] # <<>>, p[2] # <<>>
      PROVE  /\ Head(p[1]) \in Int /\ Head(p[2]) \in Int
             /\ <<p[2], Tail(p[1])>> \in Pairs /\ m[<<p[2], Tail(p[1])>>] < m[p]
             /\ <<p[1], Tail(p[2])>> \in Pairs /\ m[<<p[1], Tail(p[2])>>] < m[p]
             /\ <<Tail(p[1]), Tail(p[2])>> \in Pairs /\ m[<<Tail(p[1]), Tail(p[2])>>] < m[p]
  <2> HIDE DEF m
  <2>1. p[1] \in Seq(Int) /\ p[2] \in Seq(Int) /\ p = <<p[1], p[2]>>
    BY DEF Pairs
  <2> SUFFICES ASSUME NEW ys1 \in Seq(Int), ys1 # <<>>, NEW ys2 \in Seq(Int), ys2 # <<>>,
                      NEW zs1, zs1 = Tail(ys1), NEW zs2, zs2 = Tail(ys2)
               PROVE  /\ Head(ys1) \in Int /\ Head(ys2) \in Int
                      /\ <<ys2, zs1>> \in Pairs /\ m[<<ys2, zs1>>] < m[<<ys1, ys2>>]
                      /\ <<ys1, zs2>> \in Pairs /\ m[<<ys1, zs2>>] < m[<<ys1, ys2>>]
                      /\ <<zs1, zs2>> \in Pairs /\ m[<<zs1, zs2>>] < m[<<ys1, ys2>>]
    BY <1>12, <2>1
  <2>2. /\ Head(ys1) \in Int /\ zs1 \in Seq(Int) /\ Len(zs1) = Len(ys1) - 1
        /\ Head(ys2) \in Int /\ zs2 \in Seq(Int) /\ Len(zs2) = Len(ys2) - 1
    BY HeadTailProperties
  <2>3. Len(ys1) \in Nat /\ Len(ys2) \in Nat
    BY LenProperties
  <2>8. \A a, b \in Seq(Int) : <<a, b>> \in Pairs /\ m[<<a, b>>] = Len(a) + Len(b)
    BY <1>1
  <2>4. m[<<ys1, ys2>>] = Len(ys1) + Len(ys2)
    BY <1>1
  <2>5. <<ys2, zs1>> \in Pairs /\ m[<<ys2, zs1>>] = Len(ys2) + Len(zs1)
    BY <2>2, <2>8, Zenon
  <2>6. <<ys1, zs2>> \in Pairs /\ m[<<ys1, zs2>>] = Len(ys1) + Len(zs2)
    BY <2>2, <2>8, Zenon
  <2>7. <<zs1, zs2>> \in Pairs /\ m[<<zs1, zs2>>] = Len(zs1) + Len(zs2)
    BY <2>2, <2>8, Zenon
  <2> QED BY <2>2, <2>3, <2>4, <2>5, <2>6, <2>7
<1>3. f0 \in [Pairs -> Seq(Int)]
  OBVIOUS
<1>4. B \in [[Pairs -> Seq(Int)] -> [Pairs -> Seq(Int)]]
  <2>1. ASSUME NEW g \in [Pairs -> Seq(Int)], NEW p \in Pairs PROVE Body(g, p) \in Seq(Int)
    <3>1. p[1] \in Seq(Int) /\ p[2] \in Seq(Int)
      BY DEF Pairs
    <3>2. CASE p[1] = <<>> \/ p[2] = <<>>
      BY <3>1, <3>2
    <3>3. CASE p[1] # <<>> /\ p[2] # <<>>
      <4> HIDE DEF m
      <4>1. /\ Head(p[1]) \in Int /\ Head(p[2]) \in Int
            /\ g[<<p[2], Tail(p[1])>>] \in Seq(Int)
            /\ g[<<p[1], Tail(p[2])>>] \in Seq(Int)
            /\ g[<<Tail(p[1]), Tail(p[2])>>] \in Seq(Int)
        BY <1>12, <3>3
      <4>2. \A x \in Int, ys \in Seq(Int) : <<x>> \o ys \in Seq(Int)
        BY ConcatProperties
      <4> QED BY <3>3, <4>1, <4>2
    <3> QED BY <3>2, <3>3
  <2> HIDE DEF Body
  <2> QED BY <2>1
<1>5. ASSUME NEW g \in [Pairs -> Seq(Int)], NEW h \in [Pairs -> Seq(Int)], NEW p \in Pairs,
             \A q \in Pairs : m[q] < m[p] => g[q] = h[q]
      PROVE  B[g][p] = B[h][p]
  <2> HIDE DEF m
  <2>1. p[1] # <<>> /\ p[2] # <<>> =>
           /\ g[<<p[2], Tail(p[1])>>] = h[<<p[2], Tail(p[1])>>]
           /\ g[<<p[1], Tail(p[2])>>] = h[<<p[1], Tail(p[2])>>]
           /\ g[<<Tail(p[1]), Tail(p[2])>>] = h[<<Tail(p[1]), Tail(p[2])>>]
    BY <1>12, <1>5
  <2>2. Body(g, p) = Body(h, p)
    BY <2>1
  <2> HIDE DEF Body
  <2> QED BY <2>2
<1>6. \E f \in [Pairs -> Seq(Int)] : B[f] = f
  <2> HIDE DEF B, m, f0
  <2>1. Recursive(Pairs, Seq(Int), B, m)
    BY <1>2, <1>4, <1>5 DEF Recursive
  <2> QED BY <1>3, <2>1, Recursion
<1> DEFINE Solution(f) == f = [p \in Pairs |-> Body(f, p)]
<1>7. \E f : Solution(f)
  <2> HIDE DEF Body
  <2> QED BY <1>6
<1>8. SL!intset_union = CHOOSE f : Solution(f)
  BY DEF SL!intset_union, Pairs
<1>9. Solution(SL!intset_union)
  <2> HIDE DEF Solution
  <2> QED BY <1>7, <1>8
<1>10. <<xs1, xs2>> \in Pairs
  BY DEF Pairs
<1>11. SL!intset_union[<<xs1, xs2>>] = Body(SL!intset_union, <<xs1, xs2>>)
  <2> HIDE DEF Body
  <2> QED BY <1>9, <1>10
<1> QED BY <1>11

Increasing(xs) == \A h, k \in DOMAIN xs : h < k => xs[h] < xs[k]

LEMMA ConsOf ==
    ASSUME NEW x \in Int, NEW ys \in Seq(Int), Increasing(ys), \A y \in SL!elements(ys) : x < y,
           NEW zs, zs = <<x>> \o ys
    PROVE  zs \in Seq(Int) /\ Increasing(zs) /\ SL!elements(zs) = {x} \cup SL!elements(ys)
<1>1. <<x>> \in Seq(Int) /\ Len(<<x>>) = 1 /\ <<x>>[1] = x
  OBVIOUS
<1>2. /\ zs \in Seq(Int) /\ Len(zs) = Len(ys) + 1
      /\ \A k \in 1..Len(ys) + 1 : zs[k] = IF k <= 1 THEN <<x>>[k] ELSE ys[k - 1]
  BY <1>1, ConcatProperties
<1>3. Len(ys) \in Nat /\ DOMAIN ys = 1..Len(ys) /\ DOMAIN zs = 1..Len(ys) + 1
  BY <1>2, LenProperties
<1>4. zs[1] = x /\ \A k \in 1..Len(ys) : zs[k + 1] = ys[k] /\ ys[k] \in Int /\ ys[k] \in SL!elements(ys)
  <2>1. zs[1] = x
    BY <1>1, <1>2, <1>3
  <2>2. ASSUME NEW k \in 1..Len(ys) PROVE zs[k + 1] = ys[k]
    <3>1. k + 1 \in 1..Len(ys) + 1 /\ ~(k + 1 <= 1) /\ (k + 1) - 1 = k
      BY <1>3
    <3> QED BY <1>2, <3>1
  <2>3. ASSUME NEW k \in 1..Len(ys) PROVE ys[k] \in Int /\ ys[k] \in SL!elements(ys)
    <3>1. ys[k] \in Int
      BY ElementOfSeq
    <3>2. k \in DOMAIN ys
      BY <1>3
    <3> QED BY <3>1, <3>2 DEF SL!elements
  <2> QED BY <2>1, <2>2, <2>3
<1>5. \A k \in 1..Len(ys) + 1 : k = 1 \/ k - 1 \in 1..Len(ys)
  BY <1>3
<1>6. Increasing(zs)
  <2> SUFFICES ASSUME NEW h \in 1..Len(ys) + 1, NEW k \in 1..Len(ys) + 1, h < k
               PROVE  zs[h] < zs[k]
    BY <1>3 DEF Increasing
  <2>1. k - 1 \in 1..Len(ys) /\ zs[k] = ys[k - 1] /\ ys[k - 1] \in SL!elements(ys)
    BY <1>2, <1>3, <1>4
  <2>2. CASE h = 1
    BY <1>4, <2>1, <2>2
  <2>3. CASE h # 1
    <3>1. h - 1 \in 1..Len(ys) /\ zs[h] = ys[h - 1] /\ h - 1 < k - 1
      BY <1>2, <1>3, <2>3
    <3> QED BY <1>3, <2>1, <3>1 DEF Increasing
  <2> QED BY <2>2, <2>3
<1>7. SL!elements(zs) = {x} \cup SL!elements(ys)
  <2>1. ASSUME NEW k \in DOMAIN zs PROVE zs[k] \in {x} \cup SL!elements(ys)
    <3>1. CASE k = 1
      BY <1>4, <3>1
    <3>2. CASE k # 1
      <4>1. k - 1 \in 1..Len(ys) /\ zs[k] = ys[k - 1]
        BY <1>2, <1>3, <3>2
      <4> QED BY <1>4, <4>1
    <3> QED BY <3>1, <3>2
  <2>2. x \in SL!elements(zs)
    <3>1. 1 \in DOMAIN zs /\ zs[1] = x
      BY <1>3, <1>4
    <3> QED BY <3>1 DEF SL!elements
  <2>3. ASSUME NEW k \in DOMAIN ys PROVE ys[k] \in SL!elements(zs)
    <3>1. k + 1 \in DOMAIN zs /\ zs[k + 1] = ys[k]
      BY <1>3, <1>4
    <3> QED BY <3>1 DEF SL!elements
  <2>4. SL!elements(zs) \subseteq {x} \cup SL!elements(ys)
    BY <2>1 DEF SL!elements
  <2>5. SL!elements(ys) \subseteq SL!elements(zs)
    BY <2>3 DEF SL!elements
  <2> QED BY <2>2, <2>4, <2>5
<1> QED BY <1>2, <1>6, <1>7

\* zs has what follows the least element of ys.
Follows(S, y, ys, zs) ==
    /\ y \in S /\ y \in SL!elements(ys)
    /\ zs \in Seq(S) /\ Increasing(zs) /\ Len(zs) = Len(ys) - 1
    /\ SL!elements(ys) = {y} \cup SL!elements(zs)
    /\ \A z \in SL!elements(zs) : y < z

LEMMA TailOf ==
    ASSUME NEW S, S \subseteq Int, NEW ys \in Seq(S), ys # <<>>, Increasing(ys), NEW zs, zs = Tail(ys)
    PROVE  Follows(S, Head(ys), ys, zs)
<1>1. /\ Head(ys) \in S /\ zs \in Seq(S) /\ Len(zs) = Len(ys) - 1
      /\ \A k \in 1..Len(zs) : zs[k] = ys[k + 1]
  BY HeadTailProperties
<1>2. /\ Len(ys) \in Nat \ {0} /\ DOMAIN ys = 1..Len(ys) /\ DOMAIN zs = 1..Len(ys) - 1
      /\ Head(ys) = ys[1]
  BY <1>1, EmptySeq, LenProperties
<1>3. Increasing(zs)
  <2> SUFFICES ASSUME NEW h \in 1..Len(ys) - 1, NEW k \in 1..Len(ys) - 1, h < k
               PROVE  zs[h] < zs[k]
    BY <1>2 DEF Increasing
  <2>1. zs[h] = ys[h + 1] /\ zs[k] = ys[k + 1]
    BY <1>1
  <2>2. h + 1 \in DOMAIN ys /\ k + 1 \in DOMAIN ys /\ h + 1 < k + 1
    BY <1>2
  <2> QED BY <2>1, <2>2 DEF Increasing
<1>4. Head(ys) \in SL!elements(ys)
  BY <1>2 DEF SL!elements
<1>5. SL!elements(zs) \subseteq SL!elements(ys) /\ \A y \in SL!elements(zs) : Head(ys) < y
  <2> SUFFICES ASSUME NEW k \in DOMAIN zs PROVE zs[k] \in SL!elements(ys) /\ ys[1] < zs[k]
    BY <1>2 DEF SL!elements
  <2>1. zs[k] = ys[k + 1] /\ k + 1 \in DOMAIN ys /\ 1 < k + 1 /\ 1 \in DOMAIN ys
    BY <1>1, <1>2
  <2> QED BY <2>1 DEF SL!elements, Increasing
<1>6. SL!elements(ys) \subseteq {Head(ys)} \cup SL!elements(zs)
  <2> SUFFICES ASSUME NEW k \in DOMAIN ys, k # 1 PROVE ys[k] \in SL!elements(zs)
    BY <1>2 DEF SL!elements
  <2>1. k - 1 \in DOMAIN zs /\ zs[k - 1] = ys[k]
    BY <1>1, <1>2
  <2> QED BY <2>1 DEF SL!elements
<1> QED BY <1>1, <1>3, <1>4, <1>5, <1>6 DEF Follows

LEMMA ElementsIn == ASSUME NEW S, NEW xs \in Seq(S) PROVE SL!elements(xs) \subseteq S
BY ElementOfSeq, LenProperties DEF SL!elements

LEMMA EmptyOf ==
    /\ \A S : <<>> \in Seq(S)
    /\ Increasing(<<>>) /\ SL!elements(<<>>) = {} /\ Len(<<>>) = 0
BY DEF Increasing, SL!elements

-----------------------------------------------------------------------------
(* Unions.                                                                 *)

Merges(xs1, xs2) ==
    /\ SL!intset_union[<<xs1, xs2>>] \in Seq(Int)
    /\ Increasing(SL!intset_union[<<xs1, xs2>>])
    /\ SL!elements(SL!intset_union[<<xs1, xs2>>]) = SL!elements(xs1) \cup SL!elements(xs2)

LEMMA UnionStep ==
    ASSUME NEW xs1 \in Seq(Int), Increasing(xs1), NEW xs2 \in Seq(Int), Increasing(xs2),
           \A ys1, ys2 \in Seq(Int) :
               /\ Increasing(ys1) /\ Increasing(ys2)
               /\ Len(ys1) + Len(ys2) < Len(xs1) + Len(xs2)
               => Merges(ys1, ys2)
    PROVE  Merges(xs1, xs2)
<1>1. CASE xs1 = <<>>
  <2>1. SL!intset_union[<<xs1, xs2>>] = xs2
    BY <1>1, UnionRecursion
  <2> QED BY <1>1, <2>1, EmptyOf DEF Merges
<1>2. CASE xs1 # <<>> /\ xs2 = <<>>
  <2>1. SL!intset_union[<<xs1, xs2>>] = xs1
    BY <1>2, UnionRecursion
  <2> QED BY <1>2, <2>1, EmptyOf DEF Merges
<1>3. CASE xs1 # <<>> /\ xs2 # <<>>
  <2> SUFFICES ASSUME NEW x1, x1 = Head(xs1), NEW x2, x2 = Head(xs2),
                      NEW ts1, ts1 = Tail(xs1), NEW ts2, ts2 = Tail(xs2),
                      NEW zs, zs = SL!intset_union[<<xs1, xs2>>]
               PROVE  zs \in Seq(Int) /\ Increasing(zs) /\ SL!elements(zs) = SL!elements(xs1) \cup SL!elements(xs2)
    BY DEF Merges
  <2>1. /\ x1 \in Int /\ ts1 \in Seq(Int) /\ Increasing(ts1) /\ Len(ts1) = Len(xs1) - 1
        /\ SL!elements(xs1) = {x1} \cup SL!elements(ts1) /\ \A y \in SL!elements(ts1) : x1 < y
    BY <1>3, TailOf DEF Follows
  <2>2. /\ x2 \in Int /\ ts2 \in Seq(Int) /\ Increasing(ts2) /\ Len(ts2) = Len(xs2) - 1
        /\ SL!elements(xs2) = {x2} \cup SL!elements(ts2) /\ \A y \in SL!elements(ts2) : x2 < y
    BY <1>3, TailOf DEF Follows
  <2>3. Len(xs1) \in Nat /\ Len(xs2) \in Nat
    BY LenProperties
  <2>4. Merges(xs2, ts1) /\ Merges(xs1, ts2) /\ Merges(ts1, ts2)
    <3>1. /\ Len(xs2) + Len(ts1) < Len(xs1) + Len(xs2)
          /\ Len(xs1) + Len(ts2) < Len(xs1) + Len(xs2)
          /\ Len(ts1) + Len(ts2) < Len(xs1) + Len(xs2)
      BY <2>1, <2>2, <2>3
    <3> QED BY <2>1, <2>2, <3>1
  <2>5. zs = IF x1 < x2 THEN <<x1>> \o SL!intset_union[<<xs2, ts1>>]
             ELSE IF x1 > x2 THEN <<x2>> \o SL!intset_union[<<xs1, ts2>>]
             ELSE <<x1>> \o SL!intset_union[<<ts1, ts2>>]
    BY <1>3, UnionRecursion
  <2>6. CASE x1 < x2
    <3>1. PICK ys : ys = SL!intset_union[<<xs2, ts1>>]
      OBVIOUS
    <3>2. /\ ys \in Seq(Int) /\ Increasing(ys) /\ SL!elements(ys) = SL!elements(xs2) \cup SL!elements(ts1)
          /\ zs = <<x1>> \o ys
      BY <2>4, <2>5, <2>6, <3>1 DEF Merges
    <3>3. SL!elements(ts1) \subseteq Int /\ SL!elements(ts2) \subseteq Int
      BY <2>1, <2>2, ElementsIn
    <3>4. \A y \in SL!elements(ys) : x1 < y
      BY <2>1, <2>2, <2>6, <3>2, <3>3
    <3>5. zs \in Seq(Int) /\ Increasing(zs) /\ SL!elements(zs) = {x1} \cup SL!elements(ys)
      BY <2>1, <3>2, <3>4, ConsOf
    <3> QED BY <2>1, <3>2, <3>5
  <2>7. CASE x1 > x2
    <3>1. PICK ys : ys = SL!intset_union[<<xs1, ts2>>]
      OBVIOUS
    <3>2. /\ ys \in Seq(Int) /\ Increasing(ys) /\ SL!elements(ys) = SL!elements(xs1) \cup SL!elements(ts2)
          /\ zs = <<x2>> \o ys
      <4>1. zs = <<x2>> \o ys
        <5>1. x1 \in Int /\ x2 \in Int
          BY <2>1, <2>2
        <5>2. ~(x1 < x2) /\ x1 > x2
          BY <2>7, <5>1
        <5> QED BY <2>5, <3>1, <5>2
      <4> QED BY <2>4, <3>1, <4>1 DEF Merges
    <3>3. SL!elements(ts1) \subseteq Int /\ SL!elements(ts2) \subseteq Int
      BY <2>1, <2>2, ElementsIn
    <3>4. \A y \in SL!elements(ys) : x2 < y
      BY <2>1, <2>2, <2>7, <3>2, <3>3
    <3>5. zs \in Seq(Int) /\ Increasing(zs) /\ SL!elements(zs) = {x2} \cup SL!elements(ys)
      BY <2>2, <3>2, <3>4, ConsOf
    <3> QED BY <2>2, <3>2, <3>5
  <2>8. CASE x1 = x2
    <3>1. PICK ys : ys = SL!intset_union[<<ts1, ts2>>]
      OBVIOUS
    <3>2. /\ ys \in Seq(Int) /\ Increasing(ys) /\ SL!elements(ys) = SL!elements(ts1) \cup SL!elements(ts2)
          /\ zs = <<x1>> \o ys
      <4>1. zs = <<x1>> \o ys
        <5>1. x1 \in Int /\ x2 \in Int
          BY <2>1, <2>2
        <5>2. ~(x1 < x2) /\ ~(x1 > x2)
          BY <2>8, <5>1
        <5> QED BY <2>5, <3>1, <5>2
      <4> QED BY <2>4, <3>1, <4>1 DEF Merges
    <3>4. \A y \in SL!elements(ys) : x1 < y
      BY <2>1, <2>2, <2>8, <3>2
    <3>5. zs \in Seq(Int) /\ Increasing(zs) /\ SL!elements(zs) = {x1} \cup SL!elements(ys)
      BY <2>1, <3>2, <3>4, ConsOf
    <3> QED BY <2>1, <2>2, <2>8, <3>2, <3>5
  <2>9. x1 \in Int /\ x2 \in Int
    BY <2>1, <2>2
  <2>10. x1 < x2 \/ x1 > x2 \/ x1 = x2
    BY <2>9
  <2> QED BY <2>6, <2>7, <2>8, <2>10
<1> QED BY <1>1, <1>2, <1>3

LEMMA UnionOf ==
    ASSUME NEW xs1 \in Seq(Int), Increasing(xs1), NEW xs2 \in Seq(Int), Increasing(xs2)
    PROVE  Merges(xs1, xs2)
<1> DEFINE T == {n \in Nat : \E ys1, ys2 \in Seq(Int) :
                     /\ Increasing(ys1) /\ Increasing(ys2) /\ n = Len(ys1) + Len(ys2)
                     /\ ~Merges(ys1, ys2)}
<1>1. \A ys1, ys2 \in Seq(Int) : Len(ys1) + Len(ys2) \in Nat
  <2> TAKE ys1, ys2 \in Seq(Int)
  <2>1. Len(ys1) \in Nat /\ Len(ys2) \in Nat
    BY LenProperties
  <2> QED BY <2>1
<1>2. ASSUME T # {} PROVE FALSE
  <2>1. PICK n \in T : \A j \in T : n <= j
    BY <1>2, Minimum
  <2>2. PICK ys1 \in Seq(Int), ys2 \in Seq(Int) :
           /\ Increasing(ys1) /\ Increasing(ys2) /\ n = Len(ys1) + Len(ys2)
           /\ ~Merges(ys1, ys2)
    OBVIOUS
  <2>3. ASSUME NEW zs1 \in Seq(Int), NEW zs2 \in Seq(Int), Increasing(zs1), Increasing(zs2),
               Len(zs1) + Len(zs2) < Len(ys1) + Len(ys2)
        PROVE  Merges(zs1, zs2)
    <3>1. Len(zs1) + Len(zs2) \in Nat /\ n \in Nat
      BY <1>1
    <3> SUFFICES ASSUME ~Merges(zs1, zs2) PROVE FALSE
      OBVIOUS
    <3>2. Len(zs1) + Len(zs2) \in T
      BY <2>3, <3>1
    <3>3. n <= Len(zs1) + Len(zs2)
      BY <2>1, <3>2
    <3> QED BY <2>2, <2>3, <3>1, <3>3
  <2> QED BY <2>2, <2>3, UnionStep
<1> QED BY <1>1, <1>2

-----------------------------------------------------------------------------
(* Complements.                                                            *)

LEMMA Aux1Of ==
    ASSUME NEW i \in Nat, NEW n \in Nat, NEW zs, zs = SL!aux1(i, n)
    PROVE  zs \in Seq(Int) /\ Increasing(zs) /\ SL!elements(zs) = i..n - 1
<1>1. DOMAIN zs = 1..n - i /\ \A k \in 1..n - i : zs[k] = i + k - 1 /\ zs[k] \in i..n - 1
  BY DEF SL!aux1
<1>2. zs \in Seq(Int)
  <2>1. CASE i < n
    <3>1. n - i \in Nat /\ zs \in [1..n - i -> Int]
      BY <2>1 DEF SL!aux1
    <3> QED BY <3>1, SeqDef
  <2>2. CASE ~(i < n)
    <3>1. 1..n - i = {} /\ 1..0 = {}
      BY <2>2
    <3>2. zs \in [1..0 -> Int]
      BY <3>1 DEF SL!aux1
    <3> QED BY <3>2, SeqDef
  <2> QED BY <2>1, <2>2
<1>3. Increasing(zs)
  <2> SUFFICES ASSUME NEW h \in 1..n - i, NEW k \in 1..n - i, h < k PROVE zs[h] < zs[k]
    BY <1>1 DEF Increasing
  <2>1. zs[h] = i + h - 1 /\ zs[k] = i + k - 1
    BY <1>1
  <2> QED BY <2>1
<1>4. SL!elements(zs) = i..n - 1
  <2>1. ASSUME NEW j \in i..n - 1 PROVE j \in SL!elements(zs)
    <3>1. j - i + 1 \in 1..n - i
      OBVIOUS
    <3>2. zs[j - i + 1] = j
      BY <1>1, <3>1
    <3> QED BY <1>1, <3>1, <3>2 DEF SL!elements
  <2> QED BY <1>1, <2>1 DEF SL!elements
<1> QED BY <1>2, <1>3, <1>4

LEMMA AuxRecursion ==
    ASSUME NEW n \in Nat, NEW xs \in Seq(0..n - 1)
    PROVE  \E f :
        /\ SL!intset_ncomplement(xs, n) = f[<<0, xs>>]
        /\ \A i \in Nat, ys \in Seq(0..n - 1) :
              f[<<i, ys>>] = IF ys = <<>> THEN SL!aux1(i, n)
                             ELSE IF i < Head(ys) THEN <<i>> \o f[<<i + 1, ys>>]
                             ELSE f[<<i + 1, Tail(ys)>>]
<1> DEFINE P == Nat \X Seq(0..n - 1)
           Body(g, a) ==
               LET i == a[1]
                   ys == a[2]
               IN  IF ys = <<>> THEN SL!aux1(i, n)
                   ELSE IF i < Head(ys) THEN <<i>> \o g[<<i + 1, ys>>]
                   ELSE g[<<i + 1, Tail(ys)>>]
           B == [g \in [P -> Seq(Int)] |-> [a \in P |-> Body(g, a)]]
           m == [a \in P |-> Len(a[2]) + (IF a[1] < n THEN n - a[1] ELSE 0)]
           f0 == [a \in P |-> <<>>]
<1>1. ASSUME NEW i \in Nat, NEW ys \in Seq(0..n - 1), NEW a, a = <<i, ys>>
      PROVE  a \in P /\ m[a] = Len(ys) + (IF i < n THEN n - i ELSE 0) /\ m[a] \in Nat
  <2>1. a \in P /\ a[1] = i /\ a[2] = ys
    BY <1>1
  <2>2. m[a] = Len(ys) + (IF i < n THEN n - i ELSE 0)
    BY <2>1
  <2>3. Len(ys) \in Nat
    BY LenProperties
  <2> HIDE DEF m, P
  <2> QED BY <2>1, <2>2, <2>3
<1>2. m \in [P -> Nat]
  <2>1. \A a \in P : m[a] \in Nat
    <3>1. \A a \in P : a[1] \in Nat /\ a[2] \in Seq(0..n - 1) /\ a = <<a[1], a[2]>>
      OBVIOUS
    <3> HIDE DEF m, P
    <3> QED BY <1>1, <3>1
  <2>2. m = [a \in P |-> m[a]]
    OBVIOUS
  <2> HIDE DEF m, P
  <2> QED BY <2>1, <2>2
<1>3. ASSUME NEW a \in P, a[2] # <<>>
      PROVE  /\ Head(a[2]) \in Int /\ a[1] \in Int
             /\ a[1] < Head(a[2]) => <<a[1] + 1, a[2]>> \in P /\ m[<<a[1] + 1, a[2]>>] < m[a]
             /\ <<a[1] + 1, Tail(a[2])>> \in P /\ m[<<a[1] + 1, Tail(a[2])>>] < m[a]
  <2>1. a[1] \in Nat /\ a[2] \in Seq(0..n - 1) /\ a = <<a[1], a[2]>>
    OBVIOUS
  <2> HIDE DEF m, P
  <2> SUFFICES ASSUME NEW i \in Nat, NEW ys \in Seq(0..n - 1), ys # <<>>,
                      NEW zs, zs = Tail(ys)
               PROVE  /\ Head(ys) \in Int /\ i \in Int
                      /\ i < Head(ys) => <<i + 1, ys>> \in P /\ m[<<i + 1, ys>>] < m[<<i, ys>>]
                      /\ <<i + 1, zs>> \in P /\ m[<<i + 1, zs>>] < m[<<i, ys>>]
    BY <1>3, <2>1
  <2>2. Head(ys) \in 0..n - 1 /\ zs \in Seq(0..n - 1) /\ Len(zs) = Len(ys) - 1
    BY HeadTailProperties
  <2>3. Len(ys) \in Nat /\ i + 1 \in Nat
    BY LenProperties
  <2>4. m[<<i, ys>>] = Len(ys) + (IF i < n THEN n - i ELSE 0)
    BY <1>1
  <2>5. <<i + 1, ys>> \in P /\ m[<<i + 1, ys>>] = Len(ys) + (IF i + 1 < n THEN n - (i + 1) ELSE 0)
    BY <1>1, <2>3
  <2>6. <<i + 1, zs>> \in P /\ m[<<i + 1, zs>>] = Len(zs) + (IF i + 1 < n THEN n - (i + 1) ELSE 0)
    BY <1>1, <2>2, <2>3
  <2> QED BY <2>2, <2>3, <2>4, <2>5, <2>6
<1>4. f0 \in [P -> Seq(Int)]
  OBVIOUS
<1>5. B \in [[P -> Seq(Int)] -> [P -> Seq(Int)]]
  <2>1. ASSUME NEW g \in [P -> Seq(Int)], NEW a \in P PROVE Body(g, a) \in Seq(Int)
    <3>1. a[1] \in Nat /\ a[2] \in Seq(0..n - 1)
      OBVIOUS
    <3> HIDE DEF m, P
    <3>2. CASE a[2] = <<>>
      <4>1. SL!aux1(a[1], n) \in Seq(Int)
        BY <3>1, Aux1Of
      <4> QED BY <3>2, <4>1
    <3>3. CASE a[2] # <<>> /\ a[1] < Head(a[2])
      <4>1. a[1] \in Int /\ g[<<a[1] + 1, a[2]>>] \in Seq(Int)
        BY <1>3, <3>3
      <4>2. \A x \in Int, ys \in Seq(Int) : <<x>> \o ys \in Seq(Int)
        BY ConcatProperties
      <4> QED BY <3>3, <4>1, <4>2
    <3>4. CASE a[2] # <<>> /\ ~(a[1] < Head(a[2]))
      <4>1. g[<<a[1] + 1, Tail(a[2])>>] \in Seq(Int)
        BY <1>3, <3>4
      <4> QED BY <3>4, <4>1
    <3> QED BY <3>2, <3>3, <3>4
  <2> HIDE DEF Body, P
  <2> QED BY <2>1
<1>6. ASSUME NEW g \in [P -> Seq(Int)], NEW h \in [P -> Seq(Int)], NEW a \in P,
             \A q \in P : m[q] < m[a] => g[q] = h[q]
      PROVE  B[g][a] = B[h][a]
  <2> HIDE DEF m, P
  <2>1. a[2] # <<>> =>
           /\ a[1] < Head(a[2]) => g[<<a[1] + 1, a[2]>>] = h[<<a[1] + 1, a[2]>>]
           /\ g[<<a[1] + 1, Tail(a[2])>>] = h[<<a[1] + 1, Tail(a[2])>>]
    BY <1>3, <1>6
  <2>2. Body(g, a) = Body(h, a)
    BY <2>1
  <2> HIDE DEF Body
  <2> QED BY <2>2
<1>7. \E f \in [P -> Seq(Int)] : B[f] = f
  <2> HIDE DEF B, m, f0, P
  <2>1. Recursive(P, Seq(Int), B, m)
    BY <1>2, <1>5, <1>6 DEF Recursive
  <2> QED BY <1>4, <2>1, Recursion
<1> DEFINE Solution(f) == f = [a \in P |-> Body(f, a)]
           F == CHOOSE f : Solution(f)
<1>8. \E f : Solution(f)
  <2> HIDE DEF Body
  <2> QED BY <1>7
<1>9. SL!intset_ncomplement(xs, n) = F[<<0, xs>>]
  BY DEF SL!intset_ncomplement
<1>10. Solution(F)
  <2> HIDE DEF Solution
  <2> QED BY <1>8
<1> HIDE DEF F
<1>11. ASSUME NEW i \in Nat, NEW ys \in Seq(0..n - 1)
       PROVE  F[<<i, ys>>] = IF ys = <<>> THEN SL!aux1(i, n)
                             ELSE IF i < Head(ys) THEN <<i>> \o F[<<i + 1, ys>>]
                             ELSE F[<<i + 1, Tail(ys)>>]
  <2>1. <<i, ys>> \in P
    OBVIOUS
  <2>2. F[<<i, ys>>] = Body(F, <<i, ys>>)
    <3> HIDE DEF Body, P
    <3> QED BY <1>10, <2>1
  <2> QED BY <2>2
<1> QED BY <1>9, <1>11

LEMMA Below == ASSUME NEW n \in Nat PROVE 0..n - 1 \subseteq Int
OBVIOUS

LEMMA FirstOf ==
    ASSUME NEW n \in Nat, NEW i \in Nat, i <= n - 1
    PROVE  {i} \cup (i + 1..n - 1) = i..n - 1
OBVIOUS

LEMMA ComplementOf ==
    ASSUME NEW n \in Nat, NEW xs \in Seq(0..n - 1), Increasing(xs),
           NEW zs, zs = SL!intset_ncomplement(xs, n)
    PROVE  zs \in Seq(Int) /\ Increasing(zs) /\ SL!elements(zs) = (0..n - 1) \ SL!elements(xs)
<1>1. PICK f :
        /\ SL!intset_ncomplement(xs, n) = f[<<0, xs>>]
        /\ \A i \in Nat, ys \in Seq(0..n - 1) :
              f[<<i, ys>>] = IF ys = <<>> THEN SL!aux1(i, n)
                             ELSE IF i < Head(ys) THEN <<i>> \o f[<<i + 1, ys>>]
                             ELSE f[<<i + 1, Tail(ys)>>]
  BY AuxRecursion
<1> DEFINE From(i, ys) == i \in Nat /\ ys \in Seq(0..n - 1) /\ Increasing(ys) /\ SL!elements(ys) \subseteq i..n - 1
           Rest(i, ys, zz) ==
               zz \in Seq(Int) /\ Increasing(zz) /\ SL!elements(zz) = (i..n - 1) \ SL!elements(ys)
           Size(i, ys) == Len(ys) + (IF i < n THEN n - i ELSE 0)
<1>2. ASSUME NEW i, NEW ys, From(i, ys),
             \A j, ts : From(j, ts) /\ Size(j, ts) < Size(i, ys) => Rest(j, ts, f[<<j, ts>>])
      PROVE  Rest(i, ys, f[<<i, ys>>])
  <2>0. i \in Nat /\ ys \in Seq(0..n - 1) /\ Increasing(ys) /\ SL!elements(ys) \subseteq i..n - 1
    BY <1>2
  <2> SUFFICES ASSUME NEW zz, zz = f[<<i, ys>>] PROVE Rest(i, ys, zz)
    OBVIOUS
  <2>1. CASE ys = <<>>
    <3>1. zz = SL!aux1(i, n)
      BY <1>1, <2>0, <2>1
    <3>2. zz \in Seq(Int) /\ Increasing(zz) /\ SL!elements(zz) = i..n - 1
      BY <2>0, <3>1, Aux1Of
    <3>3. SL!elements(ys) = {}
      BY <2>1, EmptyOf
    <3> QED BY <3>2, <3>3
  <2>2. CASE ys # <<>>
    <3> SUFFICES ASSUME NEW y, y = Head(ys), NEW ts, ts = Tail(ys) PROVE Rest(i, ys, zz)
      OBVIOUS
    <3>1. 0..n - 1 \subseteq Int
      BY Below
    <3>2. /\ y \in 0..n - 1 /\ y \in SL!elements(ys) /\ ts \in Seq(0..n - 1) /\ Increasing(ts)
          /\ Len(ts) = Len(ys) - 1
          /\ SL!elements(ys) = {y} \cup SL!elements(ts) /\ \A t \in SL!elements(ts) : y < t
      <4>1. Follows(0..n - 1, y, ys, ts)
        BY <2>0, <2>2, <3>1, TailOf
      <4> QED BY <4>1 DEF Follows
    <3>3. Len(ys) \in Nat /\ y \in i..n - 1 /\ i + 1 \in Nat
      BY <2>0, <3>2, LenProperties
    <3>4. CASE i < y
      <4>1. zz = <<i>> \o f[<<i + 1, ys>>]
        BY <1>1, <2>0, <2>2, <3>4
      <4>2. From(i + 1, ys)
        <5>1. \A t \in SL!elements(ys) : t \in i + 1..n - 1
          BY <2>0, <3>2, <3>3, <3>4
        <5> QED BY <2>0, <3>3, <5>1
      <4>3. Size(i + 1, ys) < Size(i, ys)
        BY <2>0, <3>3
      <4>4. Rest(i + 1, ys, f[<<i + 1, ys>>])
        BY <1>2, <4>2, <4>3
      <4> SUFFICES ASSUME NEW ws, ws = f[<<i + 1, ys>>] PROVE Rest(i, ys, zz)
        OBVIOUS
      <4>5. ws \in Seq(Int) /\ Increasing(ws) /\ SL!elements(ws) = (i + 1..n - 1) \ SL!elements(ys)
        BY <4>4
      <4>6. \A t \in SL!elements(ws) : i < t
        BY <2>0, <4>5
      <4>7. i \in Int /\ zz = <<i>> \o ws
        BY <2>0, <4>1
      <4>8. zz \in Seq(Int) /\ Increasing(zz) /\ SL!elements(zz) = {i} \cup SL!elements(ws)
        BY <4>5, <4>6, <4>7, ConsOf
      <4>9. i \notin SL!elements(ys)
        BY <4>2
      <4>10. {i} \cup ((i + 1..n - 1) \ SL!elements(ys)) = (i..n - 1) \ SL!elements(ys)
        <5>1. i <= n - 1
          BY <2>0, <3>3
        <5>2. {i} \cup (i + 1..n - 1) = i..n - 1
          BY <2>0, <5>1, FirstOf
        <5> QED BY <4>9, <5>2
      <4> QED BY <4>5, <4>8, <4>10
    <3>5. CASE i = y
      <4>1. zz = f[<<i + 1, ts>>]
        <5>1. ~(i < Head(ys))
          BY <2>0, <3>5
        <5> QED BY <1>1, <2>0, <2>2, <5>1
      <4>2. From(i + 1, ts)
        <5>1. \A t \in SL!elements(ts) : t \in i..n - 1 /\ i < t
          BY <2>0, <3>2, <3>5
        <5>2. \A t \in SL!elements(ts) : t \in i + 1..n - 1
          BY <2>0, <5>1
        <5> QED BY <3>2, <3>3, <5>2
      <4>3. Size(i + 1, ts) < Size(i, ys)
        BY <2>0, <3>2, <3>3
      <4>4. Rest(i + 1, ts, zz)
        <5> HIDE DEF From, Size, Rest
        <5> QED BY <1>2, <4>1, <4>2, <4>3
      <4>5. (i + 1..n - 1) \ SL!elements(ts) = (i..n - 1) \ SL!elements(ys)
        <5>1. i..n - 1 = {i} \cup (i + 1..n - 1) /\ i \notin i + 1..n - 1
          BY <2>0, <3>3
        <5> QED BY <3>2, <3>5, <5>1
      <4> QED BY <4>4, <4>5
    <3>6. i < y \/ i = y
      BY <2>0, <3>3
    <3> QED BY <3>4, <3>5, <3>6
  <2> QED BY <2>1, <2>2
<1>3. ASSUME NEW i, NEW ys, From(i, ys) PROVE Size(i, ys) \in Nat
  <2>1. Len(ys) \in Nat /\ i \in Nat
    BY <1>3, LenProperties
  <2> QED BY <2>1
<1>4. ASSUME NEW i, NEW ys, From(i, ys) PROVE Rest(i, ys, f[<<i, ys>>])
  <2> DEFINE T == {k \in Nat : \E j \in Nat, ts \in Seq(0..n - 1) :
                      From(j, ts) /\ k = Size(j, ts) /\ ~Rest(j, ts, f[<<j, ts>>])}
  <2>1. ASSUME T # {} PROVE FALSE
    <3>1. PICK k \in T : \A j \in T : k <= j
      BY <2>1, Minimum
    <3>2. PICK j \in Nat, ts \in Seq(0..n - 1) :
             From(j, ts) /\ k = Size(j, ts) /\ ~Rest(j, ts, f[<<j, ts>>])
      OBVIOUS
    <3>3. ASSUME NEW h, NEW us, From(h, us), Size(h, us) < Size(j, ts)
          PROVE  Rest(h, us, f[<<h, us>>])
      <4> SUFFICES ASSUME ~Rest(h, us, f[<<h, us>>]) PROVE FALSE
        OBVIOUS
      <4>1. Size(h, us) \in Nat /\ k \in Nat /\ h \in Nat /\ us \in Seq(0..n - 1)
        BY <1>3, <3>3
      <4> HIDE DEF From, Size, Rest
      <4>2. Size(h, us) \in T
        BY <3>3, <4>1
      <4>3. k <= Size(h, us)
        BY <3>1, <4>2
      <4> QED BY <3>2, <3>3, <4>1, <4>3
    <3> HIDE DEF From, Size, Rest
    <3> QED BY <1>2, <3>2, <3>3
  <2>2. i \in Nat /\ ys \in Seq(0..n - 1) /\ Size(i, ys) \in Nat
    BY <1>3, <1>4
  <2> HIDE DEF From, Size, Rest
  <2> QED BY <1>4, <2>1, <2>2
<1>5. From(0, xs)
  BY ElementsIn
<1> QED BY <1>1, <1>4, <1>5

-----------------------------------------------------------------------------
(* The lists of sets.                                                      *)

LEMMA IntsetSeq ==
    ASSUME NEW n, NEW xs \in SL!intset(n)
    PROVE  xs \in Seq(0..n - 1) /\ Increasing(xs) /\ SL!elements(xs) \subseteq 0..n - 1
<1>1. PICK k \in 0..n : xs \in [1..k -> 0..n - 1]
  BY DEF SL!intset
<1>2. xs \in Seq(0..n - 1)
  <2>1. k \in Nat
    OBVIOUS
  <2> QED BY <1>1, <2>1, SeqDef
<1>3. Increasing(xs)
  BY DEF SL!intset, Increasing
<1> QED BY <1>2, <1>3, ElementsIn

LEMMA SeqIntset ==
    ASSUME NEW n \in Nat, NEW xs \in Seq(Int), Increasing(xs), SL!elements(xs) \subseteq 0..n - 1
    PROVE  xs \in SL!intset(n)
<1>1. Len(xs) \in Nat /\ DOMAIN xs = 1..Len(xs) /\ xs \in [1..Len(xs) -> Int]
  BY LenProperties
<1>2. \A k \in 1..Len(xs) : xs[k] \in 0..n - 1
  BY <1>1 DEF SL!elements
<1>3. \A k \in 1..Len(xs) : k - 1 <= xs[k]
  <2> DEFINE T == {k \in 1..Len(xs) : xs[k] < k - 1}
  <2>1. ASSUME T # {} PROVE FALSE
    <3>1. T \in SUBSET Nat
      BY <1>1
    <3>2. PICK k \in T : \A j \in T : k <= j
      BY <2>1, <3>1, Minimum
    <3>3. k \in 1..Len(xs) /\ xs[k] < k - 1 /\ xs[k] \in 0..n - 1
      BY <1>2
    <3>4. k - 1 \in 1..Len(xs) /\ k - 1 < k
      BY <1>1, <3>3
    <3>5. xs[k - 1] < xs[k] /\ xs[k - 1] \in 0..n - 1
      BY <1>1, <1>2, <3>3, <3>4 DEF Increasing
    <3>6. k - 1 \in T
      BY <3>3, <3>4, <3>5
    <3>7. k <= k - 1
      BY <3>2, <3>6
    <3> QED BY <3>3, <3>7
  <2>2. ASSUME NEW k \in 1..Len(xs) PROVE k - 1 <= xs[k]
    <3>1. k \notin T /\ xs[k] \in 0..n - 1
      BY <1>2, <2>1
    <3> QED BY <1>1, <3>1
  <2> QED BY <2>2
<1>4. Len(xs) \in 0..n
  <2>1. CASE Len(xs) = 0
    BY <2>1
  <2>2. CASE Len(xs) # 0
    <3>1. Len(xs) \in 1..Len(xs)
      BY <1>1, <2>2
    <3>2. Len(xs) - 1 <= xs[Len(xs)] /\ xs[Len(xs)] \in 0..n - 1
      BY <1>2, <1>3, <3>1
    <3> QED BY <1>1, <3>2
  <2> QED BY <2>1, <2>2
<1>5. xs \in [1..Len(xs) -> 0..n - 1]
  BY <1>1, <1>2
<1> QED BY <1>4, <1>5 DEF SL!intset, Increasing

-----------------------------------------------------------------------------
(* The inductive invariant.                                                *)

Of(c) == SL!elements(chans[c].group)
Mat(c, i, j) == chans[c].chmat[<<i, j>>]
Held(c) == state[c] # "linked"

\* The holders of a session share the roles out.
Shares ==
    /\ \A b \in DOMAIN chans, i \in SL!Role :
          \E c \in DOMAIN chans : Held(c) /\ session[c] = session[b] /\ i \in Of(c)
    /\ \A c, d \in DOMAIN chans :
          Held(c) /\ Held(d) /\ session[c] = session[d] /\ c # d => Of(c) \cap Of(d) = {}

\* The uchans of a matrix are in their places, and of its session.
Matrices ==
    \A c \in DOMAIN chans, i, j \in SL!Role : Held(c) =>
        /\ Mat(c, i, j) # SL!Null =>
              /\ Mat(c, i, j)[2] = i /\ Mat(c, i, j)[3] = j
              /\ Mat(c, i, j)[1] \in DOMAIN chans
              /\ session[Mat(c, i, j)[1]] = session[c]
              /\ (i \in Of(c)) # (j \in Of(c))
        /\ state[c] = "open" /\ (i \in Of(c)) # (j \in Of(c)) => Mat(c, i, j) # SL!Null

Edges == {e \in SL!Uchans \X SL!Uchans : SL!Onward(e[1], e[2])}

\* A link leads from one uchan to another for the same two roles, in one session.
Straight ==
    \A u, v \in SL!Uchans : SL!Onward(u, v) =>
        /\ u[2] = v[2] /\ u[3] = v[3]
        /\ u[1] \in DOMAIN chans /\ v[1] \in DOMAIN chans
        /\ session[u[1]] = session[v[1]]
        /\ u # v

\* c holds the writer's reference to u, or the reader's.
Writes(c, u) == Held(c) /\ Mat(c, u[2], u[3]) = u /\ u[2] \in Of(c)
Reads(c, u) == Held(c) /\ Mat(c, u[2], u[3]) = u /\ u[3] \in Of(c)
Links(u) == \E l \in links : l[1] = u

\* Each of the two references is in one place.
OnePlace ==
    \A u \in SL!Uchans :
        /\ \A c, d \in DOMAIN chans : Writes(c, u) /\ Writes(d, u) => c = d
        /\ \A c \in DOMAIN chans : ~(Writes(c, u) /\ Links(u))
        /\ \A l, m \in links : l[1] = u /\ m[1] = u => l = m
        /\ \A c, d \in DOMAIN chans : Reads(c, u) /\ Reads(d, u) => c = d
        /\ \A c \in DOMAIN chans : Reads(c, u) => u \notin unrefs
        /\ \A v \in SL!Uchans : SL!Onward(v, u) =>
              /\ u \notin unrefs
              /\ \A c \in DOMAIN chans : ~Reads(c, u)
              /\ \A w \in SL!Uchans : SL!Onward(w, u) => v = w
        /\ lqnext[u] # SL!Null => ~Links(u) /\ \A c \in DOMAIN chans : ~Writes(c, u)

HasWriter(u) == Links(u) \/ \E c \in DOMAIN chans : Writes(c, u)
HasReader(u) ==
    u \in unrefs \/ (\E c \in DOMAIN chans : Reads(c, u)) \/ \E v \in SL!Uchans : SL!Onward(v, u)

Holders(u) == (IF HasWriter(u) THEN 1 ELSE 0) + (IF HasReader(u) THEN 1 ELSE 0)

LinkCounts ==
    /\ \A u \in SL!Uchans : lrfcnt[u] = Holders(u) /\ (lrfcnt[u] = 0 => lqnext[u] = SL!Null)
    /\ lrfcnt[SL!Null] = 0 /\ lqnext[SL!Null] = SL!Null

\* Nothing refers to uchans that have not been made.
Made == \A u \in unrefs : u[1] \in DOMAIN chans

\* w is in every set that u is in and no edge leads out of.
Reaches(E, u, w) ==
    \A S \in SUBSET SL!Uchans : u \in S /\ (\A e \in E : e[1] \in S => e[2] \in S) => w \in S

Routes ==
    \A c, d \in DOMAIN chans :
        state[c] = "open" /\ state[d] = "open" /\ session[c] = session[d] /\ c # d =>
            \A i \in Of(c), j \in Of(d) : Reaches(Edges, Mat(d, i, j), Mat(c, i, j))

\* Every set of uchans has one that no other of the set leads to.
Acyclic(E) ==
    \A S \in SUBSET SL!Uchans : S # {} => \E v \in S : \A x \in S : <<x, v>> \notin E

LinkInv ==
    /\ SL!TypeOK /\ Shares /\ Matrices /\ Straight /\ Made /\ OnePlace /\ LinkCounts /\ Routes
    /\ Acyclic(Edges)

-----------------------------------------------------------------------------
(* Reachability, and sets of edges without a circle.                       *)

LEMMA ReachesSelf == ASSUME NEW E, NEW u PROVE Reaches(E, u, u)
BY DEF Reaches

LEMMA ReachesMore ==
    ASSUME NEW E, NEW F, E \subseteq F, NEW u, NEW w, Reaches(E, u, w)
    PROVE  Reaches(F, u, w)
BY DEF Reaches

LEMMA ReachesOver ==
    ASSUME NEW E, NEW F, E \subseteq F, NEW u, NEW v, NEW x, NEW w,
           Reaches(E, u, v), <<v, x>> \in F, Reaches(E, x, w)
    PROVE  Reaches(F, u, w)
<1> SUFFICES ASSUME NEW S \in SUBSET SL!Uchans, u \in S,
                    \A e \in F : e[1] \in S => e[2] \in S
             PROVE  w \in S
  BY DEF Reaches
<1>1. v \in S
  BY DEF Reaches
<1>2. x \in S
  BY <1>1
<1> QED BY <1>2 DEF Reaches

\* Nothing in E leads to u, and F has what does not lead from it.
WithoutHead(E, F, u) == \A e \in E : e[2] # u /\ (e[1] # u => e \in F)

\* A uchan that nothing leads to is left out.
LEMMA ReachesLess ==
    ASSUME NEW E, NEW F, NEW u, NEW a, NEW w, a # u, Reaches(E, a, w), WithoutHead(E, F, u)
    PROVE  Reaches(F, a, w)
<1>0. \A e \in E : e[2] # u /\ (e[1] # u => e \in F)
  BY DEF WithoutHead
<1> SUFFICES ASSUME NEW S \in SUBSET SL!Uchans, a \in S,
                    \A e \in F : e[1] \in S => e[2] \in S
             PROVE  w \in S
  BY DEF Reaches
<1>1. \A e \in E : e[1] \in S \ {u} => e[2] \in S \ {u}
  BY <1>0
<1> QED BY <1>1 DEF Reaches

\* E leads from u to x only, and F has the rest of it.
HeadOf(E, F, u, x) == \A e \in E : IF e[1] = u THEN e[2] = x ELSE e \in F

\* A reader goes from u to the next.
LEMMA ReachesNext ==
    ASSUME NEW E, NEW F, NEW u \in SL!Uchans, NEW x, NEW w, w # u, Reaches(E, u, w),
           HeadOf(E, F, u, x)
    PROVE  Reaches(F, x, w)
<1>0. \A e \in E : IF e[1] = u THEN e[2] = x ELSE e \in F
  BY DEF HeadOf
<1> SUFFICES ASSUME NEW S \in SUBSET SL!Uchans, x \in S,
                    \A e \in F : e[1] \in S => e[2] \in S
             PROVE  w \in S
  BY DEF Reaches
<1>1. \A e \in E : e[1] \in S \cup {u} => e[2] \in S \cup {u}
  BY <1>0
<1> QED BY <1>1 DEF Reaches

LEMMA AcyclicLess ==
    ASSUME NEW E, NEW F, F \subseteq E, Acyclic(E) PROVE Acyclic(F)
BY DEF Acyclic

\* There is no circle over edges from one class of uchans to another, if there
\* is one edge of the kind for each label.
LEMMA AcyclicMore ==
    ASSUME NEW E, NEW F, NEW lab, NEW cls, Acyclic(E),
           \A u, v \in SL!Uchans : <<u, v>> \in E => lab[u] = lab[v] /\ cls[u] = cls[v],
           \A u, v \in SL!Uchans : <<u, v>> \in F \ E => lab[u] = lab[v] /\ cls[u] # cls[v],
           \A u, v, x, y \in SL!Uchans :
               <<u, v>> \in F \ E /\ <<x, y>> \in F \ E /\ lab[u] = lab[x] => u = x /\ v = y
    PROVE  Acyclic(F)
<1> SUFFICES ASSUME NEW S \in SUBSET SL!Uchans, S # {}
             PROVE  \E v \in S : \A x \in S : <<x, v>> \notin F
  BY DEF Acyclic
<1>1. PICK a \in S : TRUE
  OBVIOUS
<1> DEFINE A == {u \in S : lab[u] = lab[a]}
<1>2. A \in SUBSET SL!Uchans /\ A # {}
  BY <1>1
<1>3. PICK v \in A : \A x \in A : <<x, v>> \notin E
  BY <1>2 DEF Acyclic
<1>4. CASE \A x \in A : <<x, v>> \notin F
  <2>1. \A x \in S : <<x, v>> \in F => x \in A
    OBVIOUS
  <2> QED BY <2>1, <1>4
<1>5. CASE \E w \in A : <<w, v>> \in F
  <2>1. PICK w \in A : <<w, v>> \in F \ E
    BY <1>5, <1>3
  <2> DEFINE B == {u \in A : cls[u] = cls[w]}
  <2>2. B \in SUBSET SL!Uchans /\ B # {}
    OBVIOUS
  <2>3. PICK b \in B : \A x \in B : <<x, b>> \notin E
    BY <2>2 DEF Acyclic
  <2>4. ASSUME NEW x \in S, <<x, b>> \in F PROVE FALSE
    <3>1. lab[x] = lab[b] /\ x \in A
      BY <2>4
    <3>2. CASE <<x, b>> \in E
      BY <3>1, <3>2, <2>3
    <3>3. CASE <<x, b>> \notin E
      <4>1. x = w /\ b = v
        BY <3>1, <3>3, <2>1, <2>4
      <4> QED BY <4>1, <2>1
    <3> QED BY <3>2, <3>3
  <2> QED BY <2>4
<1> QED BY <1>4, <1>5

-----------------------------------------------------------------------------
(* Groups of roles.                                                        *)

LEMMA ComplementRoles ==
    ASSUME NEW xs \in SL!intset(nrole)
    PROVE  /\ SL!intset_ncomplement(xs, nrole) \in SL!intset(nrole)
           /\ SL!elements(SL!intset_ncomplement(xs, nrole)) = SL!Role \ SL!elements(xs)
<1>1. nrole \in Nat
  BY SessionLinkAssumption DEF SL!SessionLinkAssumption
<1>2. xs \in Seq(0..nrole - 1) /\ Increasing(xs)
  BY IntsetSeq
<1> SUFFICES ASSUME NEW zs, zs = SL!intset_ncomplement(xs, nrole)
             PROVE  zs \in SL!intset(nrole) /\ SL!elements(zs) = SL!Role \ SL!elements(xs)
  OBVIOUS
<1>3. zs \in Seq(Int) /\ Increasing(zs) /\ SL!elements(zs) = (0..nrole - 1) \ SL!elements(xs)
  BY <1>1, <1>2, ComplementOf
<1>4. zs \in SL!intset(nrole)
  BY <1>1, <1>3, SeqIntset
<1> QED BY <1>3, <1>4 DEF SL!Role

LEMMA SeqOfMore == ASSUME NEW n \in Nat, NEW xs \in Seq(0..n - 1) PROVE xs \in Seq(Int)
<1>1. Len(xs) \in Nat /\ DOMAIN xs = 1..Len(xs) /\ xs \in [1..Len(xs) -> 0..n - 1]
  BY LenProperties
<1>2. xs \in [1..Len(xs) -> Int]
  BY <1>1
<1> QED BY <1>1, <1>2, SeqDef

LEMMA UnionRoles ==
    ASSUME NEW xs \in SL!intset(nrole), NEW ys \in SL!intset(nrole)
    PROVE  /\ SL!intset_union[<<xs, ys>>] \in SL!intset(nrole)
           /\ SL!elements(SL!intset_union[<<xs, ys>>]) = SL!elements(xs) \cup SL!elements(ys)
<1>1. nrole \in Nat
  BY SessionLinkAssumption DEF SL!SessionLinkAssumption
<1>2. /\ xs \in Seq(Int) /\ Increasing(xs) /\ SL!elements(xs) \subseteq 0..nrole - 1
      /\ ys \in Seq(Int) /\ Increasing(ys) /\ SL!elements(ys) \subseteq 0..nrole - 1
  <2>1. /\ xs \in Seq(0..nrole - 1) /\ Increasing(xs) /\ SL!elements(xs) \subseteq 0..nrole - 1
        /\ ys \in Seq(0..nrole - 1) /\ Increasing(ys) /\ SL!elements(ys) \subseteq 0..nrole - 1
    BY IntsetSeq
  <2>2. xs \in Seq(Int) /\ ys \in Seq(Int)
    BY <1>1, <2>1, SeqOfMore
  <2> QED BY <2>1, <2>2
<1> SUFFICES ASSUME NEW zs, zs = SL!intset_union[<<xs, ys>>]
             PROVE  zs \in SL!intset(nrole) /\ SL!elements(zs) = SL!elements(xs) \cup SL!elements(ys)
  OBVIOUS
<1>3. zs \in Seq(Int) /\ Increasing(zs) /\ SL!elements(zs) = SL!elements(xs) \cup SL!elements(ys)
  BY <1>2, UnionOf DEF Merges
<1>4. zs \in SL!intset(nrole)
  BY <1>1, <1>2, <1>3, SeqIntset
<1> QED BY <1>3, <1>4

Channel == [group : SL!intset(nrole), chmat : [SL!Role \X SL!Role -> SL!Uchans \cup {SL!Null}]]

LEMMA ChannelOf ==
    ASSUME SL!TypeOK, NEW c \in DOMAIN chans
    PROVE  /\ chans[c] \in Channel
           /\ \A i, j \in SL!Role : Mat(c, i, j) \in SL!Uchans \cup {SL!Null}
           /\ Of(c) \subseteq SL!Role
<1>1. chans \in Seq(Channel)
  BY DEF SL!TypeOK, Channel
<1>2. chans[c] \in Channel
  BY <1>1
<1>3. \A i, j \in SL!Role : Mat(c, i, j) \in SL!Uchans \cup {SL!Null}
  BY <1>2 DEF Mat, Channel
<1>4. chans[c].group \in SL!intset(nrole)
  BY <1>2 DEF Channel
<1>5. Of(c) \subseteq SL!Role
  BY <1>4 DEF Of, SL!intset, SL!elements, SL!Role
<1> QED BY <1>2, <1>3, <1>5

-----------------------------------------------------------------------------
(* A reference is given up.                                                *)

LEMMA NullApart == SL!Null \notin SL!Uchans /\ \A u \in SL!Uchans : u # SL!Null
BY DEF SL!Null, SL!Uchans

\* What a call of uchan_unref leaves.
Dropped(u, x, others) ==
    /\ lrfcnt' \in [SL!Uchans \cup {SL!Null} -> 0..2]
    /\ lqnext' \in [SL!Uchans \cup {SL!Null} -> SL!Uchans \cup {SL!Null}]
    /\ unrefs' \subseteq SL!Uchans
    /\ lrfcnt'[u] = lrfcnt[u] - 1
    /\ \A v \in SL!Uchans \cup {SL!Null} : v # u => lrfcnt'[v] = lrfcnt[v] /\ lqnext'[v] = lqnext[v]
    /\ lrfcnt[u] = 2 => lqnext'[u] = x /\ unrefs' = others
    /\ lrfcnt[u] = 1 => lqnext'[u] = SL!Null /\ unrefs' = others \cup ({x} \ {SL!Null})

LEMMA Unref ==
    ASSUME SL!TypeOK, NEW u \in SL!Uchans, NEW x \in SL!Uchans \cup {SL!Null},
           NEW others \in SUBSET SL!Uchans, lrfcnt[u] \in {1, 2}, SL!uchan_unref(u, x, others)
    PROVE  Dropped(u, x, others)
<1> DEFINE D == SL!Uchans \cup {SL!Null}
<1>0. /\ u \in D /\ SL!Null \in D /\ x \in D
      /\ lrfcnt \in [D -> 0..2] /\ lqnext \in [D -> D]
  BY DEF SL!TypeOK
<1>1. CASE lrfcnt[u] = 2
  <2>1. /\ lrfcnt' = [lrfcnt EXCEPT ![u] = 1]
        /\ lqnext' = [lqnext EXCEPT ![u] = x] /\ unrefs' = others
    BY <1>1 DEF SL!uchan_unref
  <2>5. unrefs' \subseteq SL!Uchans
    BY <2>1
  <2> HIDE DEF D
  <2>2. lrfcnt' \in [D -> 0..2] /\ lqnext' \in [D -> D]
    BY <1>0, <2>1
  <2>3. lrfcnt'[u] = 1 /\ lqnext'[u] = x
        /\ \A v \in D : v # u => lrfcnt'[v] = lrfcnt[v] /\ lqnext'[v] = lqnext[v]
    BY <1>0, <2>1
  <2> QED BY <1>1, <2>1, <2>2, <2>3, <2>5 DEF D, Dropped
<1>2. CASE lrfcnt[u] = 1
  <2>1. /\ lrfcnt' = [lrfcnt EXCEPT ![u] = 0]
        /\ lqnext' = [lqnext EXCEPT ![u] = SL!Null] /\ unrefs' = others \cup ({x} \ {SL!Null})
    BY <1>2 DEF SL!uchan_unref
  <2>4. unrefs' \subseteq SL!Uchans
    BY <2>1
  <2> HIDE DEF D
  <2>2. lrfcnt' \in [D -> 0..2] /\ lqnext' \in [D -> D]
    BY <1>0, <2>1
  <2>3. lrfcnt'[u] = 0 /\ lqnext'[u] = SL!Null
        /\ \A v \in D : v # u => lrfcnt'[v] = lrfcnt[v] /\ lqnext'[v] = lqnext[v]
    BY <1>0, <2>1
  <2> QED BY <1>2, <2>1, <2>2, <2>3, <2>4 DEF D, Dropped
<1> QED BY <1>1, <1>2

\* What changes, for the writer's reference (w = 1) or the reader's.
Released(w, u, x) ==
    /\ u \in SL!Uchans /\ x \in SL!Uchans \cup {SL!Null} /\ w \in {0, 1}
    /\ IF w = 1 THEN HasWriter(u) ELSE u \in unrefs \/ \E c \in DOMAIN chans : Reads(c, u)
    /\ IF w = 1 THEN \A y \in SL!Uchans : SL!Onward(u, y) <=> y = x ELSE x = lqnext[u]
    /\ SL!uchan_unref(u, x, IF w = 1 THEN unrefs ELSE unrefs \ {u})
    /\ links' = {l \in links : w = 1 => l[1] # u}
    /\ DOMAIN chans' = DOMAIN chans
    /\ \A c \in DOMAIN chans, v \in SL!Uchans :
          /\ Writes(c, v)' <=> Writes(c, v) /\ ~(w = 1 /\ v = u)
          /\ Reads(c, v)' <=> Reads(c, v) /\ ~(w = 0 /\ v = u)
          /\ state[c] = "open" => state'[c] = "open" /\ chans'[c] = chans[c]
          /\ state'[c] = "open" => state[c] = "open"
          /\ Of(c)' = Of(c) /\ (Held(c)' <=> Held(c))
          /\ \A i, j \in SL!Role : Mat(c, i, j)' \in {Mat(c, i, j), SL!Null}
    /\ UNCHANGED session

LEMMA GivenUpEdges ==
    ASSUME LinkInv, NEW w, NEW u, NEW x, Released(w, u, x)
    PROVE  /\ lrfcnt[u] \in {1, 2}
           /\ lrfcnt[u] = 1 =>
                 /\ \A y \in SL!Uchans : ~SL!Onward(y, u) /\ (SL!Onward(u, y) <=> y = x)
                 /\ IF w = 1 THEN ~HasReader(u) ELSE ~HasWriter(u)
           /\ \A a, b \in SL!Uchans : SL!Onward(a, b)' <=> SL!Onward(a, b) /\ ~(a = u /\ lrfcnt[u] = 1)
<1>0. SL!TypeOK /\ OnePlace /\ LinkCounts /\ u \in SL!Uchans
  BY DEF LinkInv, Released
<1>1. lrfcnt[u] \in {1, 2} /\ (IF w = 1 THEN HasWriter(u) ELSE HasReader(u))
  BY <1>0 DEF LinkCounts, Holders, HasReader, Released
<1>2. lrfcnt[u] = 1 => IF w = 1 THEN ~HasReader(u) ELSE ~HasWriter(u)
  BY <1>0, <1>1 DEF LinkCounts, Holders
<1>3. ASSUME lrfcnt[u] = 1, NEW y \in SL!Uchans PROVE ~SL!Onward(y, u)
  <2>1. CASE w = 1
    BY <1>2, <1>3, <2>1 DEF HasReader
  <2>2. CASE w # 1
    BY <1>0, <2>2 DEF Released, OnePlace
  <2> QED BY <2>1, <2>2
<1>4. ASSUME lrfcnt[u] = 1, NEW y \in SL!Uchans PROVE SL!Onward(u, y) <=> y = x
  <2>1. CASE w = 1
    BY <2>1 DEF Released
  <2>2. CASE w # 1
    BY <1>2, <1>4, <2>2 DEF Released, HasWriter, Links, SL!Onward
  <2> QED BY <2>1, <2>2
<1>5. /\ \A v \in SL!Uchans : v # u => lqnext'[v] = lqnext[v]
      /\ lrfcnt[u] = 2 => lqnext'[u] = x
      /\ lrfcnt[u] = 1 => lqnext'[u] = SL!Null
  <2> DEFINE others == IF w = 1 THEN unrefs ELSE unrefs \ {u}
  <2>1. x \in SL!Uchans \cup {SL!Null} /\ others \in SUBSET SL!Uchans /\ SL!uchan_unref(u, x, others)
    BY <1>0 DEF Released, SL!TypeOK
  <2>2. Dropped(u, x, others)
    BY <1>0, <1>1, <2>1, Unref
  <2> QED BY <1>0, <2>2 DEF Dropped
<1>6. ASSUME NEW a \in SL!Uchans, NEW b \in SL!Uchans
      PROVE  SL!Onward(a, b)' <=> SL!Onward(a, b) /\ ~(a = u /\ lrfcnt[u] = 1)
  <2>1. CASE a # u
    BY <1>5, <2>1 DEF SL!Onward, Released
  <2>2. CASE a = u /\ lrfcnt[u] = 1
    <3>1. \A l \in links' : l[1] # u
      <4>1. CASE w = 1
        BY <4>1 DEF Released
      <4>2. CASE w # 1
        BY <4>2, <1>2, <2>2 DEF HasWriter, Links, Released
      <4> QED BY <4>1, <4>2
    <3> QED BY <1>5, <2>2, <3>1, NullApart DEF SL!Onward
  <2>3. CASE a = u /\ lrfcnt[u] = 2 /\ w = 1
    BY <1>5, <2>3 DEF SL!Onward, Released
  <2>4. CASE a = u /\ lrfcnt[u] = 2 /\ w # 1
    <3>1. links' = links
      BY <2>4 DEF Released
    <3> QED BY <1>5, <2>4, <3>1 DEF SL!Onward, Released
  <2> QED BY <1>1, <2>1, <2>2, <2>3, <2>4
<1> QED BY <1>1, <1>2, <1>3, <1>4, <1>6

\* References, and the links, after one was given up.
LEMMA GivenUpTokens ==
    ASSUME LinkInv, NEW w, NEW u, NEW x, Released(w, u, x)
    PROVE  /\ \A v \in SL!Uchans : HasWriter(v)' <=> HasWriter(v) /\ ~(w = 1 /\ v = u)
           /\ \A v \in SL!Uchans : HasReader(v)' <=> HasReader(v) /\ ~(w = 0 /\ v = u)
           /\ OnePlace'
<1>0. /\ SL!TypeOK /\ OnePlace /\ u \in SL!Uchans /\ x \in SL!Uchans \cup {SL!Null} /\ w \in {0, 1}
      /\ DOMAIN chans' = DOMAIN chans /\ links' = {l \in links : w = 1 => l[1] # u}
      /\ \A c \in DOMAIN chans, v \in SL!Uchans :
            /\ Writes(c, v)' <=> Writes(c, v) /\ ~(w = 1 /\ v = u)
            /\ Reads(c, v)' <=> Reads(c, v) /\ ~(w = 0 /\ v = u)
  BY DEF LinkInv, Released
<1>1. \A v \in SL!Uchans : Links(v)' <=> Links(v) /\ ~(w = 1 /\ v = u)
  BY <1>0 DEF Links
<1>2. ASSUME NEW v \in SL!Uchans
      PROVE  HasWriter(v)' <=> HasWriter(v) /\ ~(w = 1 /\ v = u)
  BY <1>0, <1>1 DEF HasWriter
<1>3. /\ lrfcnt[u] \in {1, 2}
      /\ lrfcnt[u] = 1 =>
            /\ \A y \in SL!Uchans : ~SL!Onward(y, u) /\ (SL!Onward(u, y) <=> y = x)
            /\ IF w = 1 THEN ~HasReader(u) ELSE ~HasWriter(u)
      /\ \A a, b \in SL!Uchans : SL!Onward(a, b)' <=> SL!Onward(a, b) /\ ~(a = u /\ lrfcnt[u] = 1)
  BY GivenUpEdges
<1> DEFINE others == IF w = 1 THEN unrefs ELSE unrefs \ {u}
<1>4. x \in SL!Uchans \cup {SL!Null} /\ others \in SUBSET SL!Uchans /\ SL!uchan_unref(u, x, others)
  BY <1>0 DEF Released, SL!TypeOK
<1>5. /\ \A v \in SL!Uchans : v # u => lqnext'[v] = lqnext[v]
      /\ lrfcnt[u] = 2 => lqnext'[u] = x /\ unrefs' = others
      /\ lrfcnt[u] = 1 => lqnext'[u] = SL!Null /\ unrefs' = others \cup ({x} \ {SL!Null})
  <2>1. Dropped(u, x, others)
    BY <1>0, <1>3, <1>4, Unref
  <2> QED BY <2>1 DEF Dropped
<1>6. w = 0 => /\ u \in unrefs \/ \E c \in DOMAIN chans : Reads(c, u)
               /\ \A y \in SL!Uchans : ~SL!Onward(y, u)
  BY <1>0 DEF Released, OnePlace
<1>7. \A v \in SL!Uchans :
         v \in unrefs' <=> (v \in unrefs /\ ~(w = 0 /\ v = u)) \/ (lrfcnt[u] = 1 /\ SL!Onward(u, v))
  <2>1. ASSUME NEW v \in SL!Uchans PROVE v \in others <=> v \in unrefs /\ ~(w = 0 /\ v = u)
    BY <1>0
  <2>2. \A v \in SL!Uchans : lrfcnt[u] = 1 => (SL!Onward(u, v) <=> v \in {x} \ {SL!Null})
    BY <1>3, NullApart
  <2> HIDE DEF others
  <2>3. CASE lrfcnt[u] = 2
    BY <1>5, <2>1, <2>3
  <2>4. CASE lrfcnt[u] = 1
    BY <1>5, <2>1, <2>2, <2>4
  <2> QED BY <1>3, <2>3, <2>4
<1>8. ASSUME NEW v \in SL!Uchans
      PROVE  HasReader(v)' <=> HasReader(v) /\ ~(w = 0 /\ v = u)
  <2>1. CASE w = 0 /\ v = u
    <3>1. v \notin unrefs'
      BY <1>3, <1>7, <2>1
    <3>2. \A y \in SL!Uchans : ~SL!Onward(y, v)'
      BY <1>3, <1>6, <2>1
    <3>3. \A c \in DOMAIN chans : ~Reads(c, v)'
      BY <1>0, <2>1
    <3> QED BY <1>0, <2>1, <3>1, <3>2, <3>3 DEF HasReader
  <2>2. CASE ~(w = 0 /\ v = u)
    <3>1. \A c \in DOMAIN chans : Reads(c, v)' <=> Reads(c, v)
      BY <1>0, <2>2
    <3>2. v \in unrefs' \/ (\E y \in SL!Uchans : SL!Onward(y, v)')
             <=> v \in unrefs \/ \E y \in SL!Uchans : SL!Onward(y, v)
      <4>1. CASE lrfcnt[u] = 1
        BY <1>0, <1>3, <1>7, <2>2, <4>1
      <4>2. CASE lrfcnt[u] # 1
        BY <1>3, <1>7, <2>2, <4>2
      <4> QED BY <4>1, <4>2
    <3>3. (\E c \in DOMAIN chans' : Reads(c, v)') <=> \E c \in DOMAIN chans : Reads(c, v)
      BY <1>0, <3>1
    <3> QED BY <2>2, <3>2, <3>3 DEF HasReader
  <2> QED BY <2>1, <2>2
<1>9. ASSUME NEW v \in SL!Uchans
      PROVE  /\ \A c, d \in DOMAIN chans : Writes(c, v)' /\ Writes(d, v)' => c = d
             /\ \A c \in DOMAIN chans : ~(Writes(c, v)' /\ Links(v)')
             /\ \A l, m \in links' : l[1] = v /\ m[1] = v => l = m
             /\ \A c, d \in DOMAIN chans : Reads(c, v)' /\ Reads(d, v)' => c = d
             /\ \A c \in DOMAIN chans : Reads(c, v)' => v \notin unrefs'
             /\ \A y \in SL!Uchans : SL!Onward(y, v)' =>
                   /\ v \notin unrefs'
                   /\ \A c \in DOMAIN chans : ~Reads(c, v)'
                   /\ \A z \in SL!Uchans : SL!Onward(z, v)' => y = z
             /\ lqnext'[v] # SL!Null => ~Links(v)' /\ \A c \in DOMAIN chans : ~Writes(c, v)'
  <2>1. /\ \A c, d \in DOMAIN chans : Writes(c, v)' /\ Writes(d, v)' => c = d
        /\ \A c, d \in DOMAIN chans : Reads(c, v)' /\ Reads(d, v)' => c = d
        /\ \A c \in DOMAIN chans : ~(Writes(c, v)' /\ Links(v)')
    BY <1>0, <1>1 DEF OnePlace
  <2>2. \A l, m \in links' : l[1] = v /\ m[1] = v => l = m
    BY <1>0 DEF OnePlace
  <2>3. \A c \in DOMAIN chans : Reads(c, v)' => v \notin unrefs'
    BY <1>0, <1>7 DEF OnePlace
  <2>4. \A y \in SL!Uchans : SL!Onward(y, v)' =>
            /\ v \notin unrefs'
            /\ \A c \in DOMAIN chans : ~Reads(c, v)'
            /\ \A z \in SL!Uchans : SL!Onward(z, v)' => y = z
    BY <1>0, <1>3, <1>7 DEF OnePlace
  <2>5. lqnext'[v] # SL!Null => ~Links(v)' /\ \A c \in DOMAIN chans : ~Writes(c, v)'
    <3>1. CASE v # u
      BY <1>0, <1>1, <1>5, <3>1 DEF OnePlace
    <3>2. CASE v = u /\ w = 1
      BY <1>0, <1>1, <3>2
    <3>3. CASE v = u /\ w # 1
      <4>1. lqnext'[u] \in {SL!Null, lqnext[u]}
        BY <1>3, <1>5, <3>3 DEF Released
      <4> QED BY <1>0, <1>1, <3>3, <4>1 DEF OnePlace
    <3> QED BY <3>1, <3>2, <3>3
  <2> QED BY <2>1, <2>2, <2>3, <2>4, <2>5
<1>10. OnePlace'
  BY <1>0, <1>9 DEF OnePlace
<1> QED BY <1>2, <1>8, <1>10

LEMMA GivenUpKeeps ==
    ASSUME LinkInv, NEW w, NEW u, NEW x, Released(w, u, x), SL!TypeOK'
    PROVE  LinkInv'
<1>0. /\ SL!TypeOK /\ Shares /\ Matrices /\ Straight /\ Made /\ OnePlace /\ LinkCounts /\ Routes
      /\ Acyclic(Edges) /\ u \in SL!Uchans /\ x \in SL!Uchans \cup {SL!Null} /\ w \in {0, 1}
      /\ DOMAIN chans' = DOMAIN chans /\ session' = session
  BY DEF LinkInv, Released
<1> DEFINE D == DOMAIN chans
<1>1. /\ \A c \in D, v \in SL!Uchans :
            /\ Writes(c, v)' <=> Writes(c, v) /\ ~(w = 1 /\ v = u)
            /\ Reads(c, v)' <=> Reads(c, v) /\ ~(w = 0 /\ v = u)
      /\ \A c \in D :
            /\ state[c] = "open" => state'[c] = "open" /\ chans'[c] = chans[c]
            /\ state'[c] = "open" => state[c] = "open"
            /\ Of(c)' = Of(c) /\ (Held(c)' <=> Held(c))
            /\ \A i, j \in SL!Role : Mat(c, i, j)' \in {Mat(c, i, j), SL!Null}
  BY <1>0 DEF Released
<1>2. /\ lrfcnt[u] \in {1, 2}
      /\ lrfcnt[u] = 1 =>
            /\ \A y \in SL!Uchans : ~SL!Onward(y, u) /\ (SL!Onward(u, y) <=> y = x)
            /\ IF w = 1 THEN ~HasReader(u) ELSE ~HasWriter(u)
      /\ \A a, b \in SL!Uchans : SL!Onward(a, b)' <=> SL!Onward(a, b) /\ ~(a = u /\ lrfcnt[u] = 1)
  BY GivenUpEdges
<1>3. /\ \A v \in SL!Uchans : HasWriter(v)' <=> HasWriter(v) /\ ~(w = 1 /\ v = u)
      /\ \A v \in SL!Uchans : HasReader(v)' <=> HasReader(v) /\ ~(w = 0 /\ v = u)
      /\ OnePlace'
  BY GivenUpTokens
<1> DEFINE others == IF w = 1 THEN unrefs ELSE unrefs \ {u}
<1>4. others \in SUBSET SL!Uchans /\ SL!uchan_unref(u, x, others)
  BY <1>0 DEF Released, SL!TypeOK
<1>5. /\ lrfcnt'[u] = lrfcnt[u] - 1
      /\ \A v \in SL!Uchans \cup {SL!Null} : v # u => lrfcnt'[v] = lrfcnt[v] /\ lqnext'[v] = lqnext[v]
      /\ lrfcnt[u] = 2 => unrefs' = others
      /\ lrfcnt[u] = 1 => lqnext'[u] = SL!Null /\ unrefs' = others \cup ({x} \ {SL!Null})
  <2>1. Dropped(u, x, others)
    BY <1>0, <1>2, <1>4, Unref
  <2> QED BY <2>1 DEF Dropped
<1>6. /\ D' = D
      /\ \A c \in D, i, j \in SL!Role : state[c] = "open" => Mat(c, i, j)' = Mat(c, i, j)
  BY <1>0, <1>1 DEF Mat
<1>7. Edges' \subseteq Edges /\ (lrfcnt[u] = 2 => Edges' = Edges)
      /\ \A e \in Edges : e[1] # u => e \in Edges'
  <2>1. \A e \in SL!Uchans \X SL!Uchans : e[1] \in SL!Uchans /\ e[2] \in SL!Uchans
    OBVIOUS
  <2>2. \A e \in SL!Uchans \X SL!Uchans : e \in Edges' <=> e \in Edges /\ ~(e[1] = u /\ lrfcnt[u] = 1)
    BY <1>2, <2>1 DEF Edges
  <2>3. Edges \subseteq SL!Uchans \X SL!Uchans /\ Edges' \subseteq SL!Uchans \X SL!Uchans
    BY DEF Edges
  <2>4. Edges' \subseteq Edges /\ \A e \in Edges : e[1] # u => e \in Edges'
    BY <2>2, <2>3
  <2>5. lrfcnt[u] = 2 => Edges \subseteq Edges'
    BY <2>2, <2>3
  <2> QED BY <2>4, <2>5
<1>8. Shares'
  <2>1. \A b \in D, i \in SL!Role :
          \E c \in D : Held(c)' /\ session[c] = session[b] /\ i \in Of(c)'
    BY <1>0, <1>1 DEF Shares
  <2>2. \A c, d \in D :
          Held(c)' /\ Held(d)' /\ session[c] = session[d] /\ c # d => Of(c)' \cap Of(d)' = {}
    BY <1>0, <1>1 DEF Shares
  <2> QED BY <1>0, <2>1, <2>2 DEF Shares
<1>9. Matrices'
  <2> SUFFICES ASSUME NEW c \in D, NEW i \in SL!Role, NEW j \in SL!Role, Held(c)'
               PROVE  /\ Mat(c, i, j)' # SL!Null =>
                            /\ Mat(c, i, j)'[2] = i /\ Mat(c, i, j)'[3] = j
                            /\ Mat(c, i, j)'[1] \in D
                            /\ session[Mat(c, i, j)'[1]] = session[c]
                            /\ (i \in Of(c)') # (j \in Of(c)')
                      /\ state'[c] = "open" /\ (i \in Of(c)') # (j \in Of(c)') =>
                            Mat(c, i, j)' # SL!Null
    BY <1>0 DEF Matrices
  <2>1. Mat(c, i, j)' \in {Mat(c, i, j), SL!Null} /\ Of(c)' = Of(c) /\ Held(c)
    BY <1>1
  <2>2. state'[c] = "open" => state[c] = "open" /\ Mat(c, i, j)' = Mat(c, i, j)
    BY <1>1, <1>6
  <2> QED BY <1>0, <2>1, <2>2 DEF Matrices
<1>10. Straight'
  <2>1. \A a, b \in SL!Uchans : SL!Onward(a, b)' => SL!Onward(a, b)
    BY <1>2
  <2> QED BY <1>0, <2>1 DEF Straight
<1>11. Made'
  <2>1. \A v \in others : v[1] \in D
    BY <1>0 DEF Made
  <2>2. lrfcnt[u] = 1 /\ x # SL!Null => x[1] \in D
    BY <1>0, <1>2 DEF Straight
  <2> HIDE DEF others
  <2>3. \A v \in unrefs' : v[1] \in D
    BY <1>2, <1>5, <2>1, <2>2
  <2> QED BY <1>0, <2>3 DEF Made
<1>12. LinkCounts'
  <2>1. ASSUME NEW v \in SL!Uchans PROVE lrfcnt'[v] = Holders(v)'
    <3>1. lrfcnt[v] = Holders(v)
      BY <1>0 DEF LinkCounts
    <3>2. CASE v # u
      <4>1. Holders(v)' = Holders(v)
        BY <1>3, <3>2 DEF Holders
      <4> QED BY <1>5, <3>1, <3>2, <4>1
    <3>3. CASE v = u
      <4>1. IF w = 1 THEN HasWriter(u) ELSE HasReader(u)
        BY <1>0 DEF Released, HasReader
      <4>2. Holders(u)' = Holders(u) - 1
        BY <1>0, <1>3, <4>1 DEF Holders
      <4> QED BY <1>5, <3>1, <3>3, <4>2
    <3> QED BY <3>2, <3>3
  <2>2. ASSUME NEW v \in SL!Uchans, lrfcnt'[v] = 0 PROVE lqnext'[v] = SL!Null
    BY <1>0, <1>2, <1>5, <2>2 DEF LinkCounts
  <2>3. lrfcnt'[SL!Null] = 0 /\ lqnext'[SL!Null] = SL!Null
    BY <1>0, <1>5, NullApart DEF LinkCounts
  <2> QED BY <2>1, <2>2, <2>3 DEF LinkCounts
<1>13. Routes'
  <2> SUFFICES ASSUME NEW c \in D, NEW d \in D, state'[c] = "open", state'[d] = "open",
                      session[c] = session[d], c # d, NEW i \in Of(c)', NEW j \in Of(d)'
               PROVE  Reaches(Edges', Mat(d, i, j)', Mat(c, i, j)')
    BY <1>0 DEF Routes, Reaches
  <2>1. state[c] = "open" /\ state[d] = "open" /\ i \in Of(c) /\ j \in Of(d)
    BY <1>1
  <2>2. i \in SL!Role /\ j \in SL!Role
    BY <1>0, <2>1, ChannelOf
  <2>3. Mat(c, i, j)' = Mat(c, i, j) /\ Mat(d, i, j)' = Mat(d, i, j)
    BY <1>6, <2>1, <2>2
  <2>4. Reaches(Edges, Mat(d, i, j), Mat(c, i, j))
    BY <1>0, <2>1 DEF Routes
  <2>5. CASE lrfcnt[u] = 2
    BY <1>7, <2>3, <2>4, <2>5
  <2>6. CASE lrfcnt[u] = 1
    <3>1. j \notin Of(c) /\ i \notin Of(d)
      BY <1>0, <2>1 DEF Shares, Held
    <3>2. Mat(d, i, j) # SL!Null /\ Mat(d, i, j)[2] = i /\ Mat(d, i, j)[3] = j
      BY <1>0, <2>1, <2>2, <3>1 DEF Matrices, Held
    <3>3. Mat(d, i, j) # u
      <4> SUFFICES ASSUME Mat(d, i, j) = u PROVE FALSE
        OBVIOUS
      <4>1. Reads(d, u) /\ Reads(d, u)'
        BY <1>1, <2>1, <2>3, <3>2 DEF Reads, Held
      <4>2. w = 1
        BY <1>0, <1>1, <4>1
      <4> QED BY <1>2, <2>6, <4>1, <4>2 DEF HasReader
    <3>4. WithoutHead(Edges, Edges', u)
      BY <1>2, <1>7, <2>6 DEF Edges, WithoutHead
    <3> QED BY <2>3, <2>4, <3>3, <3>4, ReachesLess
  <2> QED BY <1>2, <2>5, <2>6
<1>14. Acyclic(Edges)'
  BY <1>0, <1>7, AcyclicLess DEF Acyclic
<1> QED BY <1>3, <1>8, <1>9, <1>10, <1>11, <1>12, <1>13, <1>14 DEF LinkInv

LEMMA LinkUchanKeeps ==
    ASSUME LinkInv, NEW l \in links, SL!LinkUchan(l[1], l[2], l[3]) PROVE LinkInv'
<1> DEFINE u == l[1]
           x == l[2]
<1>0. SL!TypeOK /\ OnePlace /\ LinkCounts
  BY DEF LinkInv
<1>1. l = <<u, x, l[3]>> /\ u \in SL!Uchans /\ x \in SL!Uchans /\ l[3] \in DOMAIN chans
  BY <1>0 DEF SL!TypeOK
<1>2. /\ lqnext[u] = SL!Null /\ SL!uchan_unref(u, x, unrefs) /\ links' = links \ {l}
      /\ UNCHANGED <<chans, state, session, received, plan>>
  BY <1>1 DEF SL!LinkUchan
<1>3. \A m \in links : m[1] = u <=> m = l
  BY <1>0, <1>1 DEF OnePlace
<1>4. \A y \in SL!Uchans : SL!Onward(u, y) <=> y = x
  BY <1>2, <1>3, NullApart DEF SL!Onward
<1>5. HasWriter(u) /\ \A c \in DOMAIN chans : ~Writes(c, u)
  BY <1>0, <1>1 DEF HasWriter, Links, OnePlace
<1>6. links' = {m \in links : 1 = 1 => m[1] # u}
  BY <1>2, <1>3
<1>7. \A c \in DOMAIN chans, v \in SL!Uchans :
          /\ Writes(c, v)' <=> Writes(c, v) /\ ~(1 = 1 /\ v = u)
          /\ Reads(c, v)' <=> Reads(c, v) /\ ~(1 = 0 /\ v = u)
  BY <1>2, <1>5 DEF Writes, Reads, Held, Mat, Of
<1>8. Released(1, u, x)
  BY <1>1, <1>2, <1>4, <1>5, <1>6, <1>7 DEF Released, Held, Mat, Of
<1>9. SL!TypeOK'
  <2>1. lrfcnt[u] \in {1, 2}
    BY <1>0, <1>1, <1>5 DEF LinkCounts, Holders
  <2>2. /\ lrfcnt' \in [SL!Uchans \cup {SL!Null} -> 0..2]
        /\ lqnext' \in [SL!Uchans \cup {SL!Null} -> SL!Uchans \cup {SL!Null}]
        /\ unrefs' \subseteq SL!Uchans
    <3>1. unrefs \in SUBSET SL!Uchans
      BY <1>0 DEF SL!TypeOK
    <3>2. Dropped(u, x, unrefs)
      BY <1>0, <1>1, <1>2, <2>1, <3>1, Unref
    <3> QED BY <3>2 DEF Dropped
  <2> QED BY <1>0, <1>2, <2>2 DEF SL!TypeOK
<1> QED BY <1>8, <1>9, GivenUpKeeps

LEMMA UnrefNextKeeps ==
    ASSUME LinkInv, NEW u \in unrefs, SL!UnrefNext(u) PROVE LinkInv'
<1>0. SL!TypeOK /\ OnePlace /\ LinkCounts
  BY DEF LinkInv
<1>1. u \in SL!Uchans /\ lqnext[u] \in SL!Uchans \cup {SL!Null}
  BY <1>0 DEF SL!TypeOK
<1>2. /\ SL!uchan_unref(u, lqnext[u], unrefs \ {u})
      /\ UNCHANGED <<chans, state, links, session, received, plan>>
  BY DEF SL!UnrefNext
<1>5. HasReader(u) /\ \A c \in DOMAIN chans : ~Reads(c, u)
  BY <1>0, <1>1 DEF HasReader, OnePlace
<1>6. links' = {m \in links : 0 = 1 => m[1] # u}
  BY <1>2
<1>7. \A c \in DOMAIN chans, v \in SL!Uchans :
          /\ Writes(c, v)' <=> Writes(c, v) /\ ~(0 = 1 /\ v = u)
          /\ Reads(c, v)' <=> Reads(c, v) /\ ~(0 = 0 /\ v = u)
  BY <1>2, <1>5 DEF Writes, Reads, Held, Mat, Of
<1>8. Released(0, u, lqnext[u])
  BY <1>1, <1>2, <1>6, <1>7 DEF Released, Held, Mat, Of
<1>9. SL!TypeOK'
  <2>1. lrfcnt[u] \in {1, 2}
    BY <1>0, <1>1, <1>5 DEF LinkCounts, Holders
  <2>2. /\ lrfcnt' \in [SL!Uchans \cup {SL!Null} -> 0..2]
        /\ lqnext' \in [SL!Uchans \cup {SL!Null} -> SL!Uchans \cup {SL!Null}]
        /\ unrefs' \subseteq SL!Uchans
    <3>1. unrefs \ {u} \in SUBSET SL!Uchans
      BY <1>0 DEF SL!TypeOK
    <3>2. Dropped(u, lqnext[u], unrefs \ {u})
      BY <1>0, <1>1, <1>2, <2>1, <3>1, Unref
    <3> QED BY <3>2 DEF Dropped
  <2> QED BY <1>0, <1>2, <2>2 DEF SL!TypeOK
<1> QED BY <1>8, <1>9, GivenUpKeeps

\* One place of one matrix changes.
Put(c, ij, x) == chans' = [chans EXCEPT ![c].chmat[ij] = x]

LEMMA MatExcept ==
    ASSUME SL!TypeOK, NEW c \in DOMAIN chans, NEW ij \in SL!Role \X SL!Role,
           NEW x \in SL!Uchans \cup {SL!Null}, Put(c, ij, x)
    PROVE  /\ chans' \in Seq(Channel) /\ Len(chans') = Len(chans)
           /\ DOMAIN chans' = DOMAIN chans
           /\ \A d \in DOMAIN chans :
                 /\ Of(d)' = Of(d)
                 /\ d # c => chans'[d] = chans[d]
                 /\ \A i, j \in SL!Role :
                       Mat(d, i, j)' = IF d = c /\ <<i, j>> = ij THEN x ELSE Mat(d, i, j)
<1>1. chans \in Seq(Channel)
  BY DEF SL!TypeOK, Channel
<1> DEFINE new == [chans[c] EXCEPT !.chmat[ij] = x]
<1>2. chans[c] \in Channel
  BY ChannelOf
<1>3. new \in Channel /\ new.group = chans[c].group
      /\ \A kl \in SL!Role \X SL!Role : new.chmat[kl] = IF kl = ij THEN x ELSE chans[c].chmat[kl]
  <2> DEFINE mat == [chans[c].chmat EXCEPT ![ij] = x]
  <2>1. /\ mat \in [SL!Role \X SL!Role -> SL!Uchans \cup {SL!Null}]
        /\ \A kl \in SL!Role \X SL!Role : mat[kl] = IF kl = ij THEN x ELSE chans[c].chmat[kl]
    BY <1>2 DEF Channel
  <2>2. new = [chans[c] EXCEPT !.chmat = mat]
    OBVIOUS
  <2> HIDE DEF mat, new
  <2> QED BY <1>2, <2>1, <2>2 DEF Channel
<1>4. chans' = [chans EXCEPT ![c] = new]
  BY DEF Put
<1> HIDE DEF new
<1>5. /\ chans' \in Seq(Channel) /\ Len(chans') = Len(chans)
      /\ DOMAIN chans' = DOMAIN chans
      /\ \A d \in DOMAIN chans : chans'[d] = IF d = c THEN new ELSE chans[d]
  BY <1>1, <1>3, <1>4
<1>6. ASSUME NEW d \in DOMAIN chans, NEW i \in SL!Role, NEW j \in SL!Role
      PROVE  Mat(d, i, j)' = IF d = c /\ <<i, j>> = ij THEN x ELSE Mat(d, i, j)
  BY <1>3, <1>5 DEF Mat
<1>7. \A d \in DOMAIN chans : Of(d)' = Of(d)
  BY <1>3, <1>5 DEF Of
<1> QED BY <1>5, <1>6, <1>7

LEMMA CloseUchanKeeps ==
    ASSUME LinkInv, NEW c \in DOMAIN chans, NEW ij \in SL!Role \X SL!Role, SL!CloseUchan(c, ij)
    PROVE  LinkInv'
<1> DEFINE i == ij[1]
           j == ij[2]
           u == Mat(c, i, j)
           w == IF i \in Of(c) THEN 1 ELSE 0
<1>0. SL!TypeOK /\ OnePlace /\ LinkCounts /\ Matrices /\ i \in SL!Role /\ j \in SL!Role /\ ij = <<i, j>>
  BY DEF LinkInv
<1>1. /\ state[c] = "closed" /\ u # SL!Null /\ SL!uchan_unref(u, lqnext[u], unrefs)
      /\ Put(c, ij, SL!Null)
      /\ UNCHANGED <<state, links, session, received, plan>>
  BY <1>0 DEF SL!CloseUchan, Mat, Put
<1>2. u \in SL!Uchans
  BY <1>0, <1>1, ChannelOf
<1> HIDE DEF i, j, u
<1>3. u[2] = i /\ u[3] = j /\ (i \in Of(c)) # (j \in Of(c)) /\ Held(c)
  BY <1>0, <1>1 DEF Matrices, Held, u
<1>4. IF w = 1 THEN Writes(c, u) /\ ~Reads(c, u) ELSE Reads(c, u) /\ ~Writes(c, u)
  BY <1>3 DEF Writes, Reads, u
<1>5. /\ chans' \in Seq(Channel) /\ Len(chans') = Len(chans)
      /\ DOMAIN chans' = DOMAIN chans
      /\ \A d \in DOMAIN chans :
            /\ Of(d)' = Of(d)
            /\ d # c => chans'[d] = chans[d]
            /\ \A k, l \in SL!Role :
                  Mat(d, k, l)' = IF d = c /\ <<k, l>> = ij THEN SL!Null ELSE Mat(d, k, l)
  BY <1>0, <1>1, MatExcept
<1>6. ASSUME NEW d \in DOMAIN chans, NEW v \in SL!Uchans
      PROVE  /\ Writes(d, v)' <=> Writes(d, v) /\ ~(w = 1 /\ v = u)
             /\ Reads(d, v)' <=> Reads(d, v) /\ ~(w = 0 /\ v = u)
  <2>1. v[2] \in SL!Role /\ v[3] \in SL!Role /\ v # SL!Null
    BY NullApart DEF SL!Uchans
  <2>2. Held(d)' <=> Held(d)
    BY <1>1 DEF Held
  <2>3. Mat(d, v[2], v[3])' = IF d = c /\ <<v[2], v[3]>> = ij THEN SL!Null ELSE Mat(d, v[2], v[3])
    BY <1>5, <2>1
  <2>4. CASE d = c /\ v[2] = i /\ v[3] = j
    <3>1. Mat(d, v[2], v[3])' = SL!Null /\ Mat(d, v[2], v[3]) = u
      BY <1>0, <2>3, <2>4 DEF u
    <3> QED BY <1>4, <2>1, <2>4, <3>1 DEF Writes, Reads
  <2>5. CASE ~(d = c /\ v[2] = i /\ v[3] = j)
    <3>1. Mat(d, v[2], v[3])' = Mat(d, v[2], v[3])
      BY <1>0, <2>3, <2>5
    <3>2. v = u => d # c
      BY <1>3, <2>5
    <3>3. (Writes(d, v)' <=> Writes(d, v)) /\ (Reads(d, v)' <=> Reads(d, v))
      BY <1>5, <2>2, <3>1 DEF Writes, Reads
    <3>4. v = u => IF w = 1 THEN ~Writes(d, v) ELSE ~Reads(d, v)
      BY <1>0, <1>2, <1>4, <3>2 DEF OnePlace
    <3> QED BY <3>3, <3>4
  <2> QED BY <2>4, <2>5
<1>7. /\ IF w = 1 THEN HasWriter(u) ELSE \E d \in DOMAIN chans : Reads(d, u)
      /\ w = 1 => lqnext[u] = SL!Null /\ ~Links(u)
      /\ w # 1 => u \notin unrefs
  BY <1>0, <1>2, <1>4 DEF HasWriter, OnePlace
<1>8. w = 1 => \A y \in SL!Uchans : SL!Onward(u, y) <=> y = lqnext[u]
  BY <1>7, NullApart DEF SL!Onward, Links
<1>9. links' = {l \in links : w = 1 => l[1] # u}
  BY <1>1, <1>7 DEF Links
<1>10. (IF w = 1 THEN unrefs ELSE unrefs \ {u}) = unrefs /\ lqnext[u] \in SL!Uchans \cup {SL!Null}
  BY <1>0, <1>2, <1>7 DEF SL!TypeOK
<1>11. \A d \in DOMAIN chans :
          /\ state[d] = "open" => state'[d] = "open" /\ chans'[d] = chans[d]
          /\ state'[d] = "open" => state[d] = "open"
          /\ Of(d)' = Of(d) /\ (Held(d)' <=> Held(d))
          /\ \A k, l \in SL!Role : Mat(d, k, l)' \in {Mat(d, k, l), SL!Null}
  BY <1>1, <1>5 DEF Held
<1>12. w \in {0, 1} /\ session' = session
  BY <1>1
<1>13. SL!TypeOK'
  <2>1. lrfcnt[u] \in {1, 2}
    BY <1>0, <1>2, <1>7 DEF LinkCounts, Holders, HasReader
  <2>2. /\ lrfcnt' \in [SL!Uchans \cup {SL!Null} -> 0..2]
        /\ lqnext' \in [SL!Uchans \cup {SL!Null} -> SL!Uchans \cup {SL!Null}]
        /\ unrefs' \subseteq SL!Uchans
    <3>1. unrefs \in SUBSET SL!Uchans
      BY <1>0 DEF SL!TypeOK
    <3>2. SL!uchan_unref(u, lqnext[u], unrefs)
      BY <1>1, <1>2, <1>10
    <3>3. Dropped(u, lqnext[u], unrefs)
      BY <1>0, <1>2, <1>10, <2>1, <3>1, <3>2, Unref
    <3> QED BY <3>3 DEF Dropped
  <2> QED BY <1>0, <1>1, <1>5, <2>2 DEF SL!TypeOK, Channel
<1> HIDE DEF w
<1>14. Released(w, u, lqnext[u])
  BY <1>1, <1>2, <1>5, <1>6, <1>7, <1>8, <1>9, <1>10, <1>11, <1>12 DEF Released
<1> QED BY <1>13, <1>14, GivenUpKeeps

LEMMA CloseKeeps ==
    ASSUME LinkInv, NEW c \in SL!Open, SL!Close(c) PROVE LinkInv'
<1> DEFINE D == DOMAIN chans
<1>0. SL!TypeOK /\ OnePlace /\ LinkCounts /\ Matrices /\ Shares /\ Straight /\ Made /\ Routes
      /\ Acyclic(Edges)
  BY DEF LinkInv
<1>1. /\ state' = [state EXCEPT ![c] = "closed"] /\ c \in D /\ state[c] = "open"
      /\ UNCHANGED <<lrfcnt, lqnext, chans, links, unrefs, session, received, plan>>
  BY DEF SL!Close, SL!Open
<1>2. \A d \in D : /\ Held(d)' <=> Held(d)
                   /\ state'[d] = "open" => state[d] = "open"
  BY <1>0, <1>1 DEF Held, SL!TypeOK
<1>3. SL!TypeOK'
  BY <1>0, <1>1 DEF SL!TypeOK
<1>4. Of(c)' = Of(c) /\ \A d \in D : \A i, j : Of(d)' = Of(d) /\ Mat(d, i, j)' = Mat(d, i, j)
  BY <1>1 DEF Of, Mat
<1>5. \A d \in D : \A v : (Writes(d, v)' <=> Writes(d, v)) /\ (Reads(d, v)' <=> Reads(d, v))
  BY <1>2, <1>4 DEF Writes, Reads
<1>6. \A v, w : (SL!Onward(v, w)' <=> SL!Onward(v, w)) /\ (Links(v)' <=> Links(v))
  BY <1>1 DEF SL!Onward, Links
<1>7. \A v \in SL!Uchans : (HasWriter(v)' <=> HasWriter(v)) /\ (HasReader(v)' <=> HasReader(v))
  BY <1>1, <1>5, <1>6 DEF HasWriter, HasReader
<1>8. Edges' = Edges
  BY <1>6 DEF Edges
<1>9. Shares'
  <2>1. \A b \in D, i \in SL!Role :
          \E d \in D : Held(d)' /\ session[d] = session[b] /\ i \in Of(d)'
    BY <1>0, <1>2, <1>4 DEF Shares
  <2>2. \A b, d \in D :
          Held(b)' /\ Held(d)' /\ session[b] = session[d] /\ b # d => Of(b)' \cap Of(d)' = {}
    BY <1>0, <1>2, <1>4 DEF Shares
  <2> QED BY <1>1, <2>1, <2>2 DEF Shares
<1>10. Matrices'
  BY <1>0, <1>1, <1>2, <1>4 DEF Matrices
<1>11. Straight' /\ Made'
  BY <1>0, <1>1, <1>6 DEF Straight, Made
<1>12. OnePlace'
  BY <1>0, <1>1, <1>5, <1>6 DEF OnePlace
<1>13. LinkCounts'
  <2>1. \A v \in SL!Uchans : Holders(v)' = Holders(v)
    BY <1>7 DEF Holders
  <2> QED BY <1>0, <1>1, <2>1 DEF LinkCounts
<1>14. Routes'
  BY <1>0, <1>1, <1>2, <1>4, <1>8 DEF Routes
<1>15. Acyclic(Edges)'
  BY <1>0, <1>8 DEF Acyclic
<1> QED BY <1>3, <1>9, <1>10, <1>11, <1>12, <1>13, <1>14, <1>15 DEF LinkInv

LEMMA RecvKeeps ==
    ASSUME LinkInv, NEW c \in DOMAIN chans, NEW ij \in SL!Role \X SL!Role, SL!Recv(c, ij)
    PROVE  LinkInv'
<1> DEFINE D == DOMAIN chans
           i == ij[1]
           j == ij[2]
           u == Mat(c, i, j)
           x == lqnext[u]
<1>0. SL!TypeOK /\ OnePlace /\ LinkCounts /\ Matrices /\ Shares /\ Straight /\ Made /\ Routes
      /\ Acyclic(Edges) /\ i \in SL!Role /\ j \in SL!Role /\ ij = <<i, j>>
  BY DEF LinkInv
<1>1. /\ state[c] = "open" /\ x # SL!Null /\ SL!uchan_unref(u, SL!Null, unrefs)
      /\ Put(c, ij, x) /\ received' = received + 1 /\ j \in Of(c)
      /\ (i \in Of(c)) # (j \in Of(c))
      /\ UNCHANGED <<state, links, session, plan>>
  <2>1. u = chans[c].chmat[ij]
    BY <1>0 DEF Mat
  <2>2. /\ x # SL!Null /\ SL!uchan_unref(u, SL!Null, unrefs)
        /\ Put(c, ij, x) /\ received' = received + 1 /\ j \in Of(c)
        /\ UNCHANGED <<state, links, session, plan>>
    BY <2>1 DEF SL!Recv, Put, Of
  <2>3. state[c] = "open" /\ (i \in Of(c)) # (j \in Of(c))
    BY DEF SL!Recv, SL!Open, Of, SL!Slots, SL!Across
  <2> QED BY <2>2, <2>3
<1>2. u \in SL!Uchans /\ u[2] = i /\ u[3] = j /\ session[u[1]] = session[c] /\ Held(c)
  BY <1>0, <1>1, ChannelOf DEF Matrices, Held
<1>3. x \in SL!Uchans /\ SL!Onward(u, x)
  BY <1>0, <1>1, <1>2 DEF SL!TypeOK, SL!Onward
<1> HIDE DEF i, j, u, x
<1>4. x[2] = i /\ x[3] = j /\ x[1] \in D /\ session[x[1]] = session[c] /\ u # x
  BY <1>0, <1>2, <1>3 DEF Straight
<1>5. Reads(c, u) /\ ~HasWriter(u) /\ ~Links(u)
  BY <1>0, <1>1, <1>2 DEF Reads, OnePlace, HasWriter, u, x
<1>6. lrfcnt[u] = 1
  BY <1>0, <1>2, <1>5 DEF LinkCounts, Holders, HasReader
<1>7. /\ lrfcnt' \in [SL!Uchans \cup {SL!Null} -> 0..2]
      /\ lqnext' \in [SL!Uchans \cup {SL!Null} -> SL!Uchans \cup {SL!Null}]
      /\ unrefs' = unrefs /\ lrfcnt'[u] = 0 /\ lqnext'[u] = SL!Null
      /\ \A v \in SL!Uchans \cup {SL!Null} : v # u => lrfcnt'[v] = lrfcnt[v] /\ lqnext'[v] = lqnext[v]
  <2>1. unrefs \in SUBSET SL!Uchans /\ SL!Null \in SL!Uchans \cup {SL!Null}
    BY <1>0 DEF SL!TypeOK
  <2>2. /\ lrfcnt' \in [SL!Uchans \cup {SL!Null} -> 0..2]
        /\ lqnext' \in [SL!Uchans \cup {SL!Null} -> SL!Uchans \cup {SL!Null}]
        /\ lrfcnt'[u] = lrfcnt[u] - 1 /\ lqnext'[u] = SL!Null
        /\ \A v \in SL!Uchans \cup {SL!Null} :
              v # u => lrfcnt'[v] = lrfcnt[v] /\ lqnext'[v] = lqnext[v]
        /\ unrefs' = unrefs \cup ({SL!Null} \ {SL!Null})
    <3>1. lrfcnt[u] \in {1, 2} /\ SL!TypeOK /\ SL!uchan_unref(u, SL!Null, unrefs)
      BY <1>0, <1>1, <1>6
    <3>2. /\ lrfcnt' \in [SL!Uchans \cup {SL!Null} -> 0..2]
          /\ lqnext' \in [SL!Uchans \cup {SL!Null} -> SL!Uchans \cup {SL!Null}]
          /\ unrefs' \subseteq SL!Uchans
          /\ lrfcnt'[u] = lrfcnt[u] - 1
          /\ \A v \in SL!Uchans \cup {SL!Null} :
                v # u => lrfcnt'[v] = lrfcnt[v] /\ lqnext'[v] = lqnext[v]
          /\ lrfcnt[u] = 2 => lqnext'[u] = SL!Null /\ unrefs' = unrefs
          /\ lrfcnt[u] = 1 => lqnext'[u] = SL!Null /\ unrefs' = unrefs \cup ({SL!Null} \ {SL!Null})
      <4>1. SL!Null \in SL!Uchans \cup {SL!Null} /\ unrefs \in SUBSET SL!Uchans
        BY <3>1 DEF SL!TypeOK
      <4>2. Dropped(u, SL!Null, unrefs)
        BY <1>2, <2>1, <3>1, <4>1, Unref
      <4> QED BY <4>2 DEF Dropped
    <3> QED BY <1>6, <3>2
  <2> QED BY <1>6, <2>2
<1>8. /\ chans' \in Seq(Channel) /\ Len(chans') = Len(chans) /\ D' = D
      /\ \A d \in D :
            /\ Of(d)' = Of(d)
            /\ d # c => chans'[d] = chans[d]
            /\ \A k, l \in SL!Role :
                  Mat(d, k, l)' = IF d = c /\ <<k, l>> = ij THEN x ELSE Mat(d, k, l)
  BY <1>0, <1>1, <1>3, MatExcept
<1>9. SL!TypeOK'
  BY <1>0, <1>1, <1>7, <1>8 DEF SL!TypeOK, Channel
<1>10. \A y \in SL!Uchans : (SL!Onward(u, y) <=> y = x) /\ ~SL!Onward(y, u)
  BY <1>0, <1>2, <1>5 DEF SL!Onward, Links, x, OnePlace
<1>11. \A a, b \in SL!Uchans : SL!Onward(a, b)' <=> SL!Onward(a, b) /\ a # u
  BY <1>1, <1>5, <1>7, NullApart DEF SL!Onward, Links
<1>12. \A v : Links(v)' <=> Links(v)
  BY <1>1 DEF Links
<1>13. ASSUME NEW d \in D, NEW v \in SL!Uchans
       PROVE  /\ Writes(d, v)' <=> Writes(d, v)
              /\ Reads(d, v)' <=> (Reads(d, v) /\ v # u) \/ (d = c /\ v = x)
  <2>1. v[2] \in SL!Role /\ v[3] \in SL!Role /\ v # SL!Null
    BY NullApart DEF SL!Uchans
  <2>2. Held(d)' <=> Held(d)
    BY <1>1 DEF Held
  <2>3. Mat(d, v[2], v[3])' = IF d = c /\ <<v[2], v[3]>> = ij THEN x ELSE Mat(d, v[2], v[3])
    BY <1>8, <2>1
  <2>4. CASE d = c /\ v[2] = i /\ v[3] = j
    <3>1. Mat(d, v[2], v[3])' = x /\ Mat(d, v[2], v[3]) = u
      BY <1>0, <2>3, <2>4 DEF u
    <3> QED BY <1>1, <1>2, <1>8, <2>1, <2>2, <2>4, <3>1 DEF Writes, Reads
  <2>5. CASE ~(d = c /\ v[2] = i /\ v[3] = j)
    <3>1. Mat(d, v[2], v[3])' = Mat(d, v[2], v[3])
      BY <1>0, <2>3, <2>5
    <3>2. v = u \/ v = x => d # c
      BY <1>2, <1>4, <2>5
    <3>3. (Writes(d, v)' <=> Writes(d, v)) /\ (Reads(d, v)' <=> Reads(d, v))
      BY <1>8, <2>2, <3>1 DEF Writes, Reads
    <3>4. v = u => ~Reads(d, v)
      BY <1>0, <1>2, <1>5, <3>2 DEF OnePlace
    <3> QED BY <3>2, <3>3, <3>4
  <2> QED BY <2>4, <2>5
<1>14. \A v \in SL!Uchans : HasWriter(v)' <=> HasWriter(v)
  BY <1>8, <1>12, <1>13 DEF HasWriter
<1>15. ASSUME NEW v \in SL!Uchans PROVE HasReader(v)' <=> HasReader(v) /\ v # u
  <2>1. CASE v = u
    <3>1. v \notin unrefs /\ \A d \in D : ~Reads(d, v)'
      BY <1>0, <1>2, <1>4, <1>5, <1>13, <2>1 DEF OnePlace
    <3> QED BY <1>7, <1>8, <1>10, <1>11, <2>1, <3>1 DEF HasReader
  <2>2. CASE v = x
    <3>1. HasReader(v)
      BY <1>2, <1>3, <2>2 DEF HasReader
    <3>2. HasReader(v)'
      BY <1>8, <1>13, <2>2 DEF HasReader
    <3> QED BY <1>4, <2>2, <3>1, <3>2
  <2>3. CASE v # u /\ v # x
    <3>1. \A d \in D : Reads(d, v)' <=> Reads(d, v)
      BY <1>13, <2>3
    <3>2. \A y \in SL!Uchans : SL!Onward(y, v)' <=> SL!Onward(y, v)
      BY <1>10, <1>11, <2>3
    <3> QED BY <1>7, <1>8, <2>3, <3>1, <3>2 DEF HasReader
  <2> QED BY <2>1, <2>2, <2>3
<1>16. OnePlace'
  <2> SUFFICES ASSUME NEW v \in SL!Uchans
      PROVE  /\ \A d, e \in D : Writes(d, v)' /\ Writes(e, v)' => d = e
             /\ \A d \in D : ~(Writes(d, v)' /\ Links(v)')
             /\ \A l, m \in links' : l[1] = v /\ m[1] = v => l = m
             /\ \A d, e \in D : Reads(d, v)' /\ Reads(e, v)' => d = e
             /\ \A d \in D : Reads(d, v)' => v \notin unrefs'
             /\ \A y \in SL!Uchans : SL!Onward(y, v)' =>
                   /\ v \notin unrefs'
                   /\ \A d \in D : ~Reads(d, v)'
                   /\ \A z \in SL!Uchans : SL!Onward(z, v)' => y = z
             /\ lqnext'[v] # SL!Null => ~Links(v)' /\ \A d \in D : ~Writes(d, v)'
    BY <1>8 DEF OnePlace
  <2>1. /\ \A d, e \in D : Writes(d, v)' /\ Writes(e, v)' => d = e
        /\ \A d \in D : ~(Writes(d, v)' /\ Links(v)')
        /\ \A l, m \in links' : l[1] = v /\ m[1] = v => l = m
    BY <1>0, <1>1, <1>12, <1>13 DEF OnePlace
  <2>2. x \notin unrefs /\ \A d \in D : ~Reads(d, x)
    BY <1>0, <1>2, <1>3 DEF OnePlace
  <2>3. /\ \A d, e \in D : Reads(d, v)' /\ Reads(e, v)' => d = e
        /\ \A d \in D : Reads(d, v)' => v \notin unrefs'
    BY <1>0, <1>7, <1>13, <2>2 DEF OnePlace
  <2>4. \A y \in SL!Uchans : SL!Onward(y, v)' =>
           /\ v \notin unrefs'
           /\ \A d \in D : ~Reads(d, v)'
           /\ \A z \in SL!Uchans : SL!Onward(z, v)' => y = z
    BY <1>0, <1>2, <1>3, <1>7, <1>11, <1>13 DEF OnePlace
  <2>5. lqnext'[v] # SL!Null => ~Links(v)' /\ \A d \in D : ~Writes(d, v)'
    BY <1>0, <1>7, <1>12, <1>13 DEF OnePlace
  <2> QED BY <2>1, <2>3, <2>4, <2>5
<1>17. LinkCounts'
  <2>1. ASSUME NEW v \in SL!Uchans PROVE lrfcnt'[v] = Holders(v)'
    <3>1. lrfcnt[v] = Holders(v) /\ (v = u => ~HasWriter(v))
      BY <1>0, <1>5 DEF LinkCounts
    <3> QED BY <1>7, <1>14, <1>15, <3>1 DEF Holders
  <2>2. ASSUME NEW v \in SL!Uchans, lrfcnt'[v] = 0 PROVE lqnext'[v] = SL!Null
    BY <1>0, <1>7, <2>2 DEF LinkCounts
  <2>3. lrfcnt'[SL!Null] = 0 /\ lqnext'[SL!Null] = SL!Null
    BY <1>0, <1>2, <1>7, NullApart DEF LinkCounts
  <2> QED BY <2>1, <2>2, <2>3 DEF LinkCounts
<1>18. \A d \in D : (Held(d)' <=> Held(d)) /\ state'[d] = state[d] /\ session'[d] = session[d]
  BY <1>1 DEF Held
<1>19. Shares'
  <2>1. \A b \in D, k \in SL!Role :
          \E d \in D : Held(d)' /\ session'[d] = session'[b] /\ k \in Of(d)'
    BY <1>0, <1>8, <1>18 DEF Shares
  <2>2. \A b, d \in D :
          Held(b)' /\ Held(d)' /\ session'[b] = session'[d] /\ b # d => Of(b)' \cap Of(d)' = {}
    <3> SUFFICES ASSUME NEW b \in D, NEW d \in D, Held(b)', Held(d)',
                        session'[b] = session'[d], b # d
                 PROVE  Of(b)' \cap Of(d)' = {}
      OBVIOUS
    <3>1. Held(b) /\ Held(d) /\ session[b] = session[d] /\ Of(b)' = Of(b) /\ Of(d)' = Of(d)
      BY <1>8, <1>18
    <3> QED BY <1>0, <3>1 DEF Shares
  <2> QED BY <1>8, <2>1, <2>2 DEF Shares
<1>20. Matrices'
  <2> SUFFICES ASSUME NEW d \in D, NEW k \in SL!Role, NEW l \in SL!Role, Held(d)'
               PROVE  /\ Mat(d, k, l)' # SL!Null =>
                            /\ Mat(d, k, l)'[2] = k /\ Mat(d, k, l)'[3] = l
                            /\ Mat(d, k, l)'[1] \in D
                            /\ session'[Mat(d, k, l)'[1]] = session'[d]
                            /\ (k \in Of(d)') # (l \in Of(d)')
                      /\ state'[d] = "open" /\ (k \in Of(d)') # (l \in Of(d)') =>
                            Mat(d, k, l)' # SL!Null
    BY <1>8 DEF Matrices
  <2>1. CASE d = c /\ <<k, l>> = ij
    <3>1. Mat(d, k, l)' = x /\ k = i /\ l = j
      BY <1>0, <1>8, <2>1
    <3> QED BY <1>1, <1>3, <1>4, <1>8, <2>1, <3>1, NullApart
  <2>2. CASE ~(d = c /\ <<k, l>> = ij)
    <3>1. Mat(d, k, l)' = Mat(d, k, l) /\ Of(d)' = Of(d)
      BY <1>8, <2>2
    <3> QED BY <1>0, <1>1, <1>18, <3>1 DEF Matrices
  <2> QED BY <2>1, <2>2
<1>21. Straight' /\ Made'
  BY <1>0, <1>1, <1>7, <1>8, <1>11 DEF Straight, Made
<1>22. Edges' \subseteq Edges /\ \A e \in Edges : e[1] # u => e \in Edges'
  BY <1>11 DEF Edges
<1>23. Acyclic(Edges)'
  BY <1>0, <1>22, AcyclicLess DEF Acyclic
<1>24. Routes'
  <2> SUFFICES ASSUME NEW a \in D, NEW b \in D, state[a] = "open", state[b] = "open",
                      session[a] = session[b], a # b, NEW k \in Of(a), NEW l \in Of(b)
               PROVE  Reaches(Edges', Mat(b, k, l)', Mat(a, k, l)')
    BY <1>8, <1>18 DEF Routes, Reaches
  <2>1. k \in SL!Role /\ l \in SL!Role
    BY <1>0, ChannelOf
  <2>2. Reaches(Edges, Mat(b, k, l), Mat(a, k, l))
    BY <1>0 DEF Routes
  <2>3. l \notin Of(a) /\ k \notin Of(b) /\ Held(a) /\ Held(b)
    BY <1>0 DEF Shares, Held
  <2>4. /\ Mat(a, k, l) # SL!Null /\ Mat(a, k, l)[2] = k /\ Mat(a, k, l)[3] = l
        /\ Mat(b, k, l) # SL!Null /\ Mat(b, k, l)[2] = k /\ Mat(b, k, l)[3] = l
    BY <1>0, <2>1, <2>3 DEF Matrices
  <2>5. Mat(a, k, l)' = Mat(a, k, l)
    BY <1>0, <1>1, <1>8, <2>1, <2>3
  <2>6. CASE b = c /\ <<k, l>> = ij
    <3>1. Mat(b, k, l) = u /\ Mat(b, k, l)' = x
      BY <1>0, <1>8, <2>1, <2>6 DEF u
    <3>2. Mat(a, k, l) # u
      <4> SUFFICES ASSUME Mat(a, k, l) = u PROVE FALSE
        OBVIOUS
      <4>1. Writes(a, u)
        BY <2>3, <2>4 DEF Writes
      <4> QED BY <1>5, <4>1 DEF HasWriter
    <3>3. HeadOf(Edges, Edges', u, x)
      BY <1>10, <1>22 DEF Edges, HeadOf
    <3>4. Reaches(Edges, u, Mat(a, k, l))
      BY <2>2, <3>1
    <3>5. Reaches(Edges', x, Mat(a, k, l))
      BY <1>2, <3>2, <3>3, <3>4, ReachesNext
    <3> QED BY <2>5, <3>1, <3>5
  <2>7. CASE ~(b = c /\ <<k, l>> = ij)
    <3>1. Mat(b, k, l)' = Mat(b, k, l)
      BY <1>8, <2>1, <2>7
    <3>2. Mat(b, k, l) # u
      <4> SUFFICES ASSUME Mat(b, k, l) = u PROVE FALSE
        OBVIOUS
      <4>1. Reads(b, u)
        BY <2>3, <2>4 DEF Reads
      <4>2. b = c
        BY <1>0, <1>2, <1>5, <4>1 DEF OnePlace
      <4>3. k = i /\ l = j
        BY <1>2, <2>4
      <4> QED BY <1>0, <2>7, <4>2, <4>3
    <3>3. WithoutHead(Edges, Edges', u)
      BY <1>10, <1>22 DEF Edges, WithoutHead
    <3>4. Reaches(Edges', Mat(b, k, l), Mat(a, k, l))
      BY <2>2, <3>2, <3>3, ReachesLess
    <3> QED BY <2>5, <3>1, <3>4
  <2> QED BY <2>6, <2>7
<1> QED BY <1>9, <1>16, <1>17, <1>19, <1>20, <1>21, <1>23, <1>24 DEF LinkInv

-----------------------------------------------------------------------------
(* Two channels are linked.                                                *)

\* The roles that c is not held for, those that d is not, and the others.
Class(c, d, i) == IF i \notin Of(c) THEN 0 ELSE IF i \notin Of(d) THEN 1 ELSE 2

\* The uchans of c, d and the new channel at a place.
End(c, d, k, i, j) ==
    IF k = 0 THEN Mat(c, i, j)
    ELSE IF k = 1 THEN Mat(d, i, j) ELSE <<Len(chans) + 1, i, j>>

\* The links that auxlink makes: messages to j are written to the uchan of
\* the channel that is not held for j.
NewLink(c, d, u, v) ==
    /\ Class(c, d, u[2]) # Class(c, d, u[3])
    /\ u = End(c, d, Class(c, d, u[3]), u[2], u[3])
    /\ v = End(c, d, Class(c, d, u[2]), u[2], u[3])

New(c, d, u) == u[1] = Len(chans) + 1 /\ (Class(c, d, u[2]) = 2) # (Class(c, d, u[3]) = 2)

Linked(c, d) ==
    /\ c \in DOMAIN chans /\ d \in DOMAIN chans
    /\ state[c] = "open" /\ state[d] = "open" /\ session[c] # session[d]
    /\ Of(c) \cup Of(d) = SL!Role

LEMMA ClassIn == ASSUME NEW c, NEW d, NEW i PROVE Class(c, d, i) \in {0, 1, 2}
BY DEF Class

\* Nobody has heard of uchans of channels to come.
LEMMA Unheard ==
    ASSUME LinkInv, NEW u \in SL!Uchans, u[1] \notin DOMAIN chans
    PROVE  /\ \A v \in SL!Uchans : ~SL!Onward(u, v) /\ ~SL!Onward(v, u)
           /\ \A b \in DOMAIN chans : ~Writes(b, u) /\ ~Reads(b, u)
           /\ ~Links(u) /\ u \notin unrefs /\ ~HasWriter(u) /\ ~HasReader(u)
           /\ lrfcnt[u] = 0 /\ lqnext[u] = SL!Null
<1>0. SL!TypeOK /\ Straight /\ Matrices /\ Made /\ LinkCounts
  BY DEF LinkInv
<1>1. \A v \in SL!Uchans : ~SL!Onward(u, v) /\ ~SL!Onward(v, u)
  BY <1>0 DEF Straight
<1>2. \A b \in DOMAIN chans : ~Writes(b, u) /\ ~Reads(b, u)
  <2>1. u[2] \in SL!Role /\ u[3] \in SL!Role /\ u # SL!Null
    BY NullApart DEF SL!Uchans
  <2> QED BY <1>0, <2>1 DEF Writes, Reads, Matrices
<1>3. ~Links(u) /\ u \notin unrefs
  <2>1. \A l \in links : l[2] \in SL!Uchans
    BY <1>0 DEF SL!TypeOK
  <2> QED BY <1>0, <1>1, <2>1 DEF Links, SL!Onward, Made
<1>4. ~HasWriter(u) /\ ~HasReader(u)
  BY <1>1, <1>2, <1>3 DEF HasWriter, HasReader
<1>5. lrfcnt[u] = 0 /\ lqnext[u] = SL!Null
  BY <1>0, <1>4 DEF LinkCounts, Holders
<1> QED BY <1>1, <1>2, <1>3, <1>4, <1>5

\* The two ends of a new link: whose they were.
LEMMA EndsOf ==
    ASSUME LinkInv, NEW c, NEW d, Linked(c, d), NEW i \in SL!Role, NEW j \in SL!Role,
           NEW k, k = Class(c, d, i) \/ k = Class(c, d, j), Class(c, d, i) # Class(c, d, j),
           k = 2 => Len(chans) < MaxChannels,
           NEW u, u = End(c, d, k, i, j)
    PROVE  /\ u \in SL!Uchans /\ u[2] = i /\ u[3] = j
           /\ k = 0 => /\ u[1] \in DOMAIN chans /\ session[u[1]] = session[c]
                       /\ IF Class(c, d, j) = 0 THEN Writes(c, u) ELSE Reads(c, u)
           /\ k = 1 => /\ u[1] \in DOMAIN chans /\ session[u[1]] = session[d]
                       /\ IF Class(c, d, j) = 1 THEN Writes(d, u) ELSE Reads(d, u)
           /\ k = 2 => u[1] = Len(chans) + 1 /\ New(c, d, u)
<1>0. SL!TypeOK /\ Matrices
  BY DEF LinkInv
<1>1. CASE k = 0
  <2>1. (i \in Of(c)) # (j \in Of(c)) /\ (Class(c, d, j) = 0 <=> j \notin Of(c))
    BY <1>1 DEF Class
  <2>2. u = Mat(c, i, j) /\ Held(c)
    BY <1>1 DEF End, Linked, Held
  <2>3. u \in SL!Uchans /\ u[2] = i /\ u[3] = j /\ u[1] \in DOMAIN chans /\ session[u[1]] = session[c]
    BY <1>0, <2>1, <2>2, ChannelOf DEF Matrices, Linked
  <2> QED BY <1>1, <2>1, <2>2, <2>3 DEF Writes, Reads
<1>2. CASE k = 1
  <2>1. (i \in Of(d)) # (j \in Of(d)) /\ (Class(c, d, j) = 1 <=> j \notin Of(d))
    BY <1>2 DEF Class, Linked
  <2>2. u = Mat(d, i, j) /\ Held(d)
    BY <1>2 DEF End, Linked, Held
  <2>3. u \in SL!Uchans /\ u[2] = i /\ u[3] = j /\ u[1] \in DOMAIN chans /\ session[u[1]] = session[d]
    BY <1>0, <2>1, <2>2, ChannelOf DEF Matrices, Linked
  <2> QED BY <1>2, <2>1, <2>2, <2>3 DEF Writes, Reads
<1>3. CASE k = 2
  <2>1. u = <<Len(chans) + 1, i, j>>
    BY <1>3 DEF End
  <2>2. Len(chans) \in Nat /\ MaxChannels \in Nat
    BY <1>0, SessionLinkAssumption DEF SL!TypeOK, SL!SessionLinkAssumption
  <2>3. u \in SL!Uchans
    BY <1>3, <2>1, <2>2 DEF SL!Uchans
  <2> QED BY <1>3, <2>1, <2>3 DEF New
<1> QED BY <1>1, <1>2, <1>3, ClassIn

LEMMA Places ==
    ASSUME LinkInv, NEW b \in DOMAIN chans, NEW u \in SL!Uchans
    PROVE  /\ u[2] \in SL!Role /\ u[3] \in SL!Role
           /\ Writes(b, u) => u[2] \in Of(b) /\ u[3] \notin Of(b) /\ Mat(b, u[2], u[3]) = u
           /\ Reads(b, u) => u[3] \in Of(b) /\ u[2] \notin Of(b) /\ Mat(b, u[2], u[3]) = u
           /\ Writes(b, u) \/ Reads(b, u) => u[1] \in DOMAIN chans /\ session[u[1]] = session[b]
<1>1. u[2] \in SL!Role /\ u[3] \in SL!Role /\ u # SL!Null
  BY NullApart DEF SL!Uchans
<1> QED BY <1>1 DEF LinkInv, Matrices, Writes, Reads

Room(c, d) == (\E i \in SL!Role : Class(c, d, i) = 2) => Len(chans) < MaxChannels

\* The session of a uchan, 0 if it is new.
SessionOf(u) == IF u[1] \in DOMAIN chans THEN session[u[1]] ELSE 0

LEMMA NewLinkEnds ==
    ASSUME LinkInv, NEW c, NEW d, Linked(c, d), Room(c, d),
           NEW u \in SL!Uchans, NEW v \in SL!Uchans, NewLink(c, d, u, v)
    PROVE  /\ u[2] = v[2] /\ u[3] = v[3] /\ u # v /\ SessionOf(u) # SessionOf(v)
           /\ \A x \in {u, v} :
                 \/ x[1] \in DOMAIN chans /\ session[x[1]] \in {session[c], session[d]}
                 \/ x[1] = Len(chans) + 1 /\ New(c, d, x) /\ \E i \in SL!Role : Class(c, d, i) = 2
           /\ Writes(c, u) \/ Writes(d, u) \/ (New(c, d, u) /\ Class(c, d, u[3]) = 2)
           /\ Reads(c, v) \/ Reads(d, v) \/ (New(c, d, v) /\ Class(c, d, v[2]) = 2)
<1> DEFINE i == u[2]
           j == u[3]
           p == Class(c, d, j)
           q == Class(c, d, i)
<1>0. /\ SL!TypeOK /\ i \in SL!Role /\ j \in SL!Role /\ p # q
      /\ u = End(c, d, p, i, j) /\ v = End(c, d, q, i, j)
  BY DEF LinkInv, NewLink, SL!Uchans
<1>1. /\ p \in {0, 1, 2} /\ q \in {0, 1, 2}
      /\ p = 2 \/ q = 2 => Len(chans) < MaxChannels
  BY <1>0, ClassIn DEF Room
<1> HIDE DEF i, j, p, q
<1>2. /\ u[2] = i /\ u[3] = j
      /\ p = 0 => u[1] \in DOMAIN chans /\ session[u[1]] = session[c] /\ Writes(c, u)
      /\ p = 1 => u[1] \in DOMAIN chans /\ session[u[1]] = session[d] /\ Writes(d, u)
      /\ p = 2 => u[1] = Len(chans) + 1 /\ New(c, d, u)
  BY <1>0, <1>1, EndsOf DEF p, q
<1>3. /\ v[2] = i /\ v[3] = j
      /\ q = 0 => v[1] \in DOMAIN chans /\ session[v[1]] = session[c] /\ Reads(c, v)
      /\ q = 1 => v[1] \in DOMAIN chans /\ session[v[1]] = session[d] /\ Reads(d, v)
      /\ q = 2 => v[1] = Len(chans) + 1 /\ New(c, d, v)
  BY <1>0, <1>1, EndsOf DEF p, q
<1>4. Len(chans) + 1 \notin DOMAIN chans /\ \A b \in DOMAIN chans : session[b] \in DOMAIN chans /\ session[b] # 0
  BY <1>0 DEF SL!TypeOK
<1>5. c \in DOMAIN chans /\ d \in DOMAIN chans /\ session[c] # session[d]
  BY DEF Linked
<1>6. SessionOf(u) = IF p = 0 THEN session[c] ELSE IF p = 1 THEN session[d] ELSE 0
  BY <1>1, <1>2, <1>4 DEF SessionOf
<1>7. SessionOf(v) = IF q = 0 THEN session[c] ELSE IF q = 1 THEN session[d] ELSE 0
  BY <1>1, <1>3, <1>4 DEF SessionOf
<1>8. SessionOf(u) # SessionOf(v)
  BY <1>0, <1>1, <1>4, <1>5, <1>6, <1>7
<1>9. \A x \in {u, v} :
         \/ x[1] \in DOMAIN chans /\ session[x[1]] \in {session[c], session[d]}
         \/ x[1] = Len(chans) + 1 /\ New(c, d, x) /\ \E k \in SL!Role : Class(c, d, k) = 2
  BY <1>0, <1>1, <1>2, <1>3 DEF p, q
<1>10. Writes(c, u) \/ Writes(d, u) \/ (New(c, d, u) /\ Class(c, d, u[3]) = 2)
  BY <1>1, <1>2 DEF p
<1>11. Reads(c, v) \/ Reads(d, v) \/ (New(c, d, v) /\ Class(c, d, v[2]) = 2)
  BY <1>1, <1>3 DEF q
<1> QED BY <1>2, <1>3, <1>8, <1>9, <1>10, <1>11

LEMMA NewLinkFrom ==
    ASSUME LinkInv, NEW c, NEW d, Linked(c, d), Room(c, d), NEW u \in SL!Uchans,
           Writes(c, u) \/ Writes(d, u) \/ (New(c, d, u) /\ Class(c, d, u[3]) = 2)
    PROVE  \E v \in SL!Uchans : NewLink(c, d, u, v)
<1> DEFINE i == u[2]
           j == u[3]
           v == End(c, d, Class(c, d, i), i, j)
<1>0. SL!TypeOK /\ i \in SL!Role /\ j \in SL!Role /\ u = <<u[1], i, j>> /\ c \in DOMAIN chans /\ d \in DOMAIN chans
  BY DEF LinkInv, SL!Uchans, Linked
<1>1. Class(c, d, i) # Class(c, d, j) /\ u = End(c, d, Class(c, d, j), i, j)
  <2>1. CASE Writes(c, u)
    <3>1. i \in Of(c) /\ j \notin Of(c) /\ Mat(c, i, j) = u
      BY <1>0, <2>1, Places
    <3> QED BY <3>1 DEF Class, End
  <2>2. CASE Writes(d, u)
    <3>1. i \in Of(d) /\ j \notin Of(d) /\ Mat(d, i, j) = u
      BY <1>0, <2>2, Places
    <3>2. j \in Of(c)
      BY <1>0, <3>1 DEF Linked
    <3> QED BY <3>1, <3>2 DEF Class, End
  <2>3. CASE New(c, d, u) /\ Class(c, d, j) = 2
    BY <1>0, <2>3 DEF New, End
  <2> QED BY <2>1, <2>2, <2>3
<1>2. v \in SL!Uchans
  <2>1. Class(c, d, i) = 2 => Len(chans) < MaxChannels
    BY <1>0 DEF Room
  <2> HIDE DEF i, j
  <2> QED BY <1>0, <1>1, <2>1, EndsOf
<1> QED BY <1>1, <1>2 DEF NewLink

LEMMA NewLinkTo ==
    ASSUME LinkInv, NEW c, NEW d, Linked(c, d), Room(c, d), NEW v \in SL!Uchans,
           Reads(c, v) \/ Reads(d, v) \/ (New(c, d, v) /\ Class(c, d, v[2]) = 2)
    PROVE  \E u \in SL!Uchans : NewLink(c, d, u, v)
<1> DEFINE i == v[2]
           j == v[3]
           u == End(c, d, Class(c, d, j), i, j)
<1>0. SL!TypeOK /\ i \in SL!Role /\ j \in SL!Role /\ v = <<v[1], i, j>> /\ c \in DOMAIN chans /\ d \in DOMAIN chans
  BY DEF LinkInv, SL!Uchans, Linked
<1>1. Class(c, d, i) # Class(c, d, j) /\ v = End(c, d, Class(c, d, i), i, j)
  <2>1. CASE Reads(c, v)
    <3>1. j \in Of(c) /\ i \notin Of(c) /\ Mat(c, i, j) = v
      BY <1>0, <2>1, Places
    <3> QED BY <3>1 DEF Class, End
  <2>2. CASE Reads(d, v)
    <3>1. j \in Of(d) /\ i \notin Of(d) /\ Mat(d, i, j) = v
      BY <1>0, <2>2, Places
    <3>2. i \in Of(c)
      BY <1>0, <3>1 DEF Linked
    <3> QED BY <3>1, <3>2 DEF Class, End
  <2>3. CASE New(c, d, v) /\ Class(c, d, i) = 2
    BY <1>0, <2>3 DEF New, End
  <2> QED BY <2>1, <2>2, <2>3
<1>2. u \in SL!Uchans /\ u[2] = i /\ u[3] = j
  <2>1. Class(c, d, j) = 2 => Len(chans) < MaxChannels
    BY <1>0 DEF Room
  <2> HIDE DEF i, j
  <2> QED BY <1>0, <1>1, <2>1, EndsOf
<1> HIDE DEF u, i, j
<1>3. NewLink(c, d, u, v)
  BY <1>1, <1>2 DEF NewLink, u
<1> QED BY <1>2, <1>3

\* What a link does; N holds the new channel, if there is one.
Joined(c, d, M, t) ==
    /\ Linked(c, d) /\ Room(c, d)
    /\ M \subseteq {Len(chans) + 1}
    /\ (\E i \in SL!Role : Class(c, d, i) = 2) => M # {}
    /\ DOMAIN chans' = DOMAIN chans \cup M
    /\ \A b \in DOMAIN chans :
          /\ Of(b)' = Of(b) /\ \A i, j : Mat(b, i, j)' = Mat(b, i, j)
          /\ state'[b] = IF b \in {c, d} THEN "linked" ELSE state[b]
          /\ session'[b] = IF session[b] = session[d] THEN session[c] ELSE session[b]
    /\ \A n \in M :
          /\ Of(n)' = Of(c) \cap Of(d)
          /\ \A i, j \in SL!Role :
                Mat(n, i, j)' = IF (Class(c, d, i) = 2) # (Class(c, d, j) = 2)
                                THEN <<n, i, j>> ELSE SL!Null
          /\ state'[n] = "open" /\ session'[n] = session[c]
    /\ \A u \in SL!Uchans : lrfcnt'[u] = IF New(c, d, u) THEN 2 ELSE lrfcnt[u]
    /\ lrfcnt'[SL!Null] = lrfcnt[SL!Null]
    /\ \A l \in links' : l \in links \/ (NewLink(c, d, l[1], l[2]) /\ l[3] = t)
    /\ links \subseteq links'
    /\ \A u, v \in SL!Uchans : NewLink(c, d, u, v) => <<u, v, t>> \in links'
    /\ UNCHANGED <<lqnext, unrefs>>

\* Where the references are after a link.
LEMMA JoinedTokens ==
    ASSUME LinkInv, SL!TypeOK', NEW c, NEW d, NEW M, NEW t, Joined(c, d, M, t)
    PROVE  /\ \A u \in SL!Uchans : New(c, d, u) => u[1] \in M /\ u[1] \notin DOMAIN chans
           /\ \A u, v \in SL!Uchans : SL!Onward(u, v)' <=> SL!Onward(u, v) \/ NewLink(c, d, u, v)
           /\ \A u \in SL!Uchans :
                 Links(u)' <=> \/ Links(u) \/ Writes(c, u) \/ Writes(d, u)
                              \/ (New(c, d, u) /\ Class(c, d, u[3]) = 2)
           /\ \A b \in DOMAIN chans, u \in SL!Uchans :
                 /\ Writes(b, u)' <=> Writes(b, u) /\ b \notin {c, d}
                 /\ Reads(b, u)' <=> Reads(b, u) /\ b \notin {c, d}
           /\ \A n \in M, u \in SL!Uchans :
                 /\ Writes(n, u)' <=> New(c, d, u) /\ Class(c, d, u[2]) = 2
                 /\ Reads(n, u)' <=> New(c, d, u) /\ Class(c, d, u[3]) = 2
<1>0. /\ SL!TypeOK /\ Linked(c, d) /\ Room(c, d)
      /\ c \in DOMAIN chans /\ d \in DOMAIN chans
  BY DEF LinkInv, Joined, Linked
<1>1. ASSUME NEW u \in SL!Uchans, New(c, d, u) PROVE u[1] \in M /\ u[1] \notin DOMAIN chans
  <2>1. u[2] \in SL!Role /\ u[3] \in SL!Role
    BY DEF SL!Uchans
  <2>2. \E i \in SL!Role : Class(c, d, i) = 2
    BY <1>1, <2>1 DEF New
  <2>3. M = {Len(chans) + 1}
    <3>1. M \subseteq {Len(chans) + 1} /\ M # {}
      BY <2>2 DEF Joined
    <3> QED BY <3>1
  <2> QED BY <1>0, <1>1, <2>3 DEF New, SL!TypeOK
<1>2. ASSUME NEW u \in SL!Uchans, NEW v \in SL!Uchans
      PROVE  SL!Onward(u, v)' <=> SL!Onward(u, v) \/ NewLink(c, d, u, v)
  <2>1. lqnext' = lqnext
    BY DEF Joined
  <2>2. (\E l \in links' : l[1] = u /\ l[2] = v)
           <=> (\E l \in links : l[1] = u /\ l[2] = v) \/ NewLink(c, d, u, v)
    <3>1. ASSUME NEW l \in links', l[1] = u, l[2] = v
          PROVE  (\E m \in links : m[1] = u /\ m[2] = v) \/ NewLink(c, d, u, v)
      BY <3>1 DEF Joined
    <3>2. ASSUME NewLink(c, d, u, v) PROVE \E l \in links' : l[1] = u /\ l[2] = v
      <4>1. <<u, v, t>> \in links'
        BY <3>2 DEF Joined
      <4> QED BY <4>1
    <3>3. links \subseteq links'
      BY DEF Joined
    <3> QED BY <3>1, <3>2, <3>3
  <2> QED BY <2>1, <2>2 DEF SL!Onward
<1>3. ASSUME NEW u \in SL!Uchans
      PROVE  Links(u)' <=> \/ Links(u) \/ Writes(c, u) \/ Writes(d, u)
                          \/ (New(c, d, u) /\ Class(c, d, u[3]) = 2)
  <2>1. ASSUME Links(u)', ~Links(u)
        PROVE  Writes(c, u) \/ Writes(d, u) \/ (New(c, d, u) /\ Class(c, d, u[3]) = 2)
    <3>1. PICK l \in links' : l[1] = u
      BY <2>1 DEF Links
    <3>2. NewLink(c, d, u, l[2]) /\ l[2] \in SL!Uchans
      BY <2>1, <3>1 DEF Links, Joined, SL!TypeOK
    <3> QED BY <1>0, <3>2, NewLinkEnds
  <2>2. ASSUME Links(u) PROVE Links(u)'
    <3>1. links \subseteq links'
      BY DEF Joined
    <3> QED BY <2>2, <3>1 DEF Links
  <2>3. ASSUME Writes(c, u) \/ Writes(d, u) \/ (New(c, d, u) /\ Class(c, d, u[3]) = 2)
        PROVE  Links(u)'
    <3>1. PICK v \in SL!Uchans : NewLink(c, d, u, v)
      BY <1>0, <2>3, NewLinkFrom
    <3>2. <<u, v, t>> \in links'
      BY <3>1 DEF Joined
    <3> QED BY <3>2 DEF Links
  <2> QED BY <2>1, <2>2, <2>3
<1>4. ASSUME NEW b \in DOMAIN chans, NEW u \in SL!Uchans
      PROVE  /\ Writes(b, u)' <=> Writes(b, u) /\ b \notin {c, d}
             /\ Reads(b, u)' <=> Reads(b, u) /\ b \notin {c, d}
  <2>1. Of(b)' = Of(b) /\ Mat(b, u[2], u[3])' = Mat(b, u[2], u[3])
    BY DEF Joined
  <2>2. Held(b)' <=> Held(b) /\ b \notin {c, d}
    BY DEF Joined, Held
  <2> QED BY <2>1, <2>2 DEF Writes, Reads
<1>5. ASSUME NEW n \in M, NEW u \in SL!Uchans
      PROVE  /\ Writes(n, u)' <=> New(c, d, u) /\ Class(c, d, u[2]) = 2
             /\ Reads(n, u)' <=> New(c, d, u) /\ Class(c, d, u[3]) = 2
  <2>1. u[2] \in SL!Role /\ u[3] \in SL!Role /\ u = <<u[1], u[2], u[3]>> /\ u # SL!Null
    BY NullApart DEF SL!Uchans
  <2>2. /\ n = Len(chans) + 1 /\ Held(n)' /\ Of(n)' = Of(c) \cap Of(d)
        /\ Mat(n, u[2], u[3])' = IF (Class(c, d, u[2]) = 2) # (Class(c, d, u[3]) = 2)
                                 THEN <<n, u[2], u[3]>> ELSE SL!Null
    BY <2>1 DEF Joined, Held
  <2>3. Mat(n, u[2], u[3])' = u <=> New(c, d, u)
    BY <2>1, <2>2 DEF New
  <2>4. \A i : i \in Of(n)' <=> Class(c, d, i) = 2
    BY <2>2 DEF Class
  <2> QED BY <2>2, <2>3, <2>4 DEF Writes, Reads
<1> QED BY <1>1, <1>2, <1>3, <1>4, <1>5

LEMMA JoinedCounts ==
    ASSUME LinkInv, SL!TypeOK', NEW c, NEW d, NEW M, NEW t, Joined(c, d, M, t)
    PROVE  OnePlace' /\ LinkCounts'
<1> DEFINE D == DOMAIN chans
<1>0. /\ SL!TypeOK /\ OnePlace /\ LinkCounts /\ Made /\ Linked(c, d) /\ Room(c, d) /\ c \in D /\ d \in D
      /\ DOMAIN chans' = D \cup M /\ lqnext' = lqnext /\ unrefs' = unrefs
  BY DEF LinkInv, Joined, Linked
<1>1. /\ \A u \in SL!Uchans : New(c, d, u) => u[1] \in M /\ u[1] \notin D
      /\ \A u, v \in SL!Uchans : SL!Onward(u, v)' <=> SL!Onward(u, v) \/ NewLink(c, d, u, v)
      /\ \A u \in SL!Uchans :
            Links(u)' <=> \/ Links(u) \/ Writes(c, u) \/ Writes(d, u)
                         \/ (New(c, d, u) /\ Class(c, d, u[3]) = 2)
      /\ \A b \in D, u \in SL!Uchans :
            /\ Writes(b, u)' <=> Writes(b, u) /\ b \notin {c, d}
            /\ Reads(b, u)' <=> Reads(b, u) /\ b \notin {c, d}
      /\ \A n \in M, u \in SL!Uchans :
            /\ Writes(n, u)' <=> New(c, d, u) /\ Class(c, d, u[2]) = 2
            /\ Reads(n, u)' <=> New(c, d, u) /\ Class(c, d, u[3]) = 2
  BY JoinedTokens
<1>2. \A u \in SL!Uchans : New(c, d, u) => (Class(c, d, u[2]) = 2) # (Class(c, d, u[3]) = 2)
  BY DEF New
<1>3. \A u \in SL!Uchans : New(c, d, u) =>
         /\ \A v \in SL!Uchans : ~SL!Onward(u, v) /\ ~SL!Onward(v, u)
         /\ \A b \in D : ~Writes(b, u) /\ ~Reads(b, u)
         /\ ~Links(u) /\ u \notin unrefs /\ ~HasWriter(u) /\ ~HasReader(u)
         /\ lrfcnt[u] = 0 /\ lqnext[u] = SL!Null
  BY <1>1, Unheard
<1>4. \A n \in M, m \in M : n = m
  BY DEF Joined
<1>5. \A n \in M : n \notin D
  BY <1>0 DEF Joined, SL!TypeOK
<1>6. /\ \A u, v \in SL!Uchans : NewLink(c, d, u, v) =>
            /\ Writes(c, u) \/ Writes(d, u) \/ (New(c, d, u) /\ Class(c, d, u[3]) = 2)
            /\ Reads(c, v) \/ Reads(d, v) \/ (New(c, d, v) /\ Class(c, d, v[2]) = 2)
            /\ u[2] = v[2] /\ u[3] = v[3]
      /\ \A v \in SL!Uchans :
            Reads(c, v) \/ Reads(d, v) \/ (New(c, d, v) /\ Class(c, d, v[2]) = 2) =>
               \E u \in SL!Uchans : NewLink(c, d, u, v)
  BY <1>0, NewLinkEnds, NewLinkTo
<1>7. /\ \A u, v, w \in SL!Uchans : NewLink(c, d, u, v) /\ NewLink(c, d, u, w) => v = w
      /\ \A u, v, w \in SL!Uchans : NewLink(c, d, u, w) /\ NewLink(c, d, v, w) => u = v
  <2>1. \A u, v, w \in SL!Uchans : NewLink(c, d, u, v) /\ NewLink(c, d, u, w) => v = w
    BY DEF NewLink
  <2>2. ASSUME NEW u \in SL!Uchans, NEW v \in SL!Uchans, NEW w \in SL!Uchans,
               NewLink(c, d, u, w), NewLink(c, d, v, w)
        PROVE  u = v
    <3>1. u[2] = v[2] /\ u[3] = v[3]
      BY <1>6, <2>2
    <3> QED BY <2>2, <3>1 DEF NewLink
  <2> QED BY <2>1, <2>2
<1>8. ASSUME NEW v \in SL!Uchans
      PROVE  /\ \A b, e \in D \cup M : Writes(b, v)' /\ Writes(e, v)' => b = e
             /\ \A b, e \in D \cup M : Reads(b, v)' /\ Reads(e, v)' => b = e
             /\ \A b \in D \cup M : Reads(b, v)' => v \notin unrefs'
             /\ \A b \in D \cup M : ~(Writes(b, v)' /\ Links(v)')
  <2>1. /\ \A b, e \in D : Writes(b, v) /\ Writes(e, v) => b = e
        /\ \A b, e \in D : Reads(b, v) /\ Reads(e, v) => b = e
        /\ \A b \in D : Reads(b, v) => v \notin unrefs
        /\ \A b \in D : ~(Writes(b, v) /\ Links(v))
    BY <1>0 DEF OnePlace
  <2>2. /\ \A b, e \in D \cup M : Writes(b, v)' /\ Writes(e, v)' => b = e
        /\ \A b, e \in D \cup M : Reads(b, v)' /\ Reads(e, v)' => b = e
    BY <1>1, <1>3, <1>4, <2>1
  <2>3. \A b \in D \cup M : Reads(b, v)' => v \notin unrefs'
    BY <1>0, <1>1, <1>3, <2>1
  <2>4. \A b \in D \cup M : ~(Writes(b, v)' /\ Links(v)')
    BY <1>0, <1>1, <1>2, <1>3, <2>1
  <2> QED BY <2>2, <2>3, <2>4
<1>9. ASSUME NEW v \in SL!Uchans, NEW l \in links', NEW m \in links', l[1] = v, m[1] = v
      PROVE  l = m
  <2>1. /\ l = <<v, l[2], l[3]>> /\ m = <<v, m[2], m[3]>> /\ l[2] \in SL!Uchans /\ m[2] \in SL!Uchans
    BY <1>9 DEF SL!TypeOK
  <2>2. /\ l \in links \/ (NewLink(c, d, v, l[2]) /\ l[3] = t)
        /\ m \in links \/ (NewLink(c, d, v, m[2]) /\ m[3] = t)
    BY <1>9 DEF Joined
  <2>3. CASE l \in links /\ m \in links
    BY <1>0, <1>9, <2>3 DEF OnePlace
  <2>4. CASE NewLink(c, d, v, l[2]) /\ NewLink(c, d, v, m[2]) /\ l[3] = t /\ m[3] = t
    BY <1>7, <2>1, <2>4
  <2>5. CASE Links(v) /\ (NewLink(c, d, v, l[2]) \/ NewLink(c, d, v, m[2]))
    <3>1. Writes(c, v) \/ Writes(d, v) \/ New(c, d, v)
      BY <1>6, <2>1, <2>5
    <3> QED BY <1>0, <1>3, <2>5, <3>1 DEF OnePlace
  <2> QED BY <1>9, <2>2, <2>3, <2>4, <2>5 DEF Links
<1>10. ASSUME NEW v \in SL!Uchans, NEW y \in SL!Uchans, SL!Onward(y, v)'
       PROVE  /\ v \notin unrefs'
              /\ \A b \in D \cup M : ~Reads(b, v)'
              /\ \A z \in SL!Uchans : SL!Onward(z, v)' => y = z
  <2>1. CASE SL!Onward(y, v)
    <3>1. ~New(c, d, v) /\ v \notin unrefs /\ \A b \in D : ~Reads(b, v)
      BY <1>0, <1>3, <2>1 DEF OnePlace
    <3>2. \A z \in SL!Uchans : ~NewLink(c, d, z, v)
      BY <1>0, <1>6, <3>1
    <3>3. \A z \in SL!Uchans : SL!Onward(z, v)' => y = z
      BY <1>0, <1>1, <2>1, <3>2 DEF OnePlace
    <3> QED BY <1>0, <1>1, <3>1, <3>3
  <2>2. CASE NewLink(c, d, y, v)
    <3>1. Reads(c, v) \/ Reads(d, v) \/ (New(c, d, v) /\ Class(c, d, v[2]) = 2)
      BY <1>6, <2>2
    <3>2. v \notin unrefs /\ \A z \in SL!Uchans : ~SL!Onward(z, v)
      BY <1>0, <1>3, <3>1 DEF OnePlace
    <3>3. \A b \in D \cup M : ~Reads(b, v)'
      <4>1. CASE New(c, d, v) /\ Class(c, d, v[2]) = 2
        BY <1>1, <1>2, <1>3, <4>1
      <4>2. CASE Reads(c, v) \/ Reads(d, v)
        <5>1. ~New(c, d, v)
          BY <1>0, <1>3, <4>2
        <5>2. \A b \in D : Reads(b, v) => b \in {c, d}
          BY <1>0, <4>2 DEF OnePlace
        <5> QED BY <1>1, <5>1, <5>2
      <4> QED BY <3>1, <4>1, <4>2
    <3>4. \A z \in SL!Uchans : SL!Onward(z, v)' => y = z
      BY <1>1, <1>7, <2>2, <3>2
    <3> QED BY <1>0, <3>2, <3>3, <3>4
  <2> QED BY <1>1, <1>10, <2>1, <2>2
<1>11. ASSUME NEW v \in SL!Uchans, lqnext'[v] # SL!Null
       PROVE  ~Links(v)' /\ \A b \in D \cup M : ~Writes(b, v)'
  <2>1. ~New(c, d, v) /\ ~Links(v) /\ \A b \in D : ~Writes(b, v)
    BY <1>0, <1>3, <1>11 DEF OnePlace
  <2> QED BY <1>0, <1>1, <2>1
<1>12. OnePlace'
  BY <1>0, <1>8, <1>9, <1>10, <1>11 DEF OnePlace
<1>13. ASSUME NEW u \in SL!Uchans
       PROVE  /\ HasWriter(u)' <=> HasWriter(u) \/ New(c, d, u)
              /\ HasReader(u)' <=> HasReader(u) \/ New(c, d, u)
  <2>1. HasWriter(u)' <=> Links(u)' \/ \E b \in D \cup M : Writes(b, u)'
    BY <1>0 DEF HasWriter
  <2>2. HasReader(u)' <=> \/ u \in unrefs \/ (\E b \in D \cup M : Reads(b, u)')
                        \/ \E v \in SL!Uchans : SL!Onward(v, u) \/ NewLink(c, d, v, u)
    BY <1>0, <1>1 DEF HasReader
  <2>3. CASE New(c, d, u)
    <3>1. u[1] \in M
      BY <1>1, <2>3
    <3>2. HasWriter(u)'
      BY <1>1, <1>2, <2>1, <2>3, <3>1
    <3>3. HasReader(u)'
      BY <1>1, <1>2, <1>6, <2>2, <2>3, <3>1
    <3> QED BY <2>3, <3>2, <3>3
  <2>4. CASE ~New(c, d, u)
    <3>1. HasWriter(u)' <=> Links(u) \/ \E b \in D : Writes(b, u)
      BY <1>0, <1>1, <2>1, <2>4
    <3>2. HasReader(u)' <=> \/ u \in unrefs \/ (\E b \in D : Reads(b, u))
                          \/ \E v \in SL!Uchans : SL!Onward(v, u)
      BY <1>0, <1>1, <1>6, <2>2, <2>4
    <3> QED BY <2>4, <3>1, <3>2 DEF HasWriter, HasReader
  <2> QED BY <2>3, <2>4
<1>14. LinkCounts'
  <2>1. ASSUME NEW v \in SL!Uchans PROVE lrfcnt'[v] = Holders(v)' /\ (lrfcnt'[v] = 0 => lqnext'[v] = SL!Null)
    <3>1. lrfcnt[v] = Holders(v) /\ (lrfcnt[v] = 0 => lqnext[v] = SL!Null)
      BY <1>0 DEF LinkCounts
    <3>2. lrfcnt'[v] = IF New(c, d, v) THEN 2 ELSE lrfcnt[v]
      BY DEF Joined
    <3>3. CASE New(c, d, v)
      BY <1>0, <1>3, <1>13, <3>2, <3>3 DEF Holders
    <3>4. CASE ~New(c, d, v)
      BY <1>0, <1>13, <3>1, <3>2, <3>4 DEF Holders
    <3> QED BY <3>3, <3>4
  <2>2. lrfcnt'[SL!Null] = 0 /\ lqnext'[SL!Null] = SL!Null
    BY <1>0 DEF LinkCounts, Joined
  <2> QED BY <2>1, <2>2 DEF LinkCounts
<1> QED BY <1>12, <1>14

\* Of the holders in the session that c and d make, each one had the roles of
\* one of the three classes.
Home(c, d, b) ==
    IF b \notin DOMAIN chans THEN 2 ELSE IF session[b] = session[c] THEN 0 ELSE 1

LEMMA JoinedHolders ==
    ASSUME LinkInv, SL!TypeOK', NEW c, NEW d, NEW M, NEW t, Joined(c, d, M, t),
           NEW b \in DOMAIN chans', Held(b)', session'[b] = session[c]
    PROVE  /\ b \in DOMAIN chans =>
                 /\ b \notin {c, d} /\ Held(b) /\ session[b] \in {session[c], session[d]}
                 /\ state'[b] = state[b] /\ Of(b)' = Of(b)
                 /\ \A i, j : Mat(b, i, j)' = Mat(b, i, j)
           /\ \A i \in Of(b)' : i \in SL!Role /\ Class(c, d, i) = Home(c, d, b)
<1>0. /\ SL!TypeOK /\ Shares /\ Linked(c, d) /\ c \in DOMAIN chans /\ d \in DOMAIN chans
      /\ Held(c) /\ Held(d) /\ session[c] # session[d] /\ Of(c) \cup Of(d) = SL!Role
      /\ DOMAIN chans' = DOMAIN chans \cup M
  BY DEF LinkInv, Joined, Linked, Held
<1>1. CASE b \in DOMAIN chans
  <2>1. /\ Of(b)' = Of(b) /\ \A i, j : Mat(b, i, j)' = Mat(b, i, j)
        /\ state'[b] = IF b \in {c, d} THEN "linked" ELSE state[b]
        /\ session'[b] = IF session[b] = session[d] THEN session[c] ELSE session[b]
    BY <1>1 DEF Joined
  <2>2. b \notin {c, d} /\ Held(b) /\ session[b] \in {session[c], session[d]} /\ state'[b] = state[b]
    BY <2>1 DEF Held
  <2>3. ASSUME NEW i \in Of(b) PROVE i \in SL!Role /\ Class(c, d, i) = Home(c, d, b)
    <3>1. i \in SL!Role
      BY <1>0, <1>1, ChannelOf
    <3>2. CASE session[b] = session[c]
      <4>1. i \notin Of(c)
        BY <1>0, <1>1, <2>2, <3>2 DEF Shares
      <4> QED BY <1>1, <3>1, <3>2, <4>1 DEF Class, Home
    <3>3. CASE session[b] = session[d]
      <4>1. i \notin Of(d)
        BY <1>0, <1>1, <2>2, <3>3 DEF Shares
      <4>2. i \in Of(c)
        BY <1>0, <3>1, <4>1
      <4> QED BY <1>0, <1>1, <3>1, <3>3, <4>1, <4>2 DEF Class, Home
    <3> QED BY <2>2, <3>2, <3>3
  <2> QED BY <1>1, <2>1, <2>2, <2>3
<1>2. CASE b \notin DOMAIN chans
  <2>1. Of(b)' = Of(c) \cap Of(d)
    BY <1>0, <1>2 DEF Joined
  <2> QED BY <1>0, <1>2, <2>1 DEF Class, Home
<1> QED BY <1>1, <1>2

LEMMA JoinedShares ==
    ASSUME LinkInv, SL!TypeOK', NEW c, NEW d, NEW M, NEW t, Joined(c, d, M, t)
    PROVE  Shares'
<1> DEFINE D == DOMAIN chans
<1>0. /\ SL!TypeOK /\ Shares /\ Linked(c, d) /\ c \in D /\ d \in D
      /\ Held(c) /\ Held(d) /\ session[c] # session[d] /\ Of(c) \cup Of(d) = SL!Role
      /\ DOMAIN chans' = D \cup M
      /\ (\E i \in SL!Role : Class(c, d, i) = 2) => M # {}
  BY DEF LinkInv, Joined, Linked, Held
<1>1. \A b \in D :
         /\ Of(b)' = Of(b) /\ (Held(b)' <=> Held(b) /\ b \notin {c, d})
         /\ session'[b] = IF session[b] = session[d] THEN session[c] ELSE session[b]
  BY DEF Joined, Held
<1>2. \A n \in M : Of(n)' = Of(c) \cap Of(d) /\ session'[n] = session[c] /\ Held(n)'
  BY DEF Joined, Held
<1>3. ASSUME NEW b \in D \cup M, NEW i \in SL!Role
      PROVE  \E e \in D \cup M : Held(e)' /\ session'[e] = session'[b] /\ i \in Of(e)'
  <2>1. CASE session'[b] = session[c]
    <3>1. CASE i \notin Of(c)
      <4>1. PICK e \in D : Held(e) /\ session[e] = session[c] /\ i \in Of(e)
        BY <1>0 DEF Shares
      <4>2. e # c /\ e # d
        BY <1>0, <3>1, <4>1
      <4> QED BY <1>0, <1>1, <2>1, <4>1, <4>2
    <3>2. CASE i \notin Of(d)
      <4>1. PICK e \in D : Held(e) /\ session[e] = session[d] /\ i \in Of(e)
        BY <1>0 DEF Shares
      <4>2. e # c /\ e # d
        BY <1>0, <3>2, <4>1
      <4> QED BY <1>0, <1>1, <2>1, <4>1, <4>2
    <3>3. CASE i \in Of(c) /\ i \in Of(d)
      <4>1. PICK n \in M : TRUE
        BY <1>0, <3>3 DEF Class
      <4> QED BY <1>2, <2>1, <3>3, <4>1
    <3> QED BY <3>1, <3>2, <3>3
  <2>2. CASE session'[b] # session[c]
    <3>1. b \in D /\ session'[b] = session[b] /\ session[b] # session[c] /\ session[b] # session[d]
      BY <1>1, <1>2, <2>2
    <3>2. PICK e \in D : Held(e) /\ session[e] = session[b] /\ i \in Of(e)
      BY <1>0, <3>1 DEF Shares
    <3>3. e # c /\ e # d
      BY <3>1, <3>2
    <3> QED BY <1>1, <3>1, <3>2, <3>3
  <2> QED BY <2>1, <2>2
<1>4. ASSUME NEW b \in D \cup M, NEW e \in D \cup M, Held(b)', Held(e)',
             session'[b] = session'[e], b # e
      PROVE  Of(b)' \cap Of(e)' = {}
  <2>1. CASE b \in D /\ e \in D /\ session[b] = session[e]
    BY <1>0, <1>1, <1>4, <2>1 DEF Shares
  <2>2. CASE ~(b \in D /\ e \in D /\ session[b] = session[e])
    <3>1. session'[b] = session[c] /\ session'[e] = session[c]
      BY <1>1, <1>2, <1>4, <2>2
    <3>2. \A n, m \in M : n = m
      BY DEF Joined
    <3>3. /\ \A i \in Of(b)' : Class(c, d, i) = Home(c, d, b)
          /\ \A i \in Of(e)' : Class(c, d, i) = Home(c, d, e)
      BY <1>0, <1>4, <3>1, JoinedHolders
    <3>4. /\ b \in D => session[b] \in {session[c], session[d]}
          /\ e \in D => session[e] \in {session[c], session[d]}
      BY <1>1, <3>1
    <3>5. Home(c, d, b) # Home(c, d, e)
      BY <1>0, <1>4, <2>2, <3>2, <3>4 DEF Home
    <3> QED BY <3>3, <3>5
  <2> QED BY <2>1, <2>2
<1> QED BY <1>0, <1>3, <1>4 DEF Shares

LEMMA JoinedPlaces ==
    ASSUME LinkInv, SL!TypeOK', NEW c, NEW d, NEW M, NEW t, Joined(c, d, M, t)
    PROVE  Matrices' /\ Straight' /\ Made'
<1> DEFINE D == DOMAIN chans
<1>0. /\ SL!TypeOK /\ Matrices /\ Straight /\ Made /\ Linked(c, d) /\ Room(c, d) /\ c \in D /\ d \in D
      /\ DOMAIN chans' = D \cup M /\ unrefs' = unrefs
  BY DEF LinkInv, Joined, Linked
<1>1. \A b \in D :
         /\ Of(b)' = Of(b) /\ \A i, j : Mat(b, i, j)' = Mat(b, i, j)
         /\ state'[b] = IF b \in {c, d} THEN "linked" ELSE state[b]
         /\ session'[b] = IF session[b] = session[d] THEN session[c] ELSE session[b]
  BY DEF Joined
<1>2. \A n \in M :
         /\ \A i : i \in Of(n)' <=> Class(c, d, i) = 2
         /\ \A i, j \in SL!Role :
               Mat(n, i, j)' = IF (Class(c, d, i) = 2) # (Class(c, d, j) = 2)
                               THEN <<n, i, j>> ELSE SL!Null
         /\ session'[n] = session[c]
  BY DEF Joined, Class
<1>3. ASSUME NEW b \in D, NEW i \in SL!Role, NEW j \in SL!Role, Held(b)'
      PROVE  /\ Mat(b, i, j)' # SL!Null =>
                   /\ Mat(b, i, j)'[2] = i /\ Mat(b, i, j)'[3] = j
                   /\ Mat(b, i, j)'[1] \in D \cup M
                   /\ session'[Mat(b, i, j)'[1]] = session'[b]
                   /\ (i \in Of(b)') # (j \in Of(b)')
             /\ state'[b] = "open" /\ (i \in Of(b)') # (j \in Of(b)') => Mat(b, i, j)' # SL!Null
  <2>1. Mat(b, i, j)' = Mat(b, i, j) /\ Of(b)' = Of(b) /\ Held(b)
        /\ (state'[b] = "open" => state[b] = "open")
    BY <1>1, <1>3 DEF Held
  <2>2. /\ Mat(b, i, j) # SL!Null =>
              /\ Mat(b, i, j)[2] = i /\ Mat(b, i, j)[3] = j
              /\ Mat(b, i, j)[1] \in D
              /\ session[Mat(b, i, j)[1]] = session[b]
              /\ (i \in Of(b)) # (j \in Of(b))
        /\ state[b] = "open" /\ (i \in Of(b)) # (j \in Of(b)) => Mat(b, i, j) # SL!Null
    BY <1>0, <2>1 DEF Matrices
  <2>3. Mat(b, i, j) # SL!Null => session'[Mat(b, i, j)[1]] = session'[b]
    BY <1>1, <2>2
  <2> QED BY <2>1, <2>2, <2>3
<1>4. ASSUME NEW b \in M, NEW i \in SL!Role, NEW j \in SL!Role
      PROVE  /\ Mat(b, i, j)' # SL!Null =>
                   /\ Mat(b, i, j)'[2] = i /\ Mat(b, i, j)'[3] = j
                   /\ Mat(b, i, j)'[1] \in D \cup M
                   /\ session'[Mat(b, i, j)'[1]] = session'[b]
                   /\ (i \in Of(b)') # (j \in Of(b)')
             /\ state'[b] = "open" /\ (i \in Of(b)') # (j \in Of(b)') => Mat(b, i, j)' # SL!Null
  <2>1. CASE (Class(c, d, i) = 2) # (Class(c, d, j) = 2)
    <3>1. Mat(b, i, j)' = <<b, i, j>> /\ (i \in Of(b)') # (j \in Of(b)')
      BY <1>2, <2>1
    <3>2. <<b, i, j>> # SL!Null
      <4>1. b # 0
        BY <1>0 DEF Joined, SL!TypeOK
      <4> QED BY <4>1 DEF SL!Null
    <3> QED BY <3>1, <3>2
  <2>2. CASE ~((Class(c, d, i) = 2) # (Class(c, d, j) = 2))
    BY <1>2, <2>2
  <2> QED BY <2>1, <2>2
<1>5. Matrices'
  BY <1>0, <1>3, <1>4 DEF Matrices
<1>6. ASSUME NEW u \in SL!Uchans, NEW v \in SL!Uchans, SL!Onward(u, v)'
      PROVE  /\ u[2] = v[2] /\ u[3] = v[3]
             /\ u[1] \in D \cup M /\ v[1] \in D \cup M
             /\ session'[u[1]] = session'[v[1]]
             /\ u # v
  <2>1. SL!Onward(u, v) \/ NewLink(c, d, u, v)
    BY <1>6, JoinedTokens
  <2>2. CASE SL!Onward(u, v)
    <3>1. /\ u[2] = v[2] /\ u[3] = v[3] /\ u # v
          /\ u[1] \in D /\ v[1] \in D
          /\ session[u[1]] = session[v[1]]
      BY <1>0, <2>2 DEF Straight
    <3> QED BY <1>1, <3>1
  <2>3. CASE NewLink(c, d, u, v)
    <3>1. /\ u[2] = v[2] /\ u[3] = v[3] /\ u # v
          /\ \A x \in {u, v} :
                \/ x[1] \in D /\ session[x[1]] \in {session[c], session[d]}
                \/ x[1] = Len(chans) + 1 /\ New(c, d, x) /\ \E i \in SL!Role : Class(c, d, i) = 2
      BY <1>0, <2>3, NewLinkEnds
    <3>2. \A x \in SL!Uchans : New(c, d, x) => x[1] \in M
      BY JoinedTokens
    <3>3. \A x \in {u, v} : x[1] \in D \cup M /\ session'[x[1]] = session[c]
      BY <1>1, <1>2, <3>1, <3>2
    <3> QED BY <3>1, <3>3
  <2> QED BY <2>1, <2>2, <2>3
<1>7. Straight'
  BY <1>0, <1>6 DEF Straight
<1>8. Made'
  BY <1>0 DEF Made
<1> QED BY <1>5, <1>7, <1>8

LEMMA JoinedRoutes ==
    ASSUME LinkInv, SL!TypeOK', NEW c, NEW d, NEW M, NEW t, Joined(c, d, M, t)
    PROVE  Routes' /\ Acyclic(Edges)'
<1> DEFINE D == DOMAIN chans
<1>0. /\ SL!TypeOK /\ Shares /\ Matrices /\ Routes /\ Acyclic(Edges) /\ Straight
      /\ Linked(c, d) /\ Room(c, d) /\ c \in D /\ d \in D
      /\ state[c] = "open" /\ state[d] = "open" /\ session[c] # session[d]
      /\ DOMAIN chans' = D \cup M
  BY DEF LinkInv, Joined, Linked
<1>1. \A u, v \in SL!Uchans : SL!Onward(u, v)' <=> SL!Onward(u, v) \/ NewLink(c, d, u, v)
  BY JoinedTokens
<1>2. /\ \A u, v \in SL!Uchans : <<u, v>> \in Edges <=> SL!Onward(u, v)
      /\ \A u, v \in SL!Uchans : <<u, v>> \in Edges' <=> SL!Onward(u, v) \/ NewLink(c, d, u, v)
      /\ Edges \subseteq Edges'
  <2>1. \A u, v \in SL!Uchans : <<u, v>> \in Edges <=> SL!Onward(u, v)
    BY DEF Edges
  <2>2. \A u, v \in SL!Uchans : <<u, v>> \in Edges' <=> SL!Onward(u, v)'
    BY DEF Edges
  <2>3. \A e \in Edges : e \in Edges'
    BY <1>1 DEF Edges
  <2> QED BY <1>1, <2>1, <2>2, <2>3
<1>3. Acyclic(Edges)'
  <2> DEFINE lab == [u \in SL!Uchans |-> <<u[2], u[3]>>]
             cls == [u \in SL!Uchans |-> SessionOf(u)]
  <2>1. \A u, v \in SL!Uchans : <<u, v>> \in Edges => lab[u] = lab[v] /\ cls[u] = cls[v]
    <3>1. \A u, v \in SL!Uchans : SL!Onward(u, v) => u[2] = v[2] /\ u[3] = v[3] /\ SessionOf(u) = SessionOf(v)
      BY <1>0 DEF Straight, SessionOf
    <3> QED BY <1>2, <3>1
  <2>2. \A u, v \in SL!Uchans : <<u, v>> \in Edges' \ Edges => lab[u] = lab[v] /\ cls[u] # cls[v]
    <3>1. \A u, v \in SL!Uchans : NewLink(c, d, u, v) =>
             u[2] = v[2] /\ u[3] = v[3] /\ SessionOf(u) # SessionOf(v)
      BY <1>0, NewLinkEnds
    <3> QED BY <1>2, <3>1
  <2>3. \A u, v, x, y \in SL!Uchans :
           <<u, v>> \in Edges' \ Edges /\ <<x, y>> \in Edges' \ Edges /\ lab[u] = lab[x] => u = x /\ v = y
    <3>1. \A u, v, x, y \in SL!Uchans :
             NewLink(c, d, u, v) /\ NewLink(c, d, x, y) /\ u[2] = x[2] /\ u[3] = x[3] => u = x /\ v = y
      BY DEF NewLink
    <3>2. \A u, x \in SL!Uchans : lab[u] = lab[x] => u[2] = x[2] /\ u[3] = x[3]
      OBVIOUS
    <3> HIDE DEF lab
    <3> QED BY <1>2, <3>1, <3>2
  <2> HIDE DEF lab, cls
  <2>4. Acyclic(Edges')
    <3> SUFFICES ASSUME NEW E, E = Edges, NEW F, F = Edges' PROVE Acyclic(F)
      OBVIOUS
    <3>1. /\ Acyclic(E)
          /\ \A u, v \in SL!Uchans : <<u, v>> \in E => lab[u] = lab[v] /\ cls[u] = cls[v]
          /\ \A u, v \in SL!Uchans : <<u, v>> \in F \ E => lab[u] = lab[v] /\ cls[u] # cls[v]
          /\ \A u, v, x, y \in SL!Uchans :
                <<u, v>> \in F \ E /\ <<x, y>> \in F \ E /\ lab[u] = lab[x] => u = x /\ v = y
      BY <1>0, <2>1, <2>2, <2>3
    <3> QED BY <3>1, AcyclicMore
  <2> QED BY <2>4 DEF Acyclic
<1>4. \A b \in D :
         /\ Of(b)' = Of(b) /\ \A i, j : Mat(b, i, j)' = Mat(b, i, j)
         /\ state'[b] = "open" => state[b] = "open" /\ b \notin {c, d}
         /\ session'[b] = IF session[b] = session[d] THEN session[c] ELSE session[b]
  BY DEF Joined
<1>5. \A n \in M : session'[n] = session[c] /\ n = Len(chans) + 1 /\ n \notin D
  BY <1>0 DEF Joined, SL!TypeOK
<1>6. \A a, b \in D : state[a] = "open" /\ state[b] = "open" /\ session[a] = session[b] /\ a # b =>
         \A i \in Of(a), j \in Of(b) : Reaches(Edges, Mat(b, i, j), Mat(a, i, j))
  BY <1>0 DEF Routes
<1>7. ASSUME NEW a \in D \cup M, NEW b \in D \cup M, state'[a] = "open", state'[b] = "open",
             session'[a] = session'[b], a # b, NEW i \in Of(a)', NEW j \in Of(b)'
      PROVE  Reaches(Edges', Mat(b, i, j)', Mat(a, i, j)')
  <2>1. CASE a \in D /\ b \in D /\ session[a] = session[b]
    <3>1. Reaches(Edges, Mat(b, i, j), Mat(a, i, j))
      BY <1>4, <1>6, <1>7, <2>1
    <3>2. Mat(b, i, j)' = Mat(b, i, j) /\ Mat(a, i, j)' = Mat(a, i, j)
      BY <1>4, <2>1
    <3> QED BY <1>2, <3>1, <3>2, ReachesMore
  <2>2. CASE ~(a \in D /\ b \in D /\ session[a] = session[b])
    <3> DEFINE p == Class(c, d, j)
               q == Class(c, d, i)
               u == End(c, d, p, i, j)
               v == End(c, d, q, i, j)
    <3>1. session'[a] = session[c] /\ session'[b] = session[c] /\ Held(a)' /\ Held(b)'
      BY <1>4, <1>5, <1>7, <2>2 DEF Held
    <3>2. i \in SL!Role /\ j \in SL!Role /\ q = Home(c, d, a) /\ p = Home(c, d, b)
      BY <1>0, <1>7, <3>1, JoinedHolders
    <3>3. /\ a \in D => session[a] \in {session[c], session[d]}
          /\ b \in D => session[b] \in {session[c], session[d]}
      BY <1>4, <3>1
    <3>4. p # q
      BY <1>0, <1>5, <1>7, <2>2, <3>2, <3>3 DEF Home
    <3>5. /\ p = 2 => Len(chans) < MaxChannels
          /\ q = 2 => Len(chans) < MaxChannels
      BY <1>0, <3>2 DEF Room
    <3>6. u \in SL!Uchans /\ u[2] = i /\ u[3] = j /\ v \in SL!Uchans
      <4> HIDE DEF p, q, u, v
      <4>1. u \in SL!Uchans /\ u[2] = i /\ u[3] = j
        BY <1>0, <3>2, <3>4, <3>5, EndsOf DEF u, p, q
      <4>2. v \in SL!Uchans
        BY <1>0, <3>2, <3>4, <3>5, EndsOf DEF v, p, q
      <4> QED BY <4>1, <4>2
    <3>7. <<u, v>> \in Edges'
      <4> HIDE DEF u, v
      <4>1. NewLink(c, d, u, v)
        BY <3>4, <3>6 DEF NewLink, u, v
      <4> QED BY <1>2, <3>6, <4>1
    <3>8. Reaches(Edges, Mat(b, i, j)', u)
      <4>1. CASE b \in D
        <5>1. Mat(b, i, j)' = Mat(b, i, j) /\ j \in Of(b) /\ state[b] = "open" /\ b \notin {c, d}
          BY <1>4, <1>7, <4>1
        <5>2. CASE session[b] = session[c]
          <6>1. u = Mat(c, i, j) /\ i \in Of(c)
            BY <3>2, <3>4, <4>1, <5>2 DEF Home, End, Class
          <6> QED BY <1>0, <1>6, <4>1, <5>1, <5>2, <6>1
        <5>3. CASE session[b] = session[d]
          <6>1. u = Mat(d, i, j) /\ i \in Of(d)
            BY <1>0, <3>2, <3>4, <4>1, <5>3 DEF Home, End, Class, Linked
          <6> QED BY <1>0, <1>6, <4>1, <5>1, <5>3, <6>1
        <5> QED BY <3>3, <4>1, <5>2, <5>3
      <4>2. CASE b \notin D
        <5>1. u = <<b, i, j>> /\ p = 2
          BY <1>5, <3>2, <4>2 DEF Home, End
        <5>2. Mat(b, i, j)' = <<b, i, j>>
          <6>1. b \in M /\ (Class(c, d, i) = 2) # (Class(c, d, j) = 2)
            BY <3>4, <4>2, <5>1
          <6> QED BY <3>2, <6>1 DEF Joined
        <5> QED BY <5>1, <5>2, ReachesSelf
      <4> QED BY <4>1, <4>2
    <3>9. Reaches(Edges, v, Mat(a, i, j)')
      <4>1. CASE a \in D
        <5>1. Mat(a, i, j)' = Mat(a, i, j) /\ i \in Of(a) /\ state[a] = "open" /\ a \notin {c, d}
          BY <1>4, <1>7, <4>1
        <5>2. CASE session[a] = session[c]
          <6>1. v = Mat(c, i, j) /\ j \in Of(c)
            BY <3>2, <3>4, <4>1, <5>2 DEF Home, End, Class
          <6> QED BY <1>0, <1>6, <4>1, <5>1, <5>2, <6>1
        <5>3. CASE session[a] = session[d]
          <6>1. v = Mat(d, i, j) /\ j \in Of(d)
            BY <1>0, <3>2, <3>4, <4>1, <5>3 DEF Home, End, Class, Linked
          <6> QED BY <1>0, <1>6, <4>1, <5>1, <5>3, <6>1
        <5> QED BY <3>3, <4>1, <5>2, <5>3
      <4>2. CASE a \notin D
        <5>1. v = <<a, i, j>> /\ q = 2
          BY <1>5, <3>2, <4>2 DEF Home, End
        <5>2. Mat(a, i, j)' = <<a, i, j>>
          <6>1. a \in M /\ (Class(c, d, i) = 2) # (Class(c, d, j) = 2)
            BY <3>4, <4>2, <5>1
          <6> QED BY <3>2, <6>1 DEF Joined
        <5> QED BY <5>1, <5>2, ReachesSelf
      <4> QED BY <4>1, <4>2
    <3> HIDE DEF u, v
    <3> QED BY <1>2, <3>7, <3>8, <3>9, ReachesOver
  <2> QED BY <2>1, <2>2
<1>8. Routes'
  BY <1>0, <1>7 DEF Routes, Reaches
<1> QED BY <1>3, <1>8

LEMMA JoinedKeeps ==
    ASSUME LinkInv, SL!TypeOK', NEW c, NEW d, NEW M, NEW t, Joined(c, d, M, t)
    PROVE  LinkInv'
BY JoinedCounts, JoinedShares, JoinedPlaces, JoinedRoutes DEF LinkInv

-----------------------------------------------------------------------------
(* The calls that link.                                                    *)

LEMMA FunctionSeq ==
    ASSUME NEW S, NEW n \in Nat, NEW f \in [1..n -> S]
    PROVE  f \in Seq(S) /\ Len(f) = n
<1>1. f \in Seq(S)
  BY SeqDef
<1>2. DOMAIN f = 1..Len(f) /\ Len(f) \in Nat
  BY <1>1, LenProperties
<1> QED BY <1>1, <1>2

Place(p, i, j) == p[<<i, j>>]

LEMMA AuxlinkIn ==
    ASSUME NEW G0, NEW G1, NEW p0, NEW p1, NEW t, NEW l
    PROVE  l \in SL!auxlink(G0, G1, p0, p1, t) <=>
              \E i \in SL!elements(G0), j \in SL!elements(G1) :
                 \/ l = <<Place(p0, i, j), Place(p1, i, j), t>>
                 \/ l = <<Place(p1, j, i), Place(p0, j, i), t>>
<1> DEFINE Two(ij) == {<<Place(p0, ij[1], ij[2]), Place(p1, ij[1], ij[2]), t>>,
                       <<Place(p1, ij[2], ij[1]), Place(p0, ij[2], ij[1]), t>>}
<1>1. ASSUME NEW ij \in SL!elements(G0) \X SL!elements(G1)
      PROVE  (LET ji == <<ij[2], ij[1]>> IN {<<p0[ij], p1[ij], t>>, <<p1[ji], p0[ji], t>>}) = Two(ij)
  <2>1. ij = <<ij[1], ij[2]>>
    OBVIOUS
  <2> QED BY <2>1 DEF Place
<1>2. SL!auxlink(G0, G1, p0, p1, t) = UNION {Two(ij) : ij \in SL!elements(G0) \X SL!elements(G1)}
  <2> DEFINE T(ij) == LET ji == <<ij[2], ij[1]>> IN {<<p0[ij], p1[ij], t>>, <<p1[ji], p0[ji], t>>}
             P == SL!elements(G0) \X SL!elements(G1)
  <2>1. SL!auxlink(G0, G1, p0, p1, t) = UNION {T(ij) : ij \in P}
    BY DEF SL!auxlink, SL!intset2_foreach
  <2>2. \A ij \in P : T(ij) = Two(ij)
    BY <1>1
  <2> HIDE DEF Two, T, P
  <2>3. {T(ij) : ij \in P} = {Two(ij) : ij \in P}
    BY <2>2
  <2>4. SL!auxlink(G0, G1, p0, p1, t) = UNION {Two(ij) : ij \in P}
    BY <2>1, <2>3
  <2> QED BY <2>4 DEF P
<1>3. ASSUME NEW i \in SL!elements(G0), NEW j \in SL!elements(G1)
      PROVE  l \in Two(<<i, j>>) <=> \/ l = <<Place(p0, i, j), Place(p1, i, j), t>>
                                  \/ l = <<Place(p1, j, i), Place(p0, j, i), t>>
  OBVIOUS
<1>4. ASSUME NEW ij \in SL!elements(G0) \X SL!elements(G1)
      PROVE  ij = <<ij[1], ij[2]>> /\ ij[1] \in SL!elements(G0) /\ ij[2] \in SL!elements(G1)
  OBVIOUS
<1> HIDE DEF Two
<1>5. l \in SL!auxlink(G0, G1, p0, p1, t) <=> \E ij \in SL!elements(G0) \X SL!elements(G1) : l \in Two(ij)
  BY <1>2
<1>6. (\E ij \in SL!elements(G0) \X SL!elements(G1) : l \in Two(ij))
         <=> \E i \in SL!elements(G0), j \in SL!elements(G1) : l \in Two(<<i, j>>)
  BY <1>4
<1> QED BY <1>3, <1>5, <1>6

\* The links between the uchans of two of the three, for each two roles that
\* are not in the same class.
AllLinks(c, d, t, L) ==
    \A l : l \in L <=>
        \E i, j \in SL!Role :
            /\ Class(c, d, i) # Class(c, d, j)
            /\ l = <<End(c, d, Class(c, d, j), i, j), End(c, d, Class(c, d, i), i, j), t>>

LEMMA AllLinksNew ==
    ASSUME LinkInv, NEW c, NEW d, Linked(c, d), Room(c, d), NEW t, NEW L, AllLinks(c, d, t, L),
           links' = links \cup L
    PROVE  /\ \A l \in L : /\ l \in SL!Uchans \X SL!Uchans \X {t}
                         /\ NewLink(c, d, l[1], l[2]) /\ l[3] = t
           /\ \A u, v \in SL!Uchans : NewLink(c, d, u, v) => <<u, v, t>> \in links'
<1>1. ASSUME NEW l \in L
      PROVE  /\ l \in SL!Uchans \X SL!Uchans \X {t}
             /\ NewLink(c, d, l[1], l[2]) /\ l[3] = t
  <2>1. PICK i \in SL!Role, j \in SL!Role :
           /\ Class(c, d, i) # Class(c, d, j)
           /\ l = <<End(c, d, Class(c, d, j), i, j), End(c, d, Class(c, d, i), i, j), t>>
    BY DEF AllLinks
  <2> DEFINE u == End(c, d, Class(c, d, j), i, j)
             v == End(c, d, Class(c, d, i), i, j)
  <2>2. \A k \in {i, j} : Class(c, d, k) = 2 => Len(chans) < MaxChannels
    BY DEF Room
  <2>3. u \in SL!Uchans /\ u[2] = i /\ u[3] = j
    <3> HIDE DEF u
    <3> QED BY <2>1, <2>2, EndsOf DEF u
  <2>4. v \in SL!Uchans
    <3> HIDE DEF v
    <3> QED BY <2>1, <2>2, EndsOf DEF v
  <2>5. NewLink(c, d, u, v)
    <3>1. u = End(c, d, Class(c, d, j), i, j) /\ v = End(c, d, Class(c, d, i), i, j)
      OBVIOUS
    <3> HIDE DEF u, v
    <3> QED BY <2>1, <2>3, <3>1 DEF NewLink
  <2> HIDE DEF u, v
  <2>6. l = <<u, v, t>>
    BY <2>1 DEF u, v
  <2> QED BY <2>3, <2>4, <2>5, <2>6
<1>2. ASSUME NEW u \in SL!Uchans, NEW v \in SL!Uchans, NewLink(c, d, u, v) PROVE <<u, v, t>> \in links'
  <2>1. u[2] \in SL!Role /\ u[3] \in SL!Role
    BY DEF SL!Uchans
  <2>2. <<u, v, t>> \in L
    BY <1>2, <2>1 DEF AllLinks, NewLink
  <2> QED BY <2>2
<1> QED BY <1>1, <1>2

LEMMA LinkElimKeeps ==
    ASSUME LinkInv, NEW c, NEW d, SL!LinkElim(c, d) PROVE LinkInv'
<1> DEFINE D == DOMAIN chans
           L == SL!auxlink(chans[c].group, chans[d].group, chans[c].chmat, chans[d].chmat, c)
<1>0. SL!TypeOK
  BY DEF LinkInv
<1>1. /\ SL!Linkable(c, d) /\ Of(c) \cap Of(d) = {} /\ links' = links \cup L
      /\ state' = [state EXCEPT ![c] = "linked", ![d] = "linked"]
      /\ session' = SL!Merged(c, d)
      /\ UNCHANGED <<lrfcnt, lqnext, chans, unrefs, received, plan>>
  BY DEF SL!LinkElim, Of
<1>2. Linked(c, d)
  BY <1>1 DEF SL!Linkable, Linked, SL!Open, Of
<1>3. c \in D /\ d \in D /\ Of(c) \cup Of(d) = SL!Role /\ session[c] # session[d]
  BY <1>2 DEF Linked
<1>4. \A i \in SL!Role : Class(c, d, i) = IF i \in Of(c) THEN 1 ELSE 0
  BY <1>1, <1>3 DEF Class
<1>5. Room(c, d) /\ \A u \in SL!Uchans : ~New(c, d, u)
  <2>1. \A u \in SL!Uchans : u[2] \in SL!Role /\ u[3] \in SL!Role
    BY DEF SL!Uchans
  <2> QED BY <1>4, <2>1 DEF Room, New
<1>6. AllLinks(c, d, c, L)
  <2>1. \A l : l \in L <=> \E i \in Of(c), j \in Of(d) :
                  \/ l = <<Mat(c, i, j), Mat(d, i, j), c>>
                  \/ l = <<Mat(d, j, i), Mat(c, j, i), c>>
    <3> SUFFICES ASSUME NEW l
                 PROVE  l \in L <=> \E i \in Of(c), j \in Of(d) :
                                      \/ l = <<Mat(c, i, j), Mat(d, i, j), c>>
                                      \/ l = <<Mat(d, j, i), Mat(c, j, i), c>>
      OBVIOUS
    <3>1. l \in L <=>
             \E i \in SL!elements(chans[c].group), j \in SL!elements(chans[d].group) :
                \/ l = <<Place(chans[c].chmat, i, j), Place(chans[d].chmat, i, j), c>>
                \/ l = <<Place(chans[d].chmat, j, i), Place(chans[c].chmat, j, i), c>>
      BY AuxlinkIn
    <3> HIDE DEF L
    <3> QED BY <3>1 DEF Of, Mat, Place
  <2>2. /\ \A i \in Of(c) : i \in SL!Role /\ Class(c, d, i) = 1
        /\ \A i \in Of(d) : i \in SL!Role /\ Class(c, d, i) = 0
        /\ \A i \in SL!Role : Class(c, d, i) = 0 => i \in Of(d)
        /\ \A i \in SL!Role : Class(c, d, i) = 1 => i \in Of(c)
        /\ \A i \in SL!Role : Class(c, d, i) # 2
    BY <1>1, <1>3, <1>4
  <2> HIDE DEF L
  <2>3. ASSUME NEW l \in L
        PROVE  \E i, j \in SL!Role :
                  /\ Class(c, d, i) # Class(c, d, j)
                  /\ l = <<End(c, d, Class(c, d, j), i, j), End(c, d, Class(c, d, i), i, j), c>>
    <3>1. PICK i \in Of(c), j \in Of(d) :
                  \/ l = <<Mat(c, i, j), Mat(d, i, j), c>>
                  \/ l = <<Mat(d, j, i), Mat(c, j, i), c>>
      BY <2>1
    <3>2. i \in SL!Role /\ j \in SL!Role /\ Class(c, d, i) = 1 /\ Class(c, d, j) = 0
      BY <2>2
    <3> QED BY <3>1, <3>2 DEF End
  <2>4. ASSUME NEW i \in SL!Role, NEW j \in SL!Role, Class(c, d, i) # Class(c, d, j)
        PROVE  <<End(c, d, Class(c, d, j), i, j), End(c, d, Class(c, d, i), i, j), c>> \in L
    <3>1. CASE Class(c, d, i) = 1 /\ Class(c, d, j) = 0
      BY <2>1, <2>2, <3>1 DEF End
    <3>2. CASE Class(c, d, i) = 0 /\ Class(c, d, j) = 1
      BY <2>1, <2>2, <3>2 DEF End
    <3> QED BY <2>2, <2>4, <3>1, <3>2, ClassIn
  <2> QED BY <2>3, <2>4 DEF AllLinks
<1> HIDE DEF L
<1>7. /\ \A l \in L : /\ l \in SL!Uchans \X SL!Uchans \X {c}
                    /\ NewLink(c, d, l[1], l[2]) /\ l[3] = c
      /\ \A u, v \in SL!Uchans : NewLink(c, d, u, v) => <<u, v, c>> \in links'
  BY <1>1, <1>2, <1>5, <1>6, AllLinksNew
<1>8. /\ state' \in [D -> {"open", "closed", "linked"}]
      /\ \A b \in D : state'[b] = IF b \in {c, d} THEN "linked" ELSE state[b]
  BY <1>0, <1>1, <1>3 DEF SL!TypeOK
<1>9. /\ session' \in [D -> D]
      /\ \A b \in D : session'[b] = IF session[b] = session[d] THEN session[c] ELSE session[b]
  BY <1>0, <1>1, <1>3 DEF SL!TypeOK, SL!Merged
<1>10. SL!TypeOK'
  <2>1. links' \subseteq SL!Uchans \X SL!Uchans \X D
    BY <1>0, <1>1, <1>3, <1>7 DEF SL!TypeOK
  <2> QED BY <1>0, <1>1, <1>8, <1>9, <2>1 DEF SL!TypeOK
<1>11. Joined(c, d, {}, c)
  <2>1. \A b \in D : Of(b)' = Of(b) /\ \A i, j : Mat(b, i, j)' = Mat(b, i, j)
    BY <1>1 DEF Of, Mat
  <2>2. \A l \in links' : l \in links \/ (NewLink(c, d, l[1], l[2]) /\ l[3] = c)
    BY <1>1, <1>7
  <2>3. ~\E i \in SL!Role : Class(c, d, i) = 2
    BY <1>4
  <2>4. links \subseteq links'
    BY <1>1
  <2>5. DOMAIN chans' = DOMAIN chans \cup {}
    BY <1>1
  <2>6. /\ \A u \in SL!Uchans : lrfcnt'[u] = IF New(c, d, u) THEN 2 ELSE lrfcnt[u]
        /\ lrfcnt'[SL!Null] = lrfcnt[SL!Null] /\ lqnext' = lqnext /\ unrefs' = unrefs
    BY <1>1, <1>5
  <2> QED BY <1>2, <1>5, <1>7, <1>8, <1>9, <2>1, <2>2, <2>3, <2>4, <2>5, <2>6 DEF Joined
<1> QED BY <1>10, <1>11, JoinedKeeps

\* A matrix that is made, and its counts.
\* The counts with two references to each new uchan.
TwoEach(f, e, G) ==
    \A u \in SL!Uchans :
        f[u] = IF u[1] = e /\ (u[2] \in SL!elements(G)) # (u[3] \in SL!elements(G)) THEN 2 ELSE lrfcnt[u]

\* The matrix with a uchan where the roles are on different sides.
MadeFor(mat, e, G) ==
    /\ mat \in [SL!Role \X SL!Role -> SL!Uchans \cup {SL!Null}]
    /\ \A i, j \in SL!Role :
          Place(mat, i, j) =
              IF (i \in SL!elements(G)) # (j \in SL!elements(G)) THEN <<e, i, j>> ELSE SL!Null

LEMMA PosnegOf ==
    ASSUME SL!TypeOK, NEW e \in 1..MaxChannels, NEW G \in SL!intset(nrole),
           NEW f, f = SL!posneg_rfcnt(e, G)
    PROVE  /\ MadeFor(SL!posneg_mat(e, G), e, G)
           /\ f \in [SL!Uchans \cup {SL!Null} -> 0..2]
           /\ f[SL!Null] = lrfcnt[SL!Null]
           /\ TwoEach(f, e, G)
<1>1. \A i, j \in SL!Role : <<i, j>> \in SL!Across(SL!elements(G)) <=> (i \in SL!elements(G)) # (j \in SL!elements(G))
  BY DEF SL!Across
<1>2. \A i, j \in SL!Role : <<e, i, j>> \in SL!Uchans
  BY DEF SL!Uchans
<1>3. SL!posneg_mat(e, G) \in [SL!Role \X SL!Role -> SL!Uchans \cup {SL!Null}]
  <2>1. \A ij \in SL!Role \X SL!Role : <<e, ij[1], ij[2]>> \in SL!Uchans
    BY <1>2
  <2> QED BY <2>1 DEF SL!posneg_mat
<1>4. ASSUME NEW i \in SL!Role, NEW j \in SL!Role
      PROVE  Place(SL!posneg_mat(e, G), i, j) =
                IF (i \in SL!elements(G)) # (j \in SL!elements(G)) THEN <<e, i, j>> ELSE SL!Null
  <2>1. <<i, j>> \in SL!Role \X SL!Role /\ <<i, j>>[1] = i /\ <<i, j>>[2] = j
    OBVIOUS
  <2>2. SL!posneg_mat(e, G)[<<i, j>>] =
           IF <<i, j>> \in SL!Across(SL!elements(G)) THEN <<e, i, j>> ELSE SL!Null
    BY <2>1 DEF SL!posneg_mat
  <2> QED BY <1>1, <2>2 DEF Place
<1>5. DOMAIN lrfcnt = SL!Uchans \cup {SL!Null} /\ \A u \in SL!Uchans \cup {SL!Null} : lrfcnt[u] \in 0..2
  BY DEF SL!TypeOK
<1>6. f \in [SL!Uchans \cup {SL!Null} -> 0..2]
  <2> DEFINE A == SL!Across(SL!elements(G))
             U == SL!Uchans \cup {SL!Null}
  <2>1. f =
           [u \in U |-> IF u[1] = e /\ <<u[2], u[3]>> \in A THEN 2 ELSE lrfcnt[u]]
    BY <1>5 DEF SL!posneg_rfcnt
  <2>2. \A u \in U : lrfcnt[u] \in 0..2
    BY <1>5
  <2> HIDE DEF A, U
  <2>3. f \in [U -> 0..2]
    BY <2>1, <2>2
  <2> QED BY <2>3 DEF U
<1>7. f[SL!Null] = lrfcnt[SL!Null]
  <2>1. SL!Null \in DOMAIN lrfcnt /\ SL!Null[1] # e
    BY <1>5 DEF SL!Null
  <2> QED BY <2>1 DEF SL!posneg_rfcnt
<1>8. ASSUME NEW u \in SL!Uchans
      PROVE  f[u] =
                IF u[1] = e /\ (u[2] \in SL!elements(G)) # (u[3] \in SL!elements(G)) THEN 2 ELSE lrfcnt[u]
  <2>1. u \in DOMAIN lrfcnt
    BY <1>5
  <2>2. u[2] \in SL!Role /\ u[3] \in SL!Role
    BY DEF SL!Uchans
  <2>3. f[u] =
           IF u[1] = e /\ <<u[2], u[3]>> \in SL!Across(SL!elements(G)) THEN 2 ELSE lrfcnt[u]
    BY <2>1 DEF SL!posneg_rfcnt
  <2> QED BY <1>1, <2>2, <2>3
<1> QED BY <1>3, <1>4, <1>6, <1>7, <1>8 DEF MadeFor, TwoEach

LEMMA LinkKeeps ==
    ASSUME LinkInv, NEW c, NEW d, SL!Link(c, d) PROVE LinkInv'
<1> SUFFICES ASSUME NEW e, e = Len(chans) + 1 PROVE LinkInv'
  OBVIOUS
<1> DEFINE D == DOMAIN chans
           G0_ == SL!intset_ncomplement(chans[c].group, nrole)
           G1_ == SL!intset_ncomplement(chans[d].group, nrole)
           G2_ == SL!intset_union[<<G0_, G1_>>]
           G2 == SL!intset_ncomplement(G2_, nrole)
           p0 == chans[c].chmat
           p1 == chans[d].chmat
           p2_ == SL!posneg_mat(e, G2_)
           L == SL!auxlink(G2, G0_, p0, p2_, e) \cup SL!auxlink(G2, G1_, p1, p2_, e)
                   \cup SL!auxlink(G0_, G1_, p1, p0, e)
           ch == [group |-> G2, chmat |-> p2_]
<1>0. SL!TypeOK
  BY DEF LinkInv
<1>1. /\ SL!Linkable(c, d) /\ Len(chans) < MaxChannels
      /\ lrfcnt' = SL!posneg_rfcnt(e, G2_)
      /\ chans' = Append(chans, ch)
      /\ links' = links \cup L
      /\ state' = Append([state EXCEPT ![c] = "linked", ![d] = "linked"], "open")
      /\ session' = Append(SL!Merged(c, d), session[c])
      /\ UNCHANGED <<lqnext, unrefs, received, plan>>
  BY DEF SL!Link
<1>2. Linked(c, d)
  BY <1>1 DEF SL!Linkable, Linked, SL!Open, Of
<1>3. /\ c \in D /\ d \in D /\ Of(c) \cup Of(d) = SL!Role /\ session[c] # session[d]
      /\ D = 1..Len(chans) /\ Len(chans) \in Nat /\ MaxChannels \in Nat
  BY <1>0, <1>2, SessionLinkAssumption DEF Linked, SL!TypeOK, SL!SessionLinkAssumption
<1>4. chans[c].group \in SL!intset(nrole) /\ chans[d].group \in SL!intset(nrole)
  BY <1>0, <1>3, ChannelOf DEF Channel
<1>5. /\ G2_ \in SL!intset(nrole) /\ G2 \in SL!intset(nrole)
      /\ SL!elements(G0_) = SL!Role \ Of(c) /\ SL!elements(G1_) = SL!Role \ Of(d)
      /\ SL!elements(G2_) = (SL!Role \ Of(c)) \cup (SL!Role \ Of(d))
      /\ SL!elements(G2) = SL!Role \ SL!elements(G2_)
  <2>1. G0_ \in SL!intset(nrole) /\ SL!elements(G0_) = SL!Role \ Of(c)
    BY <1>4, ComplementRoles DEF Of
  <2>2. G1_ \in SL!intset(nrole) /\ SL!elements(G1_) = SL!Role \ Of(d)
    BY <1>4, ComplementRoles DEF Of
  <2> HIDE DEF G0_, G1_
  <2>3. G2_ \in SL!intset(nrole) /\ SL!elements(G2_) = SL!elements(G0_) \cup SL!elements(G1_)
    BY <2>1, <2>2, UnionRoles
  <2> HIDE DEF G2_
  <2>4. G2 \in SL!intset(nrole) /\ SL!elements(G2) = SL!Role \ SL!elements(G2_)
    BY <2>3, ComplementRoles
  <2> QED BY <2>1, <2>2, <2>3, <2>4
<1> HIDE DEF G0_, G1_, G2_, G2
<1>6. \A i \in SL!Role :
         /\ i \in SL!elements(G0_) <=> Class(c, d, i) = 0
         /\ i \in SL!elements(G1_) <=> i \notin Of(d)
         /\ Class(c, d, i) = 1 <=> i \notin Of(d)
         /\ i \in SL!elements(G2) <=> Class(c, d, i) = 2
         /\ i \in SL!elements(G2_) <=> Class(c, d, i) # 2
  BY <1>3, <1>5 DEF Class
<1>7. e \in 1..MaxChannels /\ Room(c, d)
  BY <1>1, <1>3 DEF Room
<1>8. /\ p2_ \in [SL!Role \X SL!Role -> SL!Uchans \cup {SL!Null}]
      /\ \A i, j \in SL!Role :
            Place(p2_, i, j) = IF (i \in SL!elements(G2_)) # (j \in SL!elements(G2_)) THEN <<e, i, j>> ELSE SL!Null
      /\ lrfcnt' \in [SL!Uchans \cup {SL!Null} -> 0..2] /\ lrfcnt'[SL!Null] = lrfcnt[SL!Null]
      /\ \A u \in SL!Uchans :
            lrfcnt'[u] = IF u[1] = e /\ (u[2] \in SL!elements(G2_)) # (u[3] \in SL!elements(G2_))
                         THEN 2 ELSE lrfcnt[u]
  <2> HIDE DEF L, ch
  <2>1. /\ p2_ \in [SL!Role \X SL!Role -> SL!Uchans \cup {SL!Null}]
        /\ \A i, j \in SL!Role :
              Place(p2_, i, j) = IF (i \in SL!elements(G2_)) # (j \in SL!elements(G2_)) THEN <<e, i, j>> ELSE SL!Null
    <3>1. MadeFor(SL!posneg_mat(e, G2_), e, G2_)
      BY <1>0, <1>5, <1>7, PosnegOf
    <3> QED BY <3>1 DEF MadeFor
  <2>2. /\ lrfcnt' \in [SL!Uchans \cup {SL!Null} -> 0..2]
        /\ lrfcnt'[SL!Null] = lrfcnt[SL!Null]
        /\ \A u \in SL!Uchans :
              lrfcnt'[u] =
                 IF u[1] = e /\ (u[2] \in SL!elements(G2_)) # (u[3] \in SL!elements(G2_)) THEN 2 ELSE lrfcnt[u]
    <3>1. SL!TypeOK /\ e \in 1..MaxChannels /\ G2_ \in SL!intset(nrole) /\ lrfcnt' = SL!posneg_rfcnt(e, G2_)
      BY <1>0, <1>1, <1>5, <1>7
    <3>2. lrfcnt' \in [SL!Uchans \cup {SL!Null} -> 0..2] /\ lrfcnt'[SL!Null] = lrfcnt[SL!Null]
      BY <3>1, PosnegOf
    <3>3. ASSUME NEW u \in SL!Uchans
          PROVE  lrfcnt'[u] =
                    IF u[1] = e /\ (u[2] \in SL!elements(G2_)) # (u[3] \in SL!elements(G2_)) THEN 2 ELSE lrfcnt[u]
      <4>1. TwoEach(lrfcnt', e, G2_)
        BY <3>1, PosnegOf
      <4> QED BY <4>1 DEF TwoEach
    <3> QED BY <3>2, <3>3
  <2> HIDE DEF p2_
  <2> QED BY <2>1, <2>2
<1>9. AllLinks(c, d, e, L)
  <2>1. ASSUME NEW l
        PROVE  l \in L <=>
                  \/ \E i \in SL!elements(G2), j \in SL!elements(G0_) :
                        \/ l = <<Place(p0, i, j), Place(p2_, i, j), e>>
                        \/ l = <<Place(p2_, j, i), Place(p0, j, i), e>>
                  \/ \E i \in SL!elements(G2), j \in SL!elements(G1_) :
                        \/ l = <<Place(p1, i, j), Place(p2_, i, j), e>>
                        \/ l = <<Place(p2_, j, i), Place(p1, j, i), e>>
                  \/ \E i \in SL!elements(G0_), j \in SL!elements(G1_) :
                        \/ l = <<Place(p1, i, j), Place(p0, i, j), e>>
                        \/ l = <<Place(p0, j, i), Place(p1, j, i), e>>
    <3> HIDE DEF p0, p1, p2_
    <3>1. l \in SL!auxlink(G2, G0_, p0, p2_, e) <=>
             \E i \in SL!elements(G2), j \in SL!elements(G0_) :
                \/ l = <<Place(p0, i, j), Place(p2_, i, j), e>>
                \/ l = <<Place(p2_, j, i), Place(p0, j, i), e>>
      BY AuxlinkIn
    <3>2. l \in SL!auxlink(G2, G1_, p1, p2_, e) <=>
             \E i \in SL!elements(G2), j \in SL!elements(G1_) :
                \/ l = <<Place(p1, i, j), Place(p2_, i, j), e>>
                \/ l = <<Place(p2_, j, i), Place(p1, j, i), e>>
      BY AuxlinkIn
    <3>3. l \in SL!auxlink(G0_, G1_, p1, p0, e) <=>
             \E i \in SL!elements(G0_), j \in SL!elements(G1_) :
                \/ l = <<Place(p1, i, j), Place(p0, i, j), e>>
                \/ l = <<Place(p0, j, i), Place(p1, j, i), e>>
      BY AuxlinkIn
    <3> QED BY <3>1, <3>2, <3>3
  <2>2. \A i, j \in SL!Role : Place(p0, i, j) = End(c, d, 0, i, j) /\ Place(p1, i, j) = End(c, d, 1, i, j)
    BY DEF Place, End, Mat
  <2>3. \A i, j \in SL!Role : (Class(c, d, i) = 2) # (Class(c, d, j) = 2) =>
           Place(p2_, i, j) = End(c, d, 2, i, j)
    <3> HIDE DEF p2_
    <3>1. \A i, j \in SL!Role : End(c, d, 2, i, j) = <<e, i, j>>
      BY DEF End
    <3> QED BY <1>6, <1>8, <3>1
  <2>4. /\ \A i \in SL!elements(G0_) : i \in SL!Role /\ Class(c, d, i) = 0
        /\ \A i \in SL!elements(G1_) : i \in SL!Role /\ Class(c, d, i) = 1
        /\ \A i \in SL!elements(G2) : i \in SL!Role /\ Class(c, d, i) = 2
        /\ \A i \in SL!Role : Class(c, d, i) \in {0, 1, 2}
        /\ \A i \in SL!Role : Class(c, d, i) = 0 => i \in SL!elements(G0_)
        /\ \A i \in SL!Role : Class(c, d, i) = 1 => i \in SL!elements(G1_)
        /\ \A i \in SL!Role : Class(c, d, i) = 2 => i \in SL!elements(G2)
    BY <1>5, <1>6, ClassIn
  <2> HIDE DEF p0, p1, p2_, L
  <2>5. ASSUME NEW l \in L
        PROVE  \E i, j \in SL!Role :
                  /\ Class(c, d, i) # Class(c, d, j)
                  /\ l = <<End(c, d, Class(c, d, j), i, j), End(c, d, Class(c, d, i), i, j), e>>
    <3>1. CASE \E i \in SL!elements(G2), j \in SL!elements(G0_) :
                  \/ l = <<Place(p0, i, j), Place(p2_, i, j), e>>
                  \/ l = <<Place(p2_, j, i), Place(p0, j, i), e>>
      <4>1. PICK i \in SL!elements(G2), j \in SL!elements(G0_) :
                  \/ l = <<Place(p0, i, j), Place(p2_, i, j), e>>
                  \/ l = <<Place(p2_, j, i), Place(p0, j, i), e>>
        BY <3>1
      <4> QED BY <2>2, <2>3, <2>4, <4>1
    <3>2. CASE \E i \in SL!elements(G2), j \in SL!elements(G1_) :
                  \/ l = <<Place(p1, i, j), Place(p2_, i, j), e>>
                  \/ l = <<Place(p2_, j, i), Place(p1, j, i), e>>
      <4>1. PICK i \in SL!elements(G2), j \in SL!elements(G1_) :
                  \/ l = <<Place(p1, i, j), Place(p2_, i, j), e>>
                  \/ l = <<Place(p2_, j, i), Place(p1, j, i), e>>
        BY <3>2
      <4> QED BY <2>2, <2>3, <2>4, <4>1
    <3>3. CASE \E i \in SL!elements(G0_), j \in SL!elements(G1_) :
                  \/ l = <<Place(p1, i, j), Place(p0, i, j), e>>
                  \/ l = <<Place(p0, j, i), Place(p1, j, i), e>>
      <4>1. PICK i \in SL!elements(G0_), j \in SL!elements(G1_) :
                  \/ l = <<Place(p1, i, j), Place(p0, i, j), e>>
                  \/ l = <<Place(p0, j, i), Place(p1, j, i), e>>
        BY <3>3
      <4> QED BY <2>2, <2>4, <4>1
    <3> QED BY <2>1, <3>1, <3>2, <3>3
  <2>6. ASSUME NEW i \in SL!Role, NEW j \in SL!Role, Class(c, d, i) # Class(c, d, j)
        PROVE  <<End(c, d, Class(c, d, j), i, j), End(c, d, Class(c, d, i), i, j), e>> \in L
    <3> DEFINE l == <<End(c, d, Class(c, d, j), i, j), End(c, d, Class(c, d, i), i, j), e>>
    <3>1. CASE Class(c, d, i) = 2 /\ Class(c, d, j) = 0
      <4>1. l = <<Place(p0, i, j), Place(p2_, i, j), e>> /\ i \in SL!elements(G2) /\ j \in SL!elements(G0_)
        BY <2>2, <2>3, <2>4, <3>1
      <4> QED BY <2>1, <4>1
    <3>2. CASE Class(c, d, i) = 0 /\ Class(c, d, j) = 2
      <4>1. l = <<Place(p2_, i, j), Place(p0, i, j), e>> /\ j \in SL!elements(G2) /\ i \in SL!elements(G0_)
        BY <2>2, <2>3, <2>4, <3>2
      <4> QED BY <2>1, <4>1
    <3>3. CASE Class(c, d, i) = 2 /\ Class(c, d, j) = 1
      <4>1. l = <<Place(p1, i, j), Place(p2_, i, j), e>> /\ i \in SL!elements(G2) /\ j \in SL!elements(G1_)
        BY <2>2, <2>3, <2>4, <3>3
      <4> QED BY <2>1, <4>1
    <3>4. CASE Class(c, d, i) = 1 /\ Class(c, d, j) = 2
      <4>1. l = <<Place(p2_, i, j), Place(p1, i, j), e>> /\ j \in SL!elements(G2) /\ i \in SL!elements(G1_)
        BY <2>2, <2>3, <2>4, <3>4
      <4> QED BY <2>1, <4>1
    <3>5. CASE Class(c, d, i) = 0 /\ Class(c, d, j) = 1
      <4>1. l = <<Place(p1, i, j), Place(p0, i, j), e>> /\ i \in SL!elements(G0_) /\ j \in SL!elements(G1_)
        BY <2>2, <2>4, <3>5
      <4> QED BY <2>1, <4>1
    <3>6. CASE Class(c, d, i) = 1 /\ Class(c, d, j) = 0
      <4>1. l = <<Place(p0, i, j), Place(p1, i, j), e>> /\ j \in SL!elements(G0_) /\ i \in SL!elements(G1_)
        BY <2>2, <2>4, <3>6
      <4> QED BY <2>1, <4>1
    <3> QED BY <2>4, <2>6, <3>1, <3>2, <3>3, <3>4, <3>5, <3>6
  <2> QED BY <2>5, <2>6 DEF AllLinks
<1>10. /\ \A l \in L : /\ l \in SL!Uchans \X SL!Uchans \X {e}
                     /\ NewLink(c, d, l[1], l[2]) /\ l[3] = e
       /\ \A u, v \in SL!Uchans : NewLink(c, d, u, v) => <<u, v, e>> \in links'
  <2> HIDE DEF L
  <2> QED BY <1>1, <1>2, <1>7, <1>9, AllLinksNew
<1>11. /\ state' \in [1..e -> {"open", "closed", "linked"}]
       /\ state'[e] = "open"
       /\ \A b \in D : state'[b] = IF b \in {c, d} THEN "linked" ELSE state[b]
  <2> DEFINE st == [state EXCEPT ![c] = "linked", ![d] = "linked"]
  <2>1. /\ st \in [1..Len(chans) -> {"open", "closed", "linked"}]
        /\ \A b \in D : st[b] = IF b \in {c, d} THEN "linked" ELSE state[b]
    BY <1>0, <1>3 DEF SL!TypeOK
  <2> DEFINE S == {"open", "closed", "linked"}
             n == Len(chans)
  <2>3. st \in [1..n -> S] /\ n \in Nat /\ "open" \in S
    BY <1>3, <2>1
  <2> HIDE DEF st, S, n
  <2>4. state' = Append(st, "open")
    BY <1>1 DEF st
  <2>5. /\ state' \in [1..n + 1 -> S] /\ state'[n + 1] = "open"
        /\ \A b \in 1..n : state'[b] = st[b]
    <3>1. st \in Seq(S) /\ Len(st) = n
      BY <2>3, FunctionSeq
    <3>2. state' \in Seq(S) /\ Len(state') = n + 1
      BY <2>3, <2>4, <3>1, AppendProperties
    <3>3. state'[n + 1] = "open" /\ \A b \in 1..n : state'[b] = st[b]
      BY <2>3, <2>4, <3>1, AppendProperties
    <3>4. state' \in [1..n + 1 -> S]
      BY <3>2, LenProperties
    <3> QED BY <3>3, <3>4
  <2> QED BY <1>3, <2>1, <2>5 DEF S, n
<1>12. /\ session' \in [1..e -> 1..e]
       /\ session'[e] = session[c]
       /\ \A b \in D : session'[b] = IF session[b] = session[d] THEN session[c] ELSE session[b]
  <2> DEFINE se == SL!Merged(c, d)
  <2>1. /\ se \in [1..Len(chans) -> 1..e] /\ session[c] \in 1..e
        /\ \A b \in D : se[b] = IF session[b] = session[d] THEN session[c] ELSE session[b]
    BY <1>0, <1>3 DEF SL!TypeOK, SL!Merged
  <2> DEFINE S == 1..e
             n == Len(chans)
             x == session[c]
  <2>3. se \in [1..n -> S] /\ n \in Nat /\ x \in S
    BY <1>3, <2>1
  <2> HIDE DEF se, S, n, x
  <2>4. session' = Append(se, x)
    BY <1>1 DEF se, x
  <2>5. /\ session' \in [1..n + 1 -> S] /\ session'[n + 1] = x
        /\ \A b \in 1..n : session'[b] = se[b]
    <3>1. se \in Seq(S) /\ Len(se) = n
      BY <2>3, FunctionSeq
    <3>2. session' \in Seq(S) /\ Len(session') = n + 1
      BY <2>3, <2>4, <3>1, AppendProperties
    <3>3. session'[n + 1] = x /\ \A b \in 1..n : session'[b] = se[b]
      BY <2>3, <2>4, <3>1, AppendProperties
    <3>4. session' \in [1..n + 1 -> S]
      BY <3>2, LenProperties
    <3> QED BY <3>3, <3>4
  <2> QED BY <1>3, <2>1, <2>5 DEF S, n, x
<1>13. /\ chans' \in Seq(Channel) /\ Len(chans') = e /\ DOMAIN chans' = 1..e
       /\ chans'[e].group = G2 /\ chans'[e].chmat = p2_
       /\ \A b \in D : chans'[b] = chans[b]
  <2>1. ch \in Channel /\ chans \in Seq(Channel) /\ ch.group = G2 /\ ch.chmat = p2_
    BY <1>0, <1>5, <1>8 DEF Channel, SL!TypeOK
  <2> HIDE DEF ch, p2_
  <2> QED BY <1>1, <1>3, <2>1, AppendProperties
<1>14. DOMAIN chans' = D \cup {e} /\ e \notin D
  BY <1>3, <1>13
<1> HIDE DEF L, ch, p0, p1, p2_
<1>15. SL!TypeOK'
  <2>1. links' \subseteq SL!Uchans \X SL!Uchans \X (1..e)
    BY <1>0, <1>1, <1>3, <1>10 DEF SL!TypeOK
  <2>2. Len(chans') <= MaxChannels
    BY <1>7, <1>13
  <2>3. chans' \in Seq([group : SL!intset(nrole), chmat : [SL!Role \X SL!Role -> SL!Uchans \cup {SL!Null}]])
    BY <1>13 DEF Channel
  <2> QED BY <1>0, <1>1, <1>8, <1>11, <1>12, <1>13, <2>1, <2>2, <2>3 DEF SL!TypeOK
<1>16. Joined(c, d, {e}, e)
  <2>1. \A b \in D : Of(b)' = Of(b) /\ \A i, j : Mat(b, i, j)' = Mat(b, i, j)
    BY <1>13 DEF Of, Mat
  <2>2. \A l \in links' : l \in links \/ (NewLink(c, d, l[1], l[2]) /\ l[3] = e)
    BY <1>1, <1>10
  <2>4. links \subseteq links'
    BY <1>1
  <2>6. \A u \in SL!Uchans : lrfcnt'[u] = IF New(c, d, u) THEN 2 ELSE lrfcnt[u]
    <3>1. \A u \in SL!Uchans : u[2] \in SL!Role /\ u[3] \in SL!Role
      BY DEF SL!Uchans
    <3> QED BY <1>6, <1>8, <3>1 DEF New
  <2>7. Of(e)' = Of(c) \cap Of(d)
    <3>1. Of(e)' = SL!elements(G2)
      BY <1>13 DEF Of
    <3>2. Of(c) \subseteq SL!Role
      BY <1>0, <1>3, ChannelOf
    <3> QED BY <1>5, <3>1, <3>2
  <2>8. \A i, j \in SL!Role :
          Mat(e, i, j)' = IF (Class(c, d, i) = 2) # (Class(c, d, j) = 2) THEN <<e, i, j>> ELSE SL!Null
    <3> SUFFICES ASSUME NEW i \in SL!Role, NEW j \in SL!Role
                 PROVE  Mat(e, i, j)' = IF (Class(c, d, i) = 2) # (Class(c, d, j) = 2)
                                        THEN <<e, i, j>> ELSE SL!Null
      OBVIOUS
    <3>1. Mat(e, i, j)' = Place(p2_, i, j)
      BY <1>13 DEF Mat, Place
    <3> QED BY <1>6, <1>8, <3>1
  <2>9. \A n \in {e} :
          /\ Of(n)' = Of(c) \cap Of(d)
          /\ \A i, j \in SL!Role :
                Mat(n, i, j)' = IF (Class(c, d, i) = 2) # (Class(c, d, j) = 2)
                                THEN <<n, i, j>> ELSE SL!Null
          /\ state'[n] = "open" /\ session'[n] = session[c]
    <3> SUFFICES ASSUME NEW n, n = e
                 PROVE  /\ Of(n)' = Of(c) \cap Of(d)
                        /\ \A i, j \in SL!Role :
                              Mat(n, i, j)' = IF (Class(c, d, i) = 2) # (Class(c, d, j) = 2)
                                              THEN <<n, i, j>> ELSE SL!Null
                        /\ state'[n] = "open" /\ session'[n] = session[c]
      OBVIOUS
    <3> QED BY <1>11, <1>12, <2>7, <2>8
  <2>10. {e} \subseteq {Len(chans) + 1} /\ {e} # {}
    OBVIOUS
  <2>11. lrfcnt'[SL!Null] = lrfcnt[SL!Null] /\ UNCHANGED <<lqnext, unrefs>>
    BY <1>1, <1>8
  <2> QED BY <1>2, <1>7, <1>10, <1>11, <1>12, <1>14, <2>1, <2>2, <2>4, <2>6, <2>9, <2>10, <2>11
          DEF Joined
<1> QED BY <1>15, <1>16, JoinedKeeps

-----------------------------------------------------------------------------
(* A session is created.                                                   *)

LEMMA HalfBelow == ASSUME NEW k \in Nat, NEW n \in Nat, k < 2 * n PROVE (k \div 2) + 1 \in 1..n
OBVIOUS

LEMMA CreateKeeps == ASSUME LinkInv, SL!Create PROVE LinkInv'
<1> SUFFICES ASSUME NEW c, c = Len(chans) + 1, NEW e, e = Len(chans) + 2,
                    NEW G0, G0 = plan.groups[(Len(chans) \div 2) + 1], NEW D, D = DOMAIN chans
             PROVE  LinkInv'
  OBVIOUS
<1> DEFINE G == SL!elements(G0)
           mat == SL!posneg_mat(c, G0)
           ch0 == [group |-> G0, chmat |-> mat]
           ch1 == [group |-> SL!intset_ncomplement(G0, nrole), chmat |-> mat]
           Fresh(u) == u[1] = c /\ (u[2] \in G) # (u[3] \in G)
<1>0. /\ SL!TypeOK /\ Shares /\ Matrices /\ Straight /\ Made /\ OnePlace /\ LinkCounts /\ Routes
      /\ Acyclic(Edges)
  BY DEF LinkInv
<1>1. /\ Len(chans) < 2 * Len(plan.groups) /\ e <= MaxChannels
      /\ chans' = chans \o <<ch0, ch1>>
      /\ lrfcnt' = SL!posneg_rfcnt(c, G0)
      /\ state' = state \o <<"open", "open">>
      /\ session' = session \o <<c, c>>
      /\ UNCHANGED <<lqnext, links, unrefs, received, plan>>
  BY DEF SL!Create
<1>2. /\ D = 1..Len(chans) /\ Len(chans) \in Nat /\ MaxChannels \in Nat /\ e = c + 1
      /\ c \in 1..MaxChannels /\ c \notin D /\ e \notin D /\ c # e /\ 1..e = D \cup {c, e}
  <2>1. chans \in Seq(Channel) /\ MaxChannels \in Nat
    BY <1>0, SessionLinkAssumption DEF SL!TypeOK, Channel, SL!SessionLinkAssumption
  <2>2. Len(chans) \in Nat /\ D = 1..Len(chans)
    BY <2>1, LenProperties
  <2>3. e = c + 1 /\ c \in 1..MaxChannels /\ c # e
    BY <1>1, <2>1, <2>2
  <2>4. c \notin D /\ e \notin D
    BY <2>2
  <2>5. 1..e = 1..Len(chans) \cup {c, e}
    BY <2>2
  <2> QED BY <2>1, <2>2, <2>3, <2>4, <2>5
<1>3. G0 \in SL!intset(nrole)
  <2>1. plan.groups \in Seq(SL!intset(nrole))
    BY <1>0, SessionLinkAssumption DEF SL!TypeOK, SL!SessionLinkAssumption
  <2>2. (Len(chans) \div 2) + 1 \in 1..Len(plan.groups)
    <3>1. Len(plan.groups) \in Nat
      BY <2>1, LenProperties
    <3>2. Len(chans) < 2 * Len(plan.groups)
      BY <1>1
    <3> QED BY <1>2, <3>1, <3>2, HalfBelow
  <2> QED BY <2>1, <2>2, ElementOfSeq
<1>4. /\ SL!intset_ncomplement(G0, nrole) \in SL!intset(nrole)
      /\ SL!elements(SL!intset_ncomplement(G0, nrole)) = SL!Role \ G
  BY <1>3, ComplementRoles
<1>5. /\ mat \in [SL!Role \X SL!Role -> SL!Uchans \cup {SL!Null}]
      /\ \A i, j \in SL!Role :
            Place(mat, i, j) = IF (i \in G) # (j \in G) THEN <<c, i, j>> ELSE SL!Null
  <2>1. MadeFor(SL!posneg_mat(c, G0), c, G0)
    BY <1>0, <1>2, <1>3, PosnegOf
  <2> QED BY <2>1 DEF MadeFor
<1>6. /\ lrfcnt' \in [SL!Uchans \cup {SL!Null} -> 0..2] /\ lrfcnt'[SL!Null] = lrfcnt[SL!Null]
      /\ \A u \in SL!Uchans : lrfcnt'[u] = IF Fresh(u) THEN 2 ELSE lrfcnt[u]
  <2>1. SL!TypeOK /\ c \in 1..MaxChannels /\ G0 \in SL!intset(nrole) /\ lrfcnt' = SL!posneg_rfcnt(c, G0)
    BY <1>0, <1>1, <1>2, <1>3
  <2>2. lrfcnt' \in [SL!Uchans \cup {SL!Null} -> 0..2] /\ lrfcnt'[SL!Null] = lrfcnt[SL!Null]
    BY <2>1, PosnegOf
  <2>3. ASSUME NEW u \in SL!Uchans
        PROVE  lrfcnt'[u] = IF u[1] = c /\ (u[2] \in G) # (u[3] \in G) THEN 2 ELSE lrfcnt[u]
    <3>1. TwoEach(lrfcnt', c, G0)
      BY <2>1, PosnegOf
    <3> QED BY <3>1 DEF TwoEach
  <2> QED BY <2>2, <2>3
<1>7. /\ chans' \in Seq(Channel) /\ Len(chans') = e /\ DOMAIN chans' = D \cup {c, e}
      /\ \A b \in D : chans'[b] = chans[b]
      /\ chans'[c] = ch0 /\ chans'[e] = ch1
  <2>1. chans \in Seq(Channel) /\ ch0 \in Channel /\ ch1 \in Channel
    BY <1>0, <1>3, <1>4, <1>5 DEF SL!TypeOK, Channel
  <2> HIDE DEF ch0, ch1
  <2>2. <<ch0, ch1>> \in Seq(Channel) /\ Len(<<ch0, ch1>>) = 2
    BY <2>1
  <2>3. /\ chans' \in Seq(Channel) /\ Len(chans') = Len(chans) + 2
        /\ \A i \in 1..Len(chans) + 2 :
              chans'[i] = IF i <= Len(chans) THEN chans[i] ELSE <<ch0, ch1>>[i - Len(chans)]
    BY <1>1, <2>1, <2>2, ConcatProperties
  <2>4. DOMAIN chans' = 1..Len(chans')
    BY <2>3, LenProperties
  <2> QED BY <1>2, <2>3, <2>4
<1>8. /\ state' \in [D \cup {c, e} -> {"open", "closed", "linked"}]
      /\ \A b \in D : state'[b] = state[b]
      /\ state'[c] = "open" /\ state'[e] = "open"
  <2> DEFINE S == {"open", "closed", "linked"}
  <2>1. state \in [1..Len(chans) -> S] /\ "open" \in S
    BY <1>0, <1>2 DEF SL!TypeOK
  <2> HIDE DEF S
  <2>2. state \in Seq(S) /\ Len(state) = Len(chans)
    BY <1>2, <2>1, FunctionSeq
  <2>3. <<"open", "open">> \in Seq(S) /\ Len(<<"open", "open">>) = 2
    BY <2>1
  <2>4. /\ state' \in Seq(S) /\ Len(state') = Len(chans) + 2
        /\ \A i \in 1..Len(chans) + 2 :
              state'[i] = IF i <= Len(chans) THEN state[i] ELSE <<"open", "open">>[i - Len(chans)]
    BY <1>1, <2>2, <2>3, ConcatProperties
  <2>5. state' \in [1..Len(state') -> S]
    BY <2>4, LenProperties
  <2> QED BY <1>2, <2>4, <2>5 DEF S
<1>9. /\ session' \in [D \cup {c, e} -> D \cup {c, e}]
      /\ \A b \in D : session'[b] = session[b] /\ session[b] \in D
      /\ session'[c] = c /\ session'[e] = c
  <2> DEFINE S == D \cup {c, e}
  <2>1. session \in [1..Len(chans) -> S] /\ c \in S /\ \A b \in D : session[b] \in D
    BY <1>0, <1>2 DEF SL!TypeOK
  <2> HIDE DEF S
  <2>2. session \in Seq(S) /\ Len(session) = Len(chans)
    BY <1>2, <2>1, FunctionSeq
  <2>3. <<c, c>> \in Seq(S) /\ Len(<<c, c>>) = 2
    BY <2>1
  <2>4. /\ session' \in Seq(S) /\ Len(session') = Len(chans) + 2
        /\ \A i \in 1..Len(chans) + 2 :
              session'[i] = IF i <= Len(chans) THEN session[i] ELSE <<c, c>>[i - Len(chans)]
    BY <1>1, <2>2, <2>3, ConcatProperties
  <2>5. session' \in [1..Len(session') -> S]
    BY <2>4, LenProperties
  <2> QED BY <1>2, <2>1, <2>4, <2>5 DEF S
<1>10. SL!TypeOK'
  <2>1. chans' \in Seq([group : SL!intset(nrole), chmat : [SL!Role \X SL!Role -> SL!Uchans \cup {SL!Null}]])
    BY <1>7 DEF Channel
  <2>2. links' \subseteq SL!Uchans \X SL!Uchans \X (D \cup {c, e})
    BY <1>0, <1>1 DEF SL!TypeOK
  <2>3. Len(chans') <= MaxChannels
    BY <1>1, <1>7
  <2>4. /\ lrfcnt' \in [SL!Uchans \cup {SL!Null} -> 0..2]
        /\ lqnext' \in [SL!Uchans \cup {SL!Null} -> SL!Uchans \cup {SL!Null}]
        /\ unrefs' \subseteq SL!Uchans /\ received' \in Nat /\ plan' \in Plans
    BY <1>0, <1>1, <1>6 DEF SL!TypeOK
  <2>5. /\ state' \in [DOMAIN chans' -> {"open", "closed", "linked"}]
        /\ session' \in [DOMAIN chans' -> DOMAIN chans']
        /\ links' \subseteq SL!Uchans \X SL!Uchans \X DOMAIN chans'
    BY <1>7, <1>8, <1>9, <2>2
  <2> HIDE DEF mat, ch0, ch1, G
  <2> QED BY <2>1, <2>3, <2>4, <2>5 DEF SL!TypeOK
<1>11. /\ \A b \in D : Of(b)' = Of(b) /\ \A i, j : Mat(b, i, j)' = Mat(b, i, j)
       /\ Of(c)' = G /\ Of(e)' = SL!Role \ G
       /\ \A i, j \in SL!Role :
             /\ Mat(c, i, j)' = IF (i \in G) # (j \in G) THEN <<c, i, j>> ELSE SL!Null
             /\ Mat(e, i, j)' = IF (i \in G) # (j \in G) THEN <<c, i, j>> ELSE SL!Null
  <2>1. \A b \in D : Of(b)' = Of(b) /\ \A i, j : Mat(b, i, j)' = Mat(b, i, j)
    BY <1>7 DEF Of, Mat
  <2>2. Of(c)' = G /\ Of(e)' = SL!Role \ G
    BY <1>4, <1>7 DEF Of
  <2>3. ASSUME NEW i \in SL!Role, NEW j \in SL!Role
        PROVE  /\ Mat(c, i, j)' = IF (i \in G) # (j \in G) THEN <<c, i, j>> ELSE SL!Null
               /\ Mat(e, i, j)' = IF (i \in G) # (j \in G) THEN <<c, i, j>> ELSE SL!Null
    <3> HIDE DEF mat, G
    <3>1. Mat(c, i, j)' = Place(mat, i, j) /\ Mat(e, i, j)' = Place(mat, i, j)
      BY <1>7 DEF Mat, Place
    <3> QED BY <1>5, <3>1
  <2> HIDE DEF mat, G
  <2> QED BY <2>1, <2>2, <2>3
<1> HIDE DEF G, mat, ch0, ch1
<1>12. \A b \in D : (Held(b)' <=> Held(b)) /\ (state'[b] = state[b])
  BY <1>8 DEF Held
<1>13. Held(c)' /\ Held(e)'
  BY <1>8 DEF Held
<1>14. G \subseteq SL!Role /\ \A u \in SL!Uchans : u[2] \in SL!Role /\ u[3] \in SL!Role /\ u = <<u[1], u[2], u[3]>> /\ u # SL!Null
  <2>1. G \subseteq SL!Role
    BY <1>3 DEF G, SL!elements, SL!intset, SL!Role
  <2> QED BY <2>1, NullApart DEF SL!Uchans
<1>15. ASSUME NEW u \in SL!Uchans
       PROVE  /\ Writes(c, u)' <=> Fresh(u) /\ u[2] \in G
              /\ Reads(c, u)' <=> Fresh(u) /\ u[3] \in G
              /\ Writes(e, u)' <=> Fresh(u) /\ u[2] \notin G
              /\ Reads(e, u)' <=> Fresh(u) /\ u[3] \notin G
              /\ \A b \in D : (Writes(b, u)' <=> Writes(b, u)) /\ (Reads(b, u)' <=> Reads(b, u))
  <2>1. (Mat(c, u[2], u[3])' = u <=> Fresh(u)) /\ (Mat(e, u[2], u[3])' = u <=> Fresh(u))
    <3>1. /\ u[2] \in SL!Role /\ u[3] \in SL!Role /\ u # SL!Null
          /\ <<c, u[2], u[3]>> = u <=> u[1] = c
      BY <1>14
    <3>2. /\ Mat(c, u[2], u[3])' = IF (u[2] \in G) # (u[3] \in G) THEN <<c, u[2], u[3]>> ELSE SL!Null
          /\ Mat(e, u[2], u[3])' = IF (u[2] \in G) # (u[3] \in G) THEN <<c, u[2], u[3]>> ELSE SL!Null
      BY <1>11, <3>1
    <3> QED BY <3>1, <3>2
  <2>2. /\ Writes(c, u)' <=> Fresh(u) /\ u[2] \in G
        /\ Reads(c, u)' <=> Fresh(u) /\ u[3] \in G
        /\ Writes(e, u)' <=> Fresh(u) /\ u[2] \notin G
        /\ Reads(e, u)' <=> Fresh(u) /\ u[3] \notin G
    BY <1>11, <1>13, <1>14, <2>1 DEF Writes, Reads
  <2>3. \A b \in D : (Writes(b, u)' <=> Writes(b, u)) /\ (Reads(b, u)' <=> Reads(b, u))
    BY <1>11, <1>12 DEF Writes, Reads
  <2> QED BY <2>2, <2>3
<1>16. \A u, v : (SL!Onward(u, v)' <=> SL!Onward(u, v)) /\ (Links(u)' <=> Links(u))
  BY <1>1 DEF SL!Onward, Links
<1>17. \A u \in SL!Uchans : Fresh(u) =>
         /\ \A v \in SL!Uchans : ~SL!Onward(u, v) /\ ~SL!Onward(v, u)
         /\ \A b \in D : ~Writes(b, u) /\ ~Reads(b, u)
         /\ ~Links(u) /\ u \notin unrefs /\ ~HasWriter(u) /\ ~HasReader(u)
         /\ lrfcnt[u] = 0 /\ lqnext[u] = SL!Null
  BY <1>2, Unheard
<1>18. ASSUME NEW u \in SL!Uchans
       PROVE  /\ HasWriter(u)' <=> HasWriter(u) \/ Fresh(u)
              /\ HasReader(u)' <=> HasReader(u) \/ Fresh(u)
  <2>1. HasWriter(u)' <=> Links(u) \/ \E b \in D \cup {c, e} : Writes(b, u)'
    BY <1>7, <1>16 DEF HasWriter
  <2>2. HasReader(u)' <=> \/ u \in unrefs \/ (\E b \in D \cup {c, e} : Reads(b, u)')
                        \/ \E v \in SL!Uchans : SL!Onward(v, u)
    BY <1>1, <1>7, <1>16 DEF HasReader
  <2>3. (\E b \in D \cup {c, e} : Writes(b, u)') <=> (\E b \in D : Writes(b, u)) \/ Fresh(u)
    BY <1>15
  <2>4. (\E b \in D \cup {c, e} : Reads(b, u)') <=> (\E b \in D : Reads(b, u)) \/ Fresh(u)
    BY <1>15
  <2>5. /\ HasWriter(u) <=> Links(u) \/ \E b \in D : Writes(b, u)
        /\ HasReader(u) <=> \/ u \in unrefs \/ (\E b \in D : Reads(b, u))
                           \/ \E v \in SL!Uchans : SL!Onward(v, u)
    BY DEF HasWriter, HasReader
  <2> QED BY <2>1, <2>2, <2>3, <2>4, <2>5
<1>19. Shares'
  <2>1. ASSUME NEW b \in D \cup {c, e}, NEW i \in SL!Role
        PROVE  \E d \in D \cup {c, e} : Held(d)' /\ session'[d] = session'[b] /\ i \in Of(d)'
    <3>1. CASE b \in D
      <4>1. PICK d \in D : Held(d) /\ session[d] = session[b] /\ i \in Of(d)
        BY <1>0, <3>1 DEF Shares
      <4> QED BY <1>9, <1>11, <1>12, <3>1, <4>1
    <3>2. CASE b \in {c, e}
      BY <1>9, <1>11, <1>13, <3>2
    <3> QED BY <3>1, <3>2
  <2>2. ASSUME NEW b \in D \cup {c, e}, NEW d \in D \cup {c, e}, Held(b)', Held(d)',
               session'[b] = session'[d], b # d
        PROVE  Of(b)' \cap Of(d)' = {}
    <3>1. CASE b \in D /\ d \in D
      BY <1>0, <1>9, <1>11, <1>12, <2>2, <3>1 DEF Shares
    <3>2. CASE ~(b \in D /\ d \in D)
      <4>1. b \in {c, e} /\ d \in {c, e}
        BY <1>2, <1>9, <2>2, <3>2
      <4> QED BY <1>11, <2>2, <4>1
    <3> QED BY <3>1, <3>2
  <2> QED BY <1>7, <2>1, <2>2 DEF Shares
<1>20. Matrices'
  <2> SUFFICES ASSUME NEW d \in D \cup {c, e}, NEW k \in SL!Role, NEW l \in SL!Role, Held(d)'
               PROVE  /\ Mat(d, k, l)' # SL!Null =>
                            /\ Mat(d, k, l)'[2] = k /\ Mat(d, k, l)'[3] = l
                            /\ Mat(d, k, l)'[1] \in D \cup {c, e}
                            /\ session'[Mat(d, k, l)'[1]] = session'[d]
                            /\ (k \in Of(d)') # (l \in Of(d)')
                      /\ state'[d] = "open" /\ (k \in Of(d)') # (l \in Of(d)') =>
                            Mat(d, k, l)' # SL!Null
    BY <1>7 DEF Matrices
  <2>1. CASE d \in D
    <3>1. Mat(d, k, l)' = Mat(d, k, l) /\ Of(d)' = Of(d) /\ Held(d) /\ state'[d] = state[d]
      BY <1>11, <1>12, <2>1
    <3>2. /\ Mat(d, k, l) # SL!Null =>
                 /\ Mat(d, k, l)[2] = k /\ Mat(d, k, l)[3] = l
                 /\ Mat(d, k, l)[1] \in D
                 /\ session[Mat(d, k, l)[1]] = session[d]
                 /\ (k \in Of(d)) # (l \in Of(d))
          /\ state[d] = "open" /\ (k \in Of(d)) # (l \in Of(d)) => Mat(d, k, l) # SL!Null
      BY <1>0, <2>1, <3>1 DEF Matrices
    <3> QED BY <1>9, <2>1, <3>1, <3>2
  <2>2. CASE d \in {c, e}
    <3>1. /\ Mat(d, k, l)' = IF (k \in G) # (l \in G) THEN <<c, k, l>> ELSE SL!Null
          /\ (k \in Of(d)') # (l \in Of(d)') <=> (k \in G) # (l \in G)
      <4>1. CASE d = c
        <5>1. Of(d)' = G /\ Mat(d, k, l)' = IF (k \in G) # (l \in G) THEN <<c, k, l>> ELSE SL!Null
          BY <1>11, <4>1
        <5> QED BY <5>1
      <4>2. CASE d = e
        <5>1. /\ Of(d)' = SL!Role \ G
              /\ Mat(d, k, l)' = IF (k \in G) # (l \in G) THEN <<c, k, l>> ELSE SL!Null
          BY <1>11, <4>2
        <5>2. (k \in Of(d)' <=> k \notin G) /\ (l \in Of(d)' <=> l \notin G)
          BY <5>1
        <5> QED BY <5>1, <5>2
      <4> QED BY <2>2, <4>1, <4>2
    <3>2. <<c, k, l>> # SL!Null /\ session'[d] = c /\ session'[c] = c
      <4>1. c # 0
        BY <1>2
      <4> QED BY <1>9, <2>2, <4>1 DEF SL!Null
    <3> QED BY <3>1, <3>2
  <2> QED BY <2>1, <2>2
<1>21. Straight' /\ Made'
  <2>1. \A u, v \in SL!Uchans : SL!Onward(u, v)' =>
           /\ u[2] = v[2] /\ u[3] = v[3]
           /\ u[1] \in D \cup {c, e} /\ v[1] \in D \cup {c, e}
           /\ session'[u[1]] = session'[v[1]]
           /\ u # v
    <3> SUFFICES ASSUME NEW u \in SL!Uchans, NEW v \in SL!Uchans, SL!Onward(u, v)
                 PROVE  /\ u[2] = v[2] /\ u[3] = v[3]
                        /\ u[1] \in D \cup {c, e} /\ v[1] \in D \cup {c, e}
                        /\ session'[u[1]] = session'[v[1]]
                        /\ u # v
      BY <1>16
    <3>1. /\ u[2] = v[2] /\ u[3] = v[3] /\ u[1] \in D /\ v[1] \in D
          /\ session[u[1]] = session[v[1]] /\ u # v
      BY <1>0 DEF Straight
    <3> QED BY <1>9, <3>1
  <2>2. \A u \in unrefs' : u[1] \in D \cup {c, e}
    BY <1>0, <1>1 DEF Made
  <2> QED BY <1>7, <2>1, <2>2 DEF Straight, Made
<1>22. OnePlace'
  <2> SUFFICES ASSUME NEW v \in SL!Uchans
      PROVE  /\ \A b, d \in D \cup {c, e} : Writes(b, v)' /\ Writes(d, v)' => b = d
             /\ \A b \in D \cup {c, e} : ~(Writes(b, v)' /\ Links(v)')
             /\ \A l, m \in links' : l[1] = v /\ m[1] = v => l = m
             /\ \A b, d \in D \cup {c, e} : Reads(b, v)' /\ Reads(d, v)' => b = d
             /\ \A b \in D \cup {c, e} : Reads(b, v)' => v \notin unrefs'
             /\ \A y \in SL!Uchans : SL!Onward(y, v)' =>
                   /\ v \notin unrefs'
                   /\ \A b \in D \cup {c, e} : ~Reads(b, v)'
                   /\ \A z \in SL!Uchans : SL!Onward(z, v)' => y = z
             /\ lqnext'[v] # SL!Null => ~Links(v)' /\ \A b \in D \cup {c, e} : ~Writes(b, v)'
    BY <1>7 DEF OnePlace
  <2>1. /\ \A b, d \in D : Writes(b, v) /\ Writes(d, v) => b = d
        /\ \A b \in D : ~(Writes(b, v) /\ Links(v))
        /\ \A l, m \in links : l[1] = v /\ m[1] = v => l = m
        /\ \A b, d \in D : Reads(b, v) /\ Reads(d, v) => b = d
        /\ \A b \in D : Reads(b, v) => v \notin unrefs
        /\ \A y \in SL!Uchans : SL!Onward(y, v) =>
              /\ v \notin unrefs
              /\ \A b \in D : ~Reads(b, v)
              /\ \A z \in SL!Uchans : SL!Onward(z, v) => y = z
        /\ lqnext[v] # SL!Null => ~Links(v) /\ \A b \in D : ~Writes(b, v)
    BY <1>0 DEF OnePlace
  <2>2. /\ \A b \in D \cup {c, e} : Writes(b, v)' <=>
              \/ b \in D /\ Writes(b, v)
              \/ Fresh(v) /\ (IF v[2] \in G THEN b = c ELSE b = e)
        /\ \A b \in D \cup {c, e} : Reads(b, v)' <=>
              \/ b \in D /\ Reads(b, v)
              \/ Fresh(v) /\ (IF v[3] \in G THEN b = c ELSE b = e)
    BY <1>2, <1>15
  <2>3. Fresh(v) => /\ \A y \in SL!Uchans : ~SL!Onward(y, v)
                    /\ \A b \in D : ~Writes(b, v) /\ ~Reads(b, v)
                    /\ ~Links(v) /\ v \notin unrefs /\ lqnext[v] = SL!Null
    BY <1>17
  <2> HIDE DEF Fresh
  <2>4. /\ \A b, d \in D \cup {c, e} : Writes(b, v)' /\ Writes(d, v)' => b = d
        /\ \A b \in D \cup {c, e} : ~(Writes(b, v)' /\ Links(v)')
        /\ \A l, m \in links' : l[1] = v /\ m[1] = v => l = m
    <3>1. ASSUME NEW b \in D \cup {c, e}, NEW d \in D \cup {c, e}, Writes(b, v)', Writes(d, v)'
          PROVE  b = d
      <4>1. CASE Fresh(v)
        BY <2>2, <2>3, <3>1, <4>1
      <4>2. CASE ~Fresh(v)
        BY <2>1, <2>2, <3>1, <4>2
      <4> QED BY <4>1, <4>2
    <3>2. Links(v)' <=> Links(v)
      BY <1>16
    <3>3. ASSUME NEW b \in D \cup {c, e}, Writes(b, v)' PROVE ~Links(v)
      <4>1. CASE Fresh(v)
        BY <2>3, <4>1
      <4>2. CASE ~Fresh(v)
        BY <2>1, <2>2, <3>3, <4>2
      <4> QED BY <4>1, <4>2
    <3>4. \A l, m \in links' : l[1] = v /\ m[1] = v => l = m
      BY <1>1, <2>1
    <3> QED BY <3>1, <3>2, <3>3, <3>4
  <2>5. /\ \A b, d \in D \cup {c, e} : Reads(b, v)' /\ Reads(d, v)' => b = d
        /\ \A b \in D \cup {c, e} : Reads(b, v)' => v \notin unrefs'
    <3>1. ASSUME NEW b \in D \cup {c, e}, NEW d \in D \cup {c, e}, Reads(b, v)', Reads(d, v)'
          PROVE  b = d
      <4>1. CASE Fresh(v)
        BY <2>2, <2>3, <3>1, <4>1
      <4>2. CASE ~Fresh(v)
        BY <2>1, <2>2, <3>1, <4>2
      <4> QED BY <4>1, <4>2
    <3>2. unrefs' = unrefs
      BY <1>1
    <3>3. ASSUME NEW b \in D \cup {c, e}, Reads(b, v)' PROVE v \notin unrefs
      <4>1. CASE Fresh(v)
        BY <2>3, <4>1
      <4>2. CASE ~Fresh(v)
        BY <2>1, <2>2, <3>3, <4>2
      <4> QED BY <4>1, <4>2
    <3> QED BY <3>1, <3>2, <3>3
  <2>6. \A y \in SL!Uchans : SL!Onward(y, v)' =>
           /\ v \notin unrefs'
           /\ \A b \in D \cup {c, e} : ~Reads(b, v)'
           /\ \A z \in SL!Uchans : SL!Onward(z, v)' => y = z
    <3>1. \A y \in SL!Uchans : SL!Onward(y, v)' <=> SL!Onward(y, v)
      BY <1>16
    <3> SUFFICES ASSUME NEW y \in SL!Uchans, SL!Onward(y, v)
                 PROVE  /\ v \notin unrefs'
                        /\ \A b \in D \cup {c, e} : ~Reads(b, v)'
                        /\ \A z \in SL!Uchans : SL!Onward(z, v) => y = z
      BY <3>1
    <3>2. ~Fresh(v)
      BY <2>3
    <3>3. v \notin unrefs' /\ \A z \in SL!Uchans : SL!Onward(z, v) => y = z
      BY <1>1, <2>1
    <3>4. \A b \in D \cup {c, e} : ~Reads(b, v)'
      BY <2>1, <2>2, <3>2
    <3> QED BY <3>3, <3>4
  <2>7. lqnext'[v] # SL!Null => ~Links(v)' /\ \A b \in D \cup {c, e} : ~Writes(b, v)'
    BY <1>1, <1>16, <2>1, <2>2, <2>3
  <2> QED BY <2>4, <2>5, <2>6, <2>7
<1>23. LinkCounts'
  <2>1. ASSUME NEW v \in SL!Uchans PROVE lrfcnt'[v] = Holders(v)' /\ (lrfcnt'[v] = 0 => lqnext'[v] = SL!Null)
    <3>1. lrfcnt[v] = Holders(v) /\ (lrfcnt[v] = 0 => lqnext[v] = SL!Null)
      BY <1>0 DEF LinkCounts
    <3>2. lrfcnt'[v] = IF Fresh(v) THEN 2 ELSE lrfcnt[v]
      BY <1>6
    <3>3. Fresh(v) => lrfcnt[v] = 0 /\ ~HasWriter(v) /\ ~HasReader(v)
      BY <1>17
    <3> HIDE DEF Fresh
    <3>4. CASE Fresh(v)
      BY <1>1, <1>18, <3>2, <3>4 DEF Holders
    <3>5. CASE ~Fresh(v)
      BY <1>1, <1>18, <3>1, <3>2, <3>5 DEF Holders
    <3> QED BY <3>4, <3>5
  <2>2. lrfcnt'[SL!Null] = 0 /\ lqnext'[SL!Null] = SL!Null
    BY <1>0, <1>1, <1>6 DEF LinkCounts
  <2> QED BY <2>1, <2>2 DEF LinkCounts
<1>24. Edges' = Edges
  BY <1>16 DEF Edges
<1>25. Acyclic(Edges)'
  BY <1>0, <1>24 DEF Acyclic
<1>26. Routes'
  <2> SUFFICES ASSUME NEW a \in D \cup {c, e}, NEW b \in D \cup {c, e}, state'[a] = "open", state'[b] = "open",
                      session'[a] = session'[b], a # b, NEW k \in Of(a)', NEW l \in Of(b)'
               PROVE  Reaches(Edges', Mat(b, k, l)', Mat(a, k, l)')
    BY <1>7 DEF Routes, Reaches
  <2>1. CASE a \in D /\ b \in D
    <3>1. Reaches(Edges, Mat(b, k, l), Mat(a, k, l))
      BY <1>0, <1>9, <1>11, <1>12, <2>1 DEF Routes
    <3> QED BY <1>11, <1>24, <2>1, <3>1
  <2>2. CASE ~(a \in D /\ b \in D)
    <3>1. a \in {c, e} /\ b \in {c, e}
      BY <1>2, <1>9, <2>2
    <3>2. (k \in G) # (l \in G) /\ k \in SL!Role /\ l \in SL!Role
      BY <1>11, <1>14, <3>1
    <3>3. ASSUME NEW d \in {c, e} PROVE Mat(d, k, l)' = <<c, k, l>>
      <4>1. CASE d = c
        BY <1>11, <3>2, <4>1
      <4>2. CASE d = e
        BY <1>11, <3>2, <4>2
      <4> QED BY <4>1, <4>2
    <3>4. Mat(b, k, l)' = <<c, k, l>> /\ Mat(a, k, l)' = <<c, k, l>>
      BY <3>1, <3>3
    <3> QED BY <3>4, ReachesSelf
  <2> QED BY <2>1, <2>2
<1> QED BY <1>10, <1>19, <1>20, <1>21, <1>22, <1>23, <1>25, <1>26 DEF LinkInv

-----------------------------------------------------------------------------
(* The invariant holds.                                                    *)

LEMMA LinkInit == ASSUME SL!Init PROVE LinkInv
<1> DEFINE U == SL!Uchans \cup {SL!Null}
<1>1. /\ lrfcnt = [u \in U |-> 0] /\ lqnext = [u \in U |-> SL!Null]
      /\ chans = <<>> /\ state = <<>> /\ session = <<>>
      /\ links = {} /\ unrefs = {} /\ received = 0 /\ plan \in Plans
  BY DEF SL!Init
<1>2. DOMAIN chans = {} /\ Len(chans) = 0
  BY <1>1
<1>3. SL!Null \in U /\ \A u \in U : lrfcnt[u] = 0 /\ lqnext[u] = SL!Null
  BY <1>1
<1>4. SL!TypeOK
  <2>1. lrfcnt \in [U -> 0..2] /\ lqnext \in [U -> U]
    BY <1>1, <1>3
  <2>2. chans \in Seq([group : SL!intset(nrole), chmat : [SL!Role \X SL!Role -> SL!Uchans \cup {SL!Null}]])
    BY <1>1
  <2>3. state \in [DOMAIN chans -> {"open", "closed", "linked"}]
    BY <1>1, <1>2
  <2>4. session \in [DOMAIN chans -> DOMAIN chans]
    BY <1>1, <1>2
  <2>5. Len(chans) <= MaxChannels
    BY <1>2, SessionLinkAssumption DEF SL!SessionLinkAssumption
  <2> QED BY <1>1, <2>1, <2>2, <2>3, <2>4, <2>5 DEF SL!TypeOK
<1>5. Shares /\ Matrices /\ Made /\ Routes
  BY <1>1, <1>2 DEF Shares, Matrices, Made, Routes
<1>6. \A u, v \in SL!Uchans : ~SL!Onward(u, v)
  BY <1>1, <1>3, NullApart DEF SL!Onward
<1>7. Straight /\ Acyclic(Edges)
  <2>1. \A u, v \in SL!Uchans : <<u, v>> \notin Edges
    BY <1>6 DEF Edges
  <2>2. Acyclic(Edges)
    BY <2>1 DEF Acyclic
  <2> QED BY <1>6, <2>2 DEF Straight
<1>8. \A u \in SL!Uchans : ~Links(u) /\ ~HasWriter(u) /\ ~HasReader(u)
  BY <1>1, <1>2, <1>6 DEF Links, HasWriter, HasReader
<1>9. OnePlace
  BY <1>1, <1>2, <1>3, <1>6, <1>8 DEF OnePlace
<1>10. LinkCounts
  BY <1>3, <1>8 DEF LinkCounts, Holders
<1> QED BY <1>4, <1>5, <1>7, <1>9, <1>10 DEF LinkInv

LEMMA LinkStep == ASSUME LinkInv, [SL!Next]_(SL!vars) PROVE LinkInv'
<1>1. CASE SL!Create
  BY <1>1, CreateKeeps
<1>2. CASE \E c, d \in SL!Open : SL!Link(c, d) \/ SL!LinkElim(c, d)
  BY <1>2, LinkKeeps, LinkElimKeeps
<1>3. CASE \E l \in links : SL!LinkUchan(l[1], l[2], l[3])
  BY <1>3, LinkUchanKeeps
<1>4. CASE \E u \in unrefs : SL!UnrefNext(u)
  BY <1>4, UnrefNextKeeps
<1>5. CASE \E c \in SL!Open : SL!Close(c)
  BY <1>5, CloseKeeps
<1>6. CASE \E c \in DOMAIN chans : \E ij \in SL!Role \X SL!Role : SL!CloseUchan(c, ij) \/ SL!Recv(c, ij)
  BY <1>6, CloseUchanKeeps, RecvKeeps
<1>7. CASE UNCHANGED SL!vars
  <2>1. UNCHANGED <<lrfcnt, lqnext, chans, state, links, unrefs, session, received, plan>>
    BY <1>7 DEF SL!vars
  <2>2. SL!TypeOK' /\ Made'
    BY <2>1 DEF LinkInv, SL!TypeOK, Made
  <2>3. Shares' /\ Matrices'
    BY <2>1 DEF LinkInv, Shares, Matrices, Of, Mat, Held
  <2>4. Edges' = Edges /\ Straight'
    BY <2>1 DEF LinkInv, Edges, Straight, SL!Onward
  <2>5. OnePlace'
    <3>1. /\ \A u, v : SL!Onward(u, v)' <=> SL!Onward(u, v)
          /\ \A u : Links(u)' <=> Links(u)
          /\ \A c, u : (Writes(c, u)' <=> Writes(c, u)) /\ (Reads(c, u)' <=> Reads(c, u))
          /\ UNCHANGED <<links, chans, unrefs, lqnext>>
      BY <2>1 DEF SL!Onward, Writes, Reads, Of, Mat, Held, Links
    <3>2. OnePlace
      BY DEF LinkInv
    <3> HIDE <2>1
    <3> QED BY <3>1, <3>2 DEF OnePlace
  <2>6. LinkCounts'
    BY <2>1 DEF LinkInv, LinkCounts, Holders, HasWriter, HasReader, SL!Onward, Writes, Reads, Of, Mat, Held, Links
  <2>7. Routes' /\ Acyclic(Edges)'
    BY <2>1, <2>4 DEF LinkInv, Routes, Acyclic, Reaches, Of, Mat
  <2> QED BY <2>2, <2>3, <2>4, <2>5, <2>6, <2>7 DEF LinkInv
<1> QED BY <1>1, <1>2, <1>3, <1>4, <1>5, <1>6, <1>7 DEF SL!Next

-----------------------------------------------------------------------------
(* The invariant has the properties that are promised.                     *)

\* Who holds a uchan has a reference to it.
LEMMA InUse ==
    ASSUME LinkInv, NEW u \in SL!Uchans
    PROVE  /\ HasWriter(u) \/ HasReader(u) => lrfcnt[u] > 0
           /\ lqnext[u] # SL!Null => lrfcnt[u] > 0
           /\ lrfcnt[u] > 0 => HasWriter(u) \/ HasReader(u)
<1>1. lrfcnt[u] = Holders(u) /\ (lrfcnt[u] = 0 => lqnext[u] = SL!Null)
  BY DEF LinkInv, LinkCounts
<1>2. CASE HasWriter(u) /\ HasReader(u)
  BY <1>1, <1>2 DEF Holders
<1>3. CASE HasWriter(u) /\ ~HasReader(u)
  BY <1>1, <1>3 DEF Holders
<1>4. CASE ~HasWriter(u) /\ HasReader(u)
  BY <1>1, <1>4 DEF Holders
<1>5. CASE ~HasWriter(u) /\ ~HasReader(u)
  BY <1>1, <1>5 DEF Holders
<1> QED BY <1>2, <1>3, <1>4, <1>5

LEMMA LineOf ==
    ASSUME LinkInv, NEW i \in SL!Role, NEW j \in SL!Role
    PROVE  /\ SL!Line(i, j) \subseteq SL!Uchans
           /\ \A u \in SL!Line(i, j) : u[2] = i /\ u[3] = j /\ u[1] \in DOMAIN chans /\ lrfcnt[u] > 0
           /\ \A u \in SL!Uchans : u[2] = i /\ u[3] = j /\ u[1] \in DOMAIN chans /\ lrfcnt[u] > 0
                 => u \in SL!Line(i, j)
<1>1. \A b \in DOMAIN chans : b \in 1..MaxChannels
  <2>1. chans \in Seq(Channel) /\ Len(chans) <= MaxChannels /\ MaxChannels \in Nat
    BY SessionLinkAssumption DEF LinkInv, SL!TypeOK, Channel, SL!SessionLinkAssumption
  <2>2. Len(chans) \in Nat /\ DOMAIN chans = 1..Len(chans)
    BY <2>1, LenProperties
  <2> QED BY <2>1, <2>2
<1>2. ASSUME NEW u \in SL!Line(i, j)
      PROVE  u \in SL!Uchans /\ u[2] = i /\ u[3] = j /\ u[1] \in DOMAIN chans /\ lrfcnt[u] > 0
  BY <1>1 DEF SL!Line, SL!Uchans
<1>3. ASSUME NEW u \in SL!Uchans, u[2] = i, u[3] = j, u[1] \in DOMAIN chans, lrfcnt[u] > 0
      PROVE  u \in SL!Line(i, j)
  <2>1. u = <<u[1], u[2], u[3]>>
    BY DEF SL!Uchans
  <2>2. u \in (DOMAIN chans) \X {i} \X {j}
    BY <1>3, <2>1
  <2> QED BY <1>3, <2>2 DEF SL!Line
<1> QED BY <1>2, <1>3

LEMMA RoutedHolds == ASSUME LinkInv PROVE SL!Routed
<1>0. SL!TypeOK /\ Shares /\ Matrices /\ Straight /\ Made /\ OnePlace /\ LinkCounts /\ Routes
  BY DEF LinkInv
<1> DEFINE Members(s) == {c \in DOMAIN chans : session[c] = s /\ state[c] # "linked"}
<1>1. ASSUME NEW b \in DOMAIN chans
      PROVE  UNION {SL!elements(chans[c].group) : c \in Members(session[b])} = SL!Role
  <2>1. \A c \in Members(session[b]) : SL!elements(chans[c].group) \subseteq SL!Role
    BY <1>0, ChannelOf DEF Of
  <2>2. \A i \in SL!Role : \E c \in Members(session[b]) : i \in SL!elements(chans[c].group)
    BY <1>0 DEF Shares, Held, Of
  <2> QED BY <2>1, <2>2
<1>2. ASSUME NEW s, NEW c \in Members(s), NEW d \in Members(s), c # d
      PROVE  SL!elements(chans[c].group) \cap SL!elements(chans[d].group) = {}
  BY <1>0, <1>2 DEF Shares, Held, Of
<1>3. ASSUME NEW s, NEW c \in Members(s), NEW d \in Members(s), c # d,
             state[c] = "open", state[d] = "open", NEW i \in Of(c), NEW j \in Of(d),
             NEW u, u = Mat(d, i, j), NEW w, w = Mat(c, i, j)
      PROVE  /\ u \in SL!Line(i, j) /\ w \in SL!Line(i, j)
             /\ SL!Leads(u, w)
             /\ \A x \in SL!Line(i, j) : ~SL!Onward(w, x)
  <2>1. /\ c \in DOMAIN chans /\ d \in DOMAIN chans /\ session[c] = session[d]
        /\ Held(c) /\ Held(d)
    BY <1>3 DEF Held
  <2>2. i \in SL!Role /\ j \in SL!Role /\ i \notin Of(d) /\ j \notin Of(c)
    BY <1>0, <1>2, <1>3, <2>1, ChannelOf DEF Of
  <2>3. /\ u \in SL!Uchans /\ u[2] = i /\ u[3] = j /\ u[1] \in DOMAIN chans /\ Reads(d, u)
    <3>1. u # SL!Null /\ u \in SL!Uchans \cup {SL!Null}
      BY <1>0, <1>3, <2>1, <2>2, ChannelOf DEF Matrices
    <3> QED BY <1>0, <1>3, <2>1, <2>2, <3>1 DEF Matrices, Reads
  <2>4. /\ w \in SL!Uchans /\ w[2] = i /\ w[3] = j /\ w[1] \in DOMAIN chans /\ Writes(c, w)
    <3>1. w # SL!Null /\ w \in SL!Uchans \cup {SL!Null}
      BY <1>0, <1>3, <2>1, <2>2, ChannelOf DEF Matrices
    <3> QED BY <1>0, <1>3, <2>1, <2>2, <3>1 DEF Matrices, Writes
  <2>5. u \in SL!Line(i, j) /\ w \in SL!Line(i, j)
    <3>1. lrfcnt[u] > 0 /\ lrfcnt[w] > 0
      BY <2>1, <2>3, <2>4, InUse DEF HasWriter, HasReader
    <3> QED BY <2>2, <2>3, <2>4, <3>1, LineOf
  <2>6. SL!Leads(u, w)
    <3> SUFFICES ASSUME NEW S \in SUBSET SL!Line(i, j), u \in S,
                        \A v \in S : \A x \in SL!Line(i, j) : SL!Onward(v, x) => x \in S
                 PROVE  w \in S
      BY <2>3 DEF SL!Leads
    <3>1. S \in SUBSET SL!Uchans
      BY <2>2, LineOf
    <3>2. ASSUME NEW e \in Edges, e[1] \in S PROVE e[2] \in S
      <4>1. e[1] \in SL!Uchans /\ e[2] \in SL!Uchans /\ SL!Onward(e[1], e[2])
        BY DEF Edges
      <4>2. e[1][2] = i /\ e[1][3] = j
        BY <2>2, <3>2, LineOf
      <4>3. e[2][2] = i /\ e[2][3] = j /\ e[2][1] \in DOMAIN chans
        BY <1>0, <4>1, <4>2 DEF Straight
      <4>4. lrfcnt[e[2]] > 0
        BY <4>1, InUse DEF HasReader
      <4>5. e[2] \in SL!Line(i, j)
        BY <2>2, <4>1, <4>3, <4>4, LineOf
      <4> QED BY <3>2, <4>1, <4>5
    <3>3. Reaches(Edges, u, w)
      BY <1>0, <1>3, <2>1 DEF Routes
    <3> QED BY <3>1, <3>2, <3>3 DEF Reaches
  <2>7. ASSUME NEW x \in SL!Line(i, j) PROVE ~SL!Onward(w, x)
    <3>1. x \in SL!Uchans
      BY <2>2, LineOf
    <3>2. ~Links(w) /\ lqnext[w] = SL!Null
      BY <1>0, <2>1, <2>4 DEF OnePlace
    <3> QED BY <3>1, <3>2, NullApart DEF SL!Onward, Links
  <2> QED BY <2>5, <2>6, <2>7
<1>4. \A l \in links : lqnext[l[1]] = SL!Null
  <2> SUFFICES ASSUME NEW l \in links PROVE lqnext[l[1]] = SL!Null
    OBVIOUS
  <2>1. l[1] \in SL!Uchans
    BY <1>0 DEF SL!TypeOK
  <2> QED BY <1>0, <2>1 DEF OnePlace, Links
<1>5. lrfcnt[SL!Null] = 0 /\ lqnext[SL!Null] = SL!Null
  BY <1>0 DEF LinkCounts
<1>6. ASSUME NEW s \in {session[c] : c \in DOMAIN chans}
      PROVE  /\ UNION {SL!elements(chans[c].group) : c \in Members(s)} = SL!Role
             /\ \A c, d \in Members(s) :
                   c # d => SL!elements(chans[c].group) \cap SL!elements(chans[d].group) = {}
             /\ \A c, d \in Members(s) : c # d /\ state[c] = "open" /\ state[d] = "open" =>
                   \A i \in SL!elements(chans[c].group) : \A j \in SL!elements(chans[d].group) :
                       LET u == chans[d].chmat[<<i, j>>]
                           w == chans[c].chmat[<<i, j>>]
                       IN  /\ {u, w} \subseteq SL!Line(i, j)
                           /\ SL!Leads(u, w)
                           /\ \A x \in SL!Line(i, j) : ~SL!Onward(w, x)
  <2>1. UNION {SL!elements(chans[c].group) : c \in Members(s)} = SL!Role
    BY <1>1
  <2>2. \A c, d \in Members(s) :
           c # d => SL!elements(chans[c].group) \cap SL!elements(chans[d].group) = {}
    BY <1>2
  <2>3. ASSUME NEW c \in Members(s), NEW d \in Members(s), c # d,
               state[c] = "open", state[d] = "open",
               NEW i \in SL!elements(chans[c].group), NEW j \in SL!elements(chans[d].group)
        PROVE  /\ {Mat(d, i, j), Mat(c, i, j)} \subseteq SL!Line(i, j)
               /\ SL!Leads(Mat(d, i, j), Mat(c, i, j))
               /\ \A x \in SL!Line(i, j) : ~SL!Onward(Mat(c, i, j), x)
    BY <1>3, <2>3 DEF Of
  <2> QED BY <2>1, <2>2, <2>3 DEF Mat
<1> QED BY <1>4, <1>5, <1>6 DEF SL!Routed

LEMMA AtMostOne ==
    ASSUME NEW S, \A x, y \in S : x = y
    PROVE  IsFiniteSet(S) /\ Cardinality(S) = IF S = {} THEN 0 ELSE 1
<1>1. CASE S = {}
  BY <1>1, FS_EmptySet
<1>2. CASE S # {}
  <2>1. PICK x \in S : TRUE
    BY <1>2
  <2>2. S = {x}
    BY <2>1
  <2> QED BY <1>2, <2>2, FS_Singleton
<1> QED BY <1>1, <1>2

LEMMA CountAgreesHolds == ASSUME LinkInv PROVE SL!CountAgrees
<1>0. SL!TypeOK /\ Matrices /\ Straight /\ OnePlace /\ LinkCounts /\ Acyclic(Edges)
  BY DEF LinkInv
<1>1. ASSUME NEW u \in SL!Uchans
      PROVE  lrfcnt[u] =
                 Cardinality({c \in DOMAIN chans :
                                 state[c] # "linked" /\ chans[c].chmat[<<u[2], u[3]>>] = u})
               + Cardinality({l \in links : l[1] = u}) + Cardinality({l \in links : l[2] = u})
               + Cardinality({v \in SL!Line(u[2], u[3]) : lqnext[v] = u})
               + Cardinality(unrefs \cap {u})
  <2> DEFINE H == {c \in DOMAIN chans :
                      state[c] # "linked" /\ chans[c].chmat[<<u[2], u[3]>>] = u}
             Ws == {c \in DOMAIN chans : Writes(c, u)}
             R == {c \in DOMAIN chans : Reads(c, u)}
             L1 == {l \in links : l[1] = u}
             L2 == {l \in links : l[2] = u}
             Q == {v \in SL!Line(u[2], u[3]) : lqnext[v] = u}
             A == unrefs \cap {u}
  <2>0. u[2] \in SL!Role /\ u[3] \in SL!Role /\ u # SL!Null
    BY NullApart DEF SL!Uchans
  <2>1. H = Ws \cup R /\ Ws \cap R = {}
    <3>1. ASSUME NEW c \in DOMAIN chans, Held(c), Mat(c, u[2], u[3]) = u
          PROVE  (u[2] \in Of(c)) # (u[3] \in Of(c))
      BY <1>0, <2>0, <3>1 DEF Matrices
    <3> QED BY <3>1 DEF Writes, Reads, Held, Mat
  <2>2. /\ \A c, d \in Ws : c = d
        /\ \A c, d \in R : c = d
        /\ \A l, m \in L1 : l = m
        /\ Ws = {} \/ L1 = {}
    BY <1>0 DEF OnePlace, Links
  <2>3. \A l \in links : l[1] \in SL!Uchans /\ l[2] \in SL!Uchans
    BY <1>0 DEF SL!TypeOK
  <2>4. \A v \in Q : v \in SL!Uchans /\ lqnext[v] = u /\ SL!Onward(v, u)
    BY <2>0, LineOf DEF SL!Onward
  <2>5. \A l \in L2 : l[1] \in SL!Uchans /\ SL!Onward(l[1], u) /\ Links(l[1])
    BY <2>3 DEF SL!Onward, Links
  <2>6. \A v, w \in SL!Uchans : SL!Onward(v, u) /\ SL!Onward(w, u) => v = w
    BY <1>0 DEF OnePlace
  <2>7. \A v, w \in Q : v = w
    BY <2>4, <2>6
  <2>8. \A l, m \in L2 : l = m
    <3> SUFFICES ASSUME NEW l \in L2, NEW m \in L2 PROVE l = m
      OBVIOUS
    <3>1. l[1] = m[1] /\ l[1] \in SL!Uchans
      BY <2>5, <2>6
    <3> QED BY <1>0, <3>1 DEF OnePlace
  <2>9. L2 = {} \/ Q = {}
    <3> SUFFICES ASSUME NEW l \in L2, NEW v \in Q PROVE FALSE
      OBVIOUS
    <3>1. l[1] = v /\ Links(v) /\ v \in SL!Uchans /\ lqnext[v] # SL!Null
      BY <2>0, <2>4, <2>5, <2>6
    <3> QED BY <1>0, <3>1 DEF OnePlace
  <2>10. L2 # {} \/ Q # {} => R = {} /\ A = {}
    BY <1>0, <2>4, <2>5 DEF OnePlace
  <2>11. R = {} \/ A = {}
    BY <1>0 DEF OnePlace
  <2>12. \A x, y \in A : x = y
    OBVIOUS
  <2>13. HasWriter(u) <=> L1 # {} \/ Ws # {}
    BY DEF HasWriter, Links
  <2>14. HasReader(u) <=> A # {} \/ R # {} \/ L2 # {} \/ Q # {}
    <3>1. A # {} <=> u \in unrefs
      OBVIOUS
    <3>2. R # {} <=> \E c \in DOMAIN chans : Reads(c, u)
      OBVIOUS
    <3>3. L2 # {} \/ Q # {} => \E v \in SL!Uchans : SL!Onward(v, u)
      BY <2>4, <2>5
    <3>4. ASSUME NEW v \in SL!Uchans, SL!Onward(v, u), L2 = {} PROVE v \in Q
      <4>1. lqnext[v] = u
        BY <3>4 DEF SL!Onward
      <4>2. v[2] = u[2] /\ v[3] = u[3] /\ v[1] \in DOMAIN chans
        BY <1>0, <3>4 DEF Straight
      <4>3. lrfcnt[v] > 0
        BY <2>0, <4>1, InUse
      <4> QED BY <2>0, <4>1, <4>2, <4>3, LineOf
    <3> QED BY <3>1, <3>2, <3>3, <3>4 DEF HasReader
  <2>15. lrfcnt[u] = (IF HasWriter(u) THEN 1 ELSE 0) + (IF HasReader(u) THEN 1 ELSE 0)
    BY <1>0 DEF LinkCounts, Holders
  <2> HIDE DEF H, Ws, R, L1, L2, Q, A
  <2>16. /\ IsFiniteSet(Ws) /\ Cardinality(Ws) = IF Ws = {} THEN 0 ELSE 1
         /\ IsFiniteSet(R) /\ Cardinality(R) = IF R = {} THEN 0 ELSE 1
    BY <2>2, AtMostOne
  <2>17. Cardinality(H) = Cardinality(Ws) + Cardinality(R)
    <3>1. /\ Cardinality(H) = Cardinality(Ws) + Cardinality(R) - Cardinality(Ws \cap R)
      BY <2>1, <2>16, FS_Union
    <3>2. Cardinality(Ws \cap R) = 0
      BY <2>1, FS_EmptySet
    <3> QED BY <2>16, <3>1, <3>2
  <2>18. Cardinality(L1) = (IF L1 = {} THEN 0 ELSE 1)
    BY <2>2, AtMostOne
  <2>19. Cardinality(L2) = (IF L2 = {} THEN 0 ELSE 1)
    BY <2>8, AtMostOne
  <2>20. Cardinality(Q) = (IF Q = {} THEN 0 ELSE 1)
    BY <2>7, AtMostOne
  <2>21. Cardinality(A) = (IF A = {} THEN 0 ELSE 1)
    BY <2>12, AtMostOne
  <2>22. Cardinality(Ws) + Cardinality(L1) = IF HasWriter(u) THEN 1 ELSE 0
    BY <2>2, <2>13, <2>16, <2>18
  <2>23. Cardinality(R) + Cardinality(L2) + Cardinality(Q) + Cardinality(A) =
            IF HasReader(u) THEN 1 ELSE 0
    BY <2>9, <2>10, <2>11, <2>14, <2>16, <2>19, <2>20, <2>21
  <2>24. /\ Cardinality(Ws) \in 0..1 /\ Cardinality(R) \in 0..1 /\ Cardinality(L1) \in 0..1
         /\ Cardinality(L2) \in 0..1 /\ Cardinality(Q) \in 0..1 /\ Cardinality(A) \in 0..1
    BY <2>16, <2>18, <2>19, <2>20, <2>21
  <2>25. lrfcnt[u] = Cardinality(H) + Cardinality(L1) + Cardinality(L2) + Cardinality(Q)
                     + Cardinality(A)
    BY <2>15, <2>17, <2>22, <2>23, <2>24
  <2> QED BY <2>25 DEF H, L1, L2, Q, A
<1>2. ASSUME SL!Open = {}, SL!Calls = {}, unrefs = {} PROVE \A u \in SL!Uchans : lrfcnt[u] = 0
  <2>1. links = {}
    BY <1>2 DEF SL!Calls
  <2>2. \A c \in DOMAIN chans : state[c] # "open"
    BY <1>2, <2>1 DEF SL!Open
  <2>3. \A c \in DOMAIN chans : \A i, j \in SL!Role : Held(c) => Mat(c, i, j) = SL!Null
    <3>1. \A c \in DOMAIN chans : Held(c) => state[c] = "closed"
      BY <1>0, <2>2 DEF SL!TypeOK, Held
    <3> QED BY <1>2, <3>1 DEF SL!Calls, Mat
  <2>4. \A u \in SL!Uchans : \A c \in DOMAIN chans : ~Writes(c, u) /\ ~Reads(c, u)
    <3>1. \A u \in SL!Uchans : u[2] \in SL!Role /\ u[3] \in SL!Role /\ u # SL!Null
      BY NullApart DEF SL!Uchans
    <3> QED BY <2>3, <3>1 DEF Writes, Reads
  <2>5. \A u \in SL!Uchans : ~HasWriter(u) /\ (HasReader(u) => \E x \in SL!Uchans : SL!Onward(x, u))
    BY <1>2, <2>1, <2>4 DEF HasWriter, HasReader, Links
  <2> DEFINE S == {u \in SL!Uchans : lrfcnt[u] # 0}
  <2>6. ASSUME S # {} PROVE FALSE
    <3>1. PICK v \in S : \A x \in S : <<x, v>> \notin Edges
      BY <1>0, <2>6 DEF Acyclic
    <3>2. v \in SL!Uchans /\ lrfcnt[v] > 0
      BY <1>0, <3>1 DEF SL!TypeOK
    <3>3. PICK x \in SL!Uchans : SL!Onward(x, v)
      BY <2>5, <3>2, InUse
    <3>4. lqnext[x] = v /\ v # SL!Null
      BY <2>1, <3>2, <3>3, NullApart DEF SL!Onward
    <3>5. x \in S
      BY <3>4, InUse
    <3>6. <<x, v>> \in Edges
      BY <3>2, <3>3 DEF Edges
    <3> QED BY <3>1, <3>5, <3>6
  <2> QED BY <2>6
<1> QED
  <2>1. \A u \in SL!Uchans :
           lrfcnt[u] =
               Cardinality({c \in DOMAIN chans :
                               state[c] # "linked" /\ chans[c].chmat[<<u[2], u[3]>>] = u})
             + Cardinality({l \in links : l[1] = u}) + Cardinality({l \in links : l[2] = u})
             + Cardinality({v \in SL!Line(u[2], u[3]) : lqnext[v] = u})
             + Cardinality(unrefs \cap {u})
    BY <1>1
  <2>2. SL!Open = {} /\ SL!Calls = {} /\ unrefs = {} => \A u \in SL!Uchans : lrfcnt[u] = 0
    BY <1>2
  <2>3. \A S : SL!Cardinality(S) = Cardinality(S)
    BY DEF SL!Cardinality, Cardinality
  <2> QED BY <2>1, <2>2, <2>3 DEF SL!CountAgrees

\* In every behaviour the channels of a session are held for each role by one
\* holder, who reads a uchan that leads to the one that the other holder writes,
\* however sessions were linked and closed and in whatever order the uchans are
\* linked and unreferenced (channel0_link, uchan_qnext, uchan_unref): no message
\* is lost to a freed or a wrong uchan.  Each uchan counts its references, and
\* none is left when everything is closed.
THEOREM LinksAgreeHolds == MCSpec => []LinksAgree
<1>1. MCInit => LinkInv
  BY LinkInit DEF MCInit
<1>2. ASSUME LinkInv, [MCNext]_mcvars PROVE LinkInv'
  <2>1. SL!Next \/ UNCHANGED link
    BY <1>2 DEF MCNext, mcvars
  <2>2. [SL!Next]_(SL!vars)
    BY <2>1 DEF link, SL!vars
  <2> QED BY <1>2, <2>2, LinkStep
<1>3. LinkInv => LinksAgree
  BY RoutedHolds, CountAgreesHolds DEF LinksAgree
<1> QED BY <1>1, <1>2, <1>3, PTL DEF MCSpec

=============================================================================
