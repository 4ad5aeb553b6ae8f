---------------------------- MODULE TrywithProofs ----------------------------
(***************************************************************************)
(* Exceptions, for any number of calls, trys and loops: in a program whose *)
(* $break and $continue stay within a try, a raised exception goes to the  *)
(* innermost try that is being evaluated.  (TrywithBreak.cfg shows that it *)
(* needs this assumption.)                                                 *)
(*                                                                         *)
(* The argument: the list of frames is the list of the trys that are being *)
(* evaluated, the innermost first.  Calls are counted from the first one   *)
(* and the trys of a call from the outermost one, so that neither changes  *)
(* when something begins or ends further in.                               *)
(***************************************************************************)
EXTENDS Trywith, SequenceTheorems, TLAPS

\* What the d-th call is within.
At(cs, d) == cs[Len(cs) - d + 1]

\* What has k things around it in the same call.
Out(nest, k) == nest[Len(nest) - k]

\* The frame is that of a try which the calls cs are within.
Open(cs, f) ==
    /\ f.call \in 1..Len(cs)
    /\ Len(f.outer) < Len(At(cs, f.call))
    /\ Out(At(cs, f.call), Len(f.outer)) = "try"
    /\ \A k \in 0..(Len(f.outer) - 1) : Out(f.outer, k) = Out(At(cs, f.call), k)

\* f was entered after g.
Inside(f, g) == g.call < f.call \/ (g.call = f.call /\ Len(g.outer) < Len(f.outer))

\* The try in the d-th call that has k things around it has a frame.
Framed(fs, d, k) == \E i \in 1..Len(fs) : fs[i].call = d /\ Len(fs[i].outer) = k

Matches(cs, fs) ==
    /\ cs \in Seq(Nest) /\ fs \in Seq(Frame)
    /\ \A i \in 1..Len(fs) : Open(cs, fs[i])
    /\ \A i, j \in 1..Len(fs) : i < j => Inside(fs[i], fs[j])
    /\ \A d \in 1..Len(cs) : \A k \in 0..(Len(At(cs, d)) - 1) :
          Out(At(cs, d), k) = "try" => Framed(fs, d, k)

Bounded ==
    Len(calls) <= MaxCalls /\ \A i \in 1..Len(calls) : Len(calls[i]) <= MaxNest

IInv == TypeOK /\ Bounded /\ Matches(calls, frames)

-----------------------------------------------------------------------------
\* A sequence with something new in front.
LEMMA Cons ==
    ASSUME NEW S, NEW x \in S, NEW s \in Seq(S)
    PROVE  /\ <<x>> \o s \in Seq(S)
           /\ Len(<<x>> \o s) = Len(s) + 1
           /\ (<<x>> \o s)[1] = x
           /\ \A i \in 1..Len(s) : (<<x>> \o s)[i + 1] = s[i]
           /\ <<x>> \o s # <<>>
<1>1. <<x>> \in Seq(S) /\ Len(<<x>>) = 1 /\ <<x>>[1] = x
    OBVIOUS
<1>2. Len(s) \in Nat
    BY LenProperties
<1>3. /\ <<x>> \o s \in Seq(S) /\ Len(<<x>> \o s) = Len(s) + 1
      /\ \A i \in 1..(1 + Len(s)) :
            (<<x>> \o s)[i] = IF i <= 1 THEN <<x>>[i] ELSE s[i - 1]
    BY <1>1, ConcatProperties
<1>4. \A i \in 1..Len(s) : (<<x>> \o s)[i + 1] = s[i]
    BY <1>2, <1>3
<1> QED BY <1>1, <1>2, <1>3, <1>4, EmptySeq

\* The calls from the k-th on.
LEMMA Rest ==
    ASSUME NEW S, NEW s \in Seq(S), NEW k \in 1..(Len(s) + 1)
    PROVE  /\ SubSeq(s, k, Len(s)) \in Seq(S)
           /\ Len(SubSeq(s, k, Len(s))) = Len(s) - k + 1
           /\ \A i \in 1..(Len(s) - k + 1) : SubSeq(s, k, Len(s))[i] = s[i + k - 1]
<1>1. Len(s) \in Nat /\ \A i \in 1..Len(s) : s[i] \in S
    BY LenProperties, ElementOfSeq
<1>2. k \in Int /\ Len(s) \in Int /\ \A i \in k..Len(s) : s[i] \in S
    BY <1>1
<1>3. /\ SubSeq(s, k, Len(s)) \in Seq(S)
      /\ Len(SubSeq(s, k, Len(s))) = IF k <= Len(s) THEN Len(s) - k + 1 ELSE 0
      /\ \A i \in 1..(Len(s) - k + 1) : SubSeq(s, k, Len(s))[i] = s[k + i - 1]
    BY <1>2, SubSeqProperties
<1> QED BY <1>1, <1>3

\* Calls cs2 that come of cs when the innermost ones end, or one begins, and
\* nest is what the innermost one is then within.
Outer(cs2, cs, c, nest) ==
    /\ cs2 \in Seq(Nest) /\ Len(cs2) = c /\ c \in Nat \ {0}
    /\ At(cs2, c) = nest
    /\ \A d \in 1..(c - 1) : d \in 1..Len(cs) /\ At(cs2, d) = At(cs, d)

\* Within changes the innermost call.
LEMMA WithinOuter ==
    ASSUME NEW cs \in Seq(Nest), cs # <<>>, NEW nest \in Nest
    PROVE  Outer(<<nest>> \o Tail(cs), cs, Len(cs), nest)
<1> DEFINE cs2 == <<nest>> \o Tail(cs)
<1>1. /\ Len(cs) \in Nat \ {0} /\ Tail(cs) \in Seq(Nest) /\ Len(Tail(cs)) = Len(cs) - 1
      /\ \A i \in 1..Len(Tail(cs)) : Tail(cs)[i] = cs[i + 1]
    BY EmptySeq, HeadTailProperties
<1>2. /\ cs2 \in Seq(Nest) /\ Len(cs2) = Len(cs) /\ cs2[1] = nest
      /\ \A i \in 1..(Len(cs) - 1) : cs2[i + 1] = cs[i + 1]
    BY <1>1, Cons
<1> HIDE DEF cs2
<1>3. At(cs2, Len(cs)) = nest
    BY <1>1, <1>2 DEF At
<1>4. ASSUME NEW d \in 1..(Len(cs) - 1)
      PROVE  d \in 1..Len(cs) /\ At(cs2, d) = At(cs, d)
    <2>1. Len(cs) - d \in 1..(Len(cs) - 1) /\ d \in 1..Len(cs)
        BY <1>1
    <2>2. cs2[Len(cs) - d + 1] = cs[Len(cs) - d + 1]
        BY <2>1, <1>2
    <2> QED BY <2>1, <2>2, <1>2 DEF At
<1>5. Outer(cs2, cs, Len(cs), nest)
    BY <1>1, <1>2, <1>3, <1>4 DEF Outer
<1> QED BY <1>5 DEF cs2

\* A new call is within nothing.
LEMMA CallOuter ==
    ASSUME NEW cs \in Seq(Nest)
    PROVE  Outer(<< <<>> >> \o cs, cs, Len(cs) + 1, <<>>)
<1> DEFINE cs2 == << <<>> >> \o cs
<1>1. Len(cs) \in Nat /\ <<>> \in Nest
    BY LenProperties, EmptySeq DEF Nest
<1>2. /\ cs2 \in Seq(Nest) /\ Len(cs2) = Len(cs) + 1 /\ cs2[1] = <<>>
      /\ \A i \in 1..Len(cs) : cs2[i + 1] = cs[i]
    BY <1>1, Cons
<1> HIDE DEF cs2
<1>3. At(cs2, Len(cs) + 1) = <<>>
    BY <1>1, <1>2 DEF At
<1>4. ASSUME NEW d \in 1..Len(cs) PROVE At(cs2, d) = At(cs, d)
    <2>1. Len(cs) - d + 1 \in 1..Len(cs)
        BY <1>1
    <2>2. cs2[(Len(cs) - d + 1) + 1] = cs[Len(cs) - d + 1]
        BY <2>1, <1>2
    <2>3. Len(cs2) - d + 1 = (Len(cs) - d + 1) + 1
        BY <1>1, <1>2
    <2> QED BY <2>2, <2>3 DEF At
<1>5. Outer(cs2, cs, Len(cs) + 1, <<>>)
    BY <1>1, <1>2, <1>3, <1>4 DEF Outer
<1> QED BY <1>5 DEF cs2

\* A longjmp to the c-th call.
LEMMA JumpOuter ==
    ASSUME NEW cs \in Seq(Nest), NEW c \in 1..Len(cs), NEW nest \in Nest
    PROVE  Outer(<<nest>> \o SubSeq(cs, Len(cs) - c + 2, Len(cs)), cs, c, nest)
<1> DEFINE r == SubSeq(cs, Len(cs) - c + 2, Len(cs))
           cs2 == <<nest>> \o r
<1>1. Len(cs) \in Nat /\ Len(cs) - c + 2 \in 1..(Len(cs) + 1)
    BY LenProperties
<1>2. /\ r \in Seq(Nest) /\ Len(r) = c - 1
      /\ \A i \in 1..(c - 1) : r[i] = cs[i + Len(cs) - c + 1]
    <2>1. /\ r \in Seq(Nest) /\ Len(r) = Len(cs) - (Len(cs) - c + 2) + 1
          /\ \A i \in 1..(Len(cs) - (Len(cs) - c + 2) + 1) :
                r[i] = cs[i + (Len(cs) - c + 2) - 1]
        BY <1>1, Rest
    <2>2. /\ Len(cs) - (Len(cs) - c + 2) + 1 = c - 1
          /\ \A i \in 1..(c - 1) : i + (Len(cs) - c + 2) - 1 = i + Len(cs) - c + 1
        BY <1>1
    <2> HIDE DEF r
    <2> QED BY <2>1, <2>2
<1> HIDE DEF r
<1>3. /\ cs2 \in Seq(Nest) /\ Len(cs2) = c /\ cs2[1] = nest
      /\ \A i \in 1..(c - 1) : cs2[i + 1] = r[i]
    BY <1>1, <1>2, Cons
<1> HIDE DEF cs2
<1>4. At(cs2, c) = nest
    BY <1>1, <1>3 DEF At
<1>5. ASSUME NEW d \in 1..(c - 1)
      PROVE  d \in 1..Len(cs) /\ At(cs2, d) = At(cs, d)
    <2>1. c - d \in 1..(c - 1) /\ d \in 1..Len(cs) /\ Len(cs2) - d + 1 = (c - d) + 1
        BY <1>1, <1>3
    <2>2. cs2[(c - d) + 1] = cs[(c - d) + Len(cs) - c + 1]
        BY <2>1, <1>2, <1>3
    <2>3. (c - d) + Len(cs) - c + 1 = Len(cs) - d + 1
        BY <1>1
    <2> QED BY <2>1, <2>2, <2>3 DEF At
<1>6. Outer(cs2, cs, c, nest)
    BY <1>1, <1>3, <1>4, <1>5 DEF Outer
<1> QED BY <1>6 DEF cs2, r

\* A frame of a call that is further out than the change.
LEMMA OpenOuter ==
    ASSUME NEW cs, NEW cs2, NEW c, NEW nest, Outer(cs2, cs, c, nest),
           NEW f, Open(cs, f), f.call < c
    PROVE  Open(cs2, f)
<1>1. f.call \in 1..(c - 1)
    BY DEF Open, Outer
<1>2. f.call \in 1..Len(cs2) /\ At(cs2, f.call) = At(cs, f.call)
    BY <1>1 DEF Outer
<1> QED BY <1>2 DEF Open

\* The list matches the calls again if it has all of the outer frames and
\* those of what the innermost call is within.
LEMMA MatchesOuter ==
    ASSUME NEW cs, NEW cs2, NEW c, NEW nest, NEW fs, NEW fs2 \in Seq(Frame),
           Matches(cs, fs), Outer(cs2, cs, c, nest),
           \A i, j \in 1..Len(fs2) : i < j => Inside(fs2[i], fs2[j]),
           \A i \in 1..Len(fs2) :
              \/ fs2[i].call = c /\ Open(cs2, fs2[i])
              \/ \E j \in 1..Len(fs) : fs2[i] = fs[j] /\ fs[j].call < c,
           \A j \in 1..Len(fs) :
              fs[j].call < c => \E i \in 1..Len(fs2) : fs2[i] = fs[j],
           \A k \in 0..(Len(nest) - 1) : Out(nest, k) = "try" => Framed(fs2, c, k)
    PROVE  Matches(cs2, fs2)
<1>1. \A i \in 1..Len(fs2) : Open(cs2, fs2[i])
    BY OpenOuter DEF Matches
<1>2. ASSUME NEW d \in 1..Len(cs2), NEW k \in 0..(Len(At(cs2, d)) - 1),
             Out(At(cs2, d), k) = "try"
      PROVE  Framed(fs2, d, k)
    <2>1. CASE d = c
        BY <1>2, <2>1 DEF Outer
    <2>2. CASE d # c
        <3>1. d \in 1..(c - 1) /\ d \in 1..Len(cs) /\ At(cs2, d) = At(cs, d)
            BY <2>2 DEF Outer
        <3>2. Framed(fs, d, k)
            BY <1>2, <3>1 DEF Matches
        <3>3. PICK j \in 1..Len(fs) :
                 fs[j].call = d /\ Len(fs[j].outer) = k
            BY <3>2 DEF Framed
        <3>4. PICK i \in 1..Len(fs2) : fs2[i] = fs[j]
            BY SMTT(30), <3>1, <3>3 DEF Outer
        <3> QED BY <3>1, <3>3, <3>4 DEF Framed
    <2> QED BY <2>1, <2>2
<1> QED BY <1>1, <1>2 DEF Matches, Outer

-----------------------------------------------------------------------------
\* What the innermost call is within.
LEMMA HereIs ==
    ASSUME NEW cs \in Seq(Nest), cs # <<>>
    PROVE  /\ Len(cs) \in Nat \ {0} /\ Head(cs) = cs[1]
           /\ Head(cs) = At(cs, Len(cs)) /\ Head(cs) \in Nest
<1>1. Len(cs) \in Nat \ {0} /\ Head(cs) \in Nest
    BY EmptySeq, HeadTailProperties
<1>2. Head(cs) = cs[1]
    OBVIOUS
<1>3. At(cs, Len(cs)) = cs[1]
    BY <1>1 DEF At
<1> QED BY <1>1, <1>2, <1>3

\* A call begins.
LEMMA CallMatches ==
    ASSUME NEW cs, NEW fs, Matches(cs, fs)
    PROVE  Matches(<< <<>> >> \o cs, fs)
<1> DEFINE cs2 == << <<>> >> \o cs
<1>1. Outer(cs2, cs, Len(cs) + 1, <<>>)
    BY CallOuter DEF Matches
<1> HIDE DEF cs2
<1>2. Len(cs) \in Nat
    BY LenProperties DEF Matches
<1>3. ASSUME NEW i \in 1..Len(fs) PROVE fs[i].call < Len(cs) + 1
    <2>1. fs[i].call \in 1..Len(cs)
        BY DEF Matches, Open
    <2> QED BY <1>2, <2>1
<1>4. Len(<<>>) = 0
    BY EmptySeq
<1>5. /\ fs \in Seq(Frame)
      /\ \A i, j \in 1..Len(fs) : i < j => Inside(fs[i], fs[j])
    BY DEF Matches
<1>6. \A k \in 0..(Len(<<>>) - 1) :
         Out(<<>>, k) = "try" => Framed(fs, Len(cs) + 1, k)
    BY <1>4
<1>7. Matches(cs2, fs)
    BY <1>1, <1>3, <1>5, <1>6, MatchesOuter
<1> QED BY <1>7 DEF cs2

\* Frames of the innermost call, when things begin or end that are further in.
LEMMA OpenInner ==
    ASSUME NEW cs, NEW cs2, NEW c, NEW nest, Outer(cs2, cs, c, nest),
           NEW f \in Frame, Open(cs, f), f.call = c, Len(f.outer) < Len(nest),
           \A k \in 0..Len(f.outer) : Out(nest, k) = Out(At(cs, c), k)
    PROVE  Open(cs2, f)
<1>1. Len(f.outer) \in Nat
    BY LenProperties DEF Frame, Nest
<1>2. c \in 1..Len(cs2) /\ At(cs2, c) = nest
    BY DEF Outer
<1>3. Out(nest, Len(f.outer)) = "try"
    BY <1>1 DEF Open
<1>4. \A k \in 0..(Len(f.outer) - 1) : Out(f.outer, k) = Out(nest, k)
    BY <1>1 DEF Open
<1> QED BY <1>2, <1>3, <1>4 DEF Open

\* Something begins.
LEMMA Begun ==
    ASSUME NEW nest \in Nest, NEW x \in {"try", "loop"}
    PROVE  /\ <<x>> \o nest \in Nest /\ Len(<<x>> \o nest) = Len(nest) + 1
           /\ Len(nest) \in Nat
           /\ Out(<<x>> \o nest, Len(nest)) = x
           /\ \A k \in 0..(Len(nest) - 1) : Out(<<x>> \o nest, k) = Out(nest, k)
<1> DEFINE new == <<x>> \o nest
<1>1. /\ new \in Nest /\ Len(new) = Len(nest) + 1 /\ new[1] = x
      /\ \A i \in 1..Len(nest) : new[i + 1] = nest[i]
    BY Cons DEF Nest
<1>2. Len(nest) \in Nat
    BY LenProperties DEF Nest
<1> HIDE DEF new
<1>3. Out(new, Len(nest)) = x
    BY <1>1, <1>2 DEF Out
<1>4. ASSUME NEW k \in 0..(Len(nest) - 1) PROVE Out(new, k) = Out(nest, k)
    <2>1. Len(nest) - k \in 1..Len(nest) /\ Len(new) - k = (Len(nest) - k) + 1
        BY <1>1, <1>2
    <2> QED BY <2>1, <1>1 DEF Out
<1>5. /\ new \in Nest /\ Len(new) = Len(nest) + 1 /\ Len(nest) \in Nat
      /\ Out(new, Len(nest)) = x
      /\ \A k \in 0..(Len(nest) - 1) : Out(new, k) = Out(nest, k)
    BY <1>1, <1>2, <1>3, <1>4
<1> QED BY <1>5 DEF new

\* Something ends.
LEMMA Ended ==
    ASSUME NEW nest \in Nest, nest # <<>>
    PROVE  LET new == SubSeq(nest, 2, Len(nest))
           IN  /\ new \in Nest /\ Len(new) = Len(nest) - 1 /\ Len(new) \in Nat
               /\ nest[1] = Out(nest, Len(new))
               /\ \A k \in 0..(Len(new) - 1) : Out(new, k) = Out(nest, k)
<1> DEFINE new == SubSeq(nest, 2, Len(nest))
<1>1. Len(nest) \in Nat \ {0} /\ 2 \in 1..(Len(nest) + 1)
    BY EmptySeq DEF Nest
<1>2. /\ new \in Nest /\ Len(new) = Len(nest) - 2 + 1
      /\ \A i \in 1..(Len(nest) - 2 + 1) : new[i] = nest[i + 2 - 1]
    BY <1>1, Rest DEF Nest
<1> HIDE DEF new
<1>3. Len(new) = Len(nest) - 1 /\ Len(new) \in Nat
    BY <1>1, <1>2
<1>4. nest[1] = Out(nest, Len(new))
    BY <1>1, <1>3 DEF Out
<1>5. ASSUME NEW k \in 0..(Len(new) - 1) PROVE Out(new, k) = Out(nest, k)
    <2>1. /\ Len(new) - k \in 1..(Len(nest) - 2 + 1)
          /\ (Len(new) - k) + 2 - 1 = Len(nest) - k
        BY <1>1, <1>3
    <2> QED BY <2>1, <1>2 DEF Out
<1>6. /\ new \in Nest /\ Len(new) = Len(nest) - 1 /\ Len(new) \in Nat
      /\ nest[1] = Out(nest, Len(new))
      /\ \A k \in 0..(Len(new) - 1) : Out(new, k) = Out(nest, k)
    BY <1>2, <1>3, <1>4, <1>5
<1> QED BY <1>6 DEF new

\* A frame is of a call that is running.
LEMMA FrameCall ==
    ASSUME NEW cs, NEW fs, Matches(cs, fs), NEW i \in 1..Len(fs)
    PROVE  /\ fs[i] \in Frame /\ Open(cs, fs[i])
           /\ fs[i].call \in Nat /\ Len(fs[i].outer) \in Nat /\ Len(cs) \in Nat
           /\ fs[i].call <= Len(cs)
<1>1. fs[i] \in Frame /\ Open(cs, fs[i]) /\ cs \in Seq(Nest)
    BY ElementOfSeq DEF Matches
<1>2. fs[i].call \in Nat /\ Len(fs[i].outer) \in Nat /\ Len(cs) \in Nat
    BY <1>1, LenProperties DEF Frame, Nest
<1>3. fs[i].call \in 1..Len(cs)
    BY <1>1 DEF Open
<1> QED BY <1>1, <1>2, <1>3

\* A loop begins.
LEMMA LoopMatches ==
    ASSUME NEW cs, NEW fs, Matches(cs, fs), cs # <<>>
    PROVE  Matches(<<<<"loop">> \o Head(cs)>> \o Tail(cs), fs)
<1> DEFINE old == Head(cs)
           new == <<"loop">> \o old
           cs2 == <<new>> \o Tail(cs)
           c == Len(cs)
<1>1. cs \in Seq(Nest) /\ c \in Nat \ {0} /\ old = At(cs, c) /\ old \in Nest
    BY HereIs DEF Matches
<1>2. /\ new \in Nest /\ Len(new) = Len(old) + 1 /\ Len(old) \in Nat
      /\ Out(new, Len(old)) = "loop"
      /\ \A k \in 0..(Len(old) - 1) : Out(new, k) = Out(old, k)
    BY <1>1, Begun
<1>3. Outer(cs2, cs, c, new)
    BY <1>1, <1>2, WithinOuter
<1> HIDE DEF old, new, cs2, c
<1>4. ASSUME NEW i \in 1..Len(fs)
      PROVE  \/ fs[i].call = c /\ Open(cs2, fs[i])
             \/ fs[i].call < c
    <2>1. CASE fs[i].call = c
        <3>1. fs[i] \in Frame /\ Open(cs, fs[i]) /\ Len(fs[i].outer) \in Nat
            BY FrameCall
        <3>2. Len(fs[i].outer) < Len(old)
            BY <2>1, <3>1, <1>1 DEF Open
        <3>3. \A k \in 0..Len(fs[i].outer) : Out(new, k) = Out(At(cs, c), k)
            BY <3>1, <3>2, <1>1, <1>2
        <3>4. Len(fs[i].outer) < Len(new)
            BY <3>1, <3>2, <1>2
        <3> QED BY <2>1, <3>1, <3>3, <3>4, <1>3, OpenInner
    <2>2. CASE fs[i].call # c
        BY <2>2, FrameCall DEF c
    <2> QED BY <2>1, <2>2
<1>5. ASSUME NEW k \in 0..(Len(new) - 1), Out(new, k) = "try"
      PROVE  Framed(fs, c, k)
    <2>1. k # Len(old)
        BY <1>2, <1>5
    <2>2. k \in 0..(Len(old) - 1) /\ Out(old, k) = "try"
        BY <2>1, <1>2, <1>5
    <2> QED BY <2>2, <1>1 DEF Matches, c
<1>6. /\ fs \in Seq(Frame)
      /\ \A i, j \in 1..Len(fs) : i < j => Inside(fs[i], fs[j])
    BY DEF Matches
<1>7. Matches(cs2, fs)
    BY <1>3, <1>4, <1>5, <1>6, MatchesOuter
<1> QED BY <1>7 DEF cs2, new, old

\* A loop ends.
LEMMA LoopEndMatches ==
    ASSUME NEW cs, NEW fs, Matches(cs, fs), cs # <<>>,
           Head(cs) # <<>>, Head(cs)[1] = "loop"
    PROVE  Matches(<<SubSeq(Head(cs), 2, Len(Head(cs)))>> \o Tail(cs), fs)
<1> DEFINE old == Head(cs)
           new == SubSeq(old, 2, Len(old))
           cs2 == <<new>> \o Tail(cs)
           c == Len(cs)
<1>1. cs \in Seq(Nest) /\ c \in Nat \ {0} /\ old = At(cs, c) /\ old \in Nest
    BY HereIs DEF Matches
<1>2. /\ new \in Nest /\ Len(new) = Len(old) - 1 /\ Len(new) \in Nat
      /\ Out(old, Len(new)) = "loop"
      /\ \A k \in 0..(Len(new) - 1) : Out(new, k) = Out(old, k)
    BY <1>1, Ended
<1>3. Outer(cs2, cs, c, new)
    BY <1>1, <1>2, WithinOuter
<1> HIDE DEF old, new, cs2, c
<1>4. ASSUME NEW i \in 1..Len(fs)
      PROVE  \/ fs[i].call = c /\ Open(cs2, fs[i])
             \/ fs[i].call < c
    <2>1. CASE fs[i].call = c
        <3>1. fs[i] \in Frame /\ Open(cs, fs[i]) /\ Len(fs[i].outer) \in Nat
            BY FrameCall
        <3>2. Len(fs[i].outer) < Len(old) /\ Out(old, Len(fs[i].outer)) = "try"
            BY <2>1, <3>1, <1>1 DEF Open
        <3>3. Len(fs[i].outer) # Len(new)
            BY <3>2, <1>2
        <3>4. Len(fs[i].outer) < Len(new) /\ Len(old) = Len(new) + 1
            <4>1. Len(old) \in Nat
                BY <1>1, LenProperties DEF Nest
            <4> QED BY <4>1, <3>1, <3>2, <3>3, <1>2
        <3>5. \A k \in 0..Len(fs[i].outer) : Out(new, k) = Out(At(cs, c), k)
            BY <3>1, <3>4, <1>1, <1>2
        <3> QED BY <2>1, <3>1, <3>4, <3>5, <1>3, OpenInner
    <2>2. CASE fs[i].call # c
        BY <2>2, FrameCall DEF c
    <2> QED BY <2>1, <2>2
<1>5. ASSUME NEW k \in 0..(Len(new) - 1), Out(new, k) = "try"
      PROVE  Framed(fs, c, k)
    <2>1. Len(old) \in Nat
        BY <1>1, LenProperties DEF Nest
    <2>2. k \in 0..(Len(old) - 1) /\ Out(old, k) = "try"
        BY <2>1, <1>2, <1>5
    <2> QED BY <2>2, <1>1 DEF Matches, c
<1>6. /\ fs \in Seq(Frame)
      /\ \A i, j \in 1..Len(fs) : i < j => Inside(fs[i], fs[j])
    BY DEF Matches
<1>7. Matches(cs2, fs)
    BY <1>3, <1>4, <1>5, <1>6, MatchesOuter
<1> QED BY <1>7 DEF cs2, new, old

\* A try begins, and its frame is entered.
LEMMA TryMatches ==
    ASSUME NEW cs, NEW fs, Matches(cs, fs), cs # <<>>
    PROVE  Matches(<<<<"try">> \o Head(cs)>> \o Tail(cs),
                   <<[call |-> Len(cs), outer |-> Head(cs)]>> \o fs)
<1> DEFINE old == Head(cs)
           new == <<"try">> \o old
           cs2 == <<new>> \o Tail(cs)
           c == Len(cs)
           f == [call |-> c, outer |-> old]
           fs2 == <<f>> \o fs
<1>1. /\ cs \in Seq(Nest) /\ fs \in Seq(Frame) /\ Len(fs) \in Nat
      /\ c \in Nat \ {0} /\ old = At(cs, c) /\ old \in Nest
    BY HereIs, LenProperties DEF Matches
<1>2. /\ new \in Nest /\ Len(new) = Len(old) + 1 /\ Len(old) \in Nat
      /\ Out(new, Len(old)) = "try"
      /\ \A k \in 0..(Len(old) - 1) : Out(new, k) = Out(old, k)
    BY <1>1, Begun
<1>3. Outer(cs2, cs, c, new)
    BY <1>1, <1>2, WithinOuter
<1>4. f \in Frame /\ f.call = c /\ f.outer = old
    BY <1>1 DEF Frame
<1> HIDE DEF old, new, cs2, c, f
<1>5. /\ fs2 \in Seq(Frame) /\ Len(fs2) = Len(fs) + 1 /\ fs2[1] = f
      /\ \A i \in 1..Len(fs) : fs2[i + 1] = fs[i]
    BY <1>1, <1>4, Cons
<1> HIDE DEF fs2
<1>6. Open(cs2, f)
    BY <1>2, <1>3, <1>4 DEF Open, Outer
<1>7. ASSUME NEW i \in 1..Len(fs)
      PROVE  \/ fs[i].call = c /\ Len(fs[i].outer) < Len(old) /\ Open(cs2, fs[i])
             \/ fs[i].call < c
    <2>1. CASE fs[i].call = c
        <3>1. fs[i] \in Frame /\ Open(cs, fs[i]) /\ Len(fs[i].outer) \in Nat
            BY FrameCall
        <3>2. Len(fs[i].outer) < Len(old)
            BY <2>1, <3>1, <1>1 DEF Open
        <3>3. \A k \in 0..Len(fs[i].outer) : Out(new, k) = Out(At(cs, c), k)
            BY <3>1, <3>2, <1>1, <1>2
        <3>4. Len(fs[i].outer) < Len(new)
            BY <3>1, <3>2, <1>2
        <3> QED BY <2>1, <3>1, <3>2, <3>3, <3>4, <1>3, OpenInner
    <2>2. CASE fs[i].call # c
        BY <2>2, FrameCall DEF c
    <2> QED BY <2>1, <2>2
<1>8. ASSUME NEW i \in 1..Len(fs2)
      PROVE  i = 1 \/ (i - 1 \in 1..Len(fs) /\ fs2[i] = fs[i - 1])
    <2>1. CASE i # 1
        <3>1. i - 1 \in 1..Len(fs) /\ (i - 1) + 1 = i
            BY <2>1, <1>1, <1>5
        <3> QED BY <3>1, <1>5
    <2> QED BY <2>1
<1>9. ASSUME NEW i \in 1..Len(fs2), NEW j \in 1..Len(fs2), i < j
      PROVE  Inside(fs2[i], fs2[j])
    <2>1. j # 1 /\ j - 1 \in 1..Len(fs) /\ fs2[j] = fs[j - 1]
        BY <1>8, <1>9
    <2>2. CASE i = 1
        BY <2>1, <2>2, <1>4, <1>5, <1>7 DEF Inside
    <2>3. CASE i # 1
        <3>1. i - 1 \in 1..Len(fs) /\ fs2[i] = fs[i - 1] /\ i - 1 < j - 1
            BY <2>3, <1>8, <1>9
        <3> QED BY <2>1, <3>1 DEF Matches
    <2> QED BY <2>2, <2>3
<1>10. ASSUME NEW i \in 1..Len(fs2)
       PROVE  \/ fs2[i].call = c /\ Open(cs2, fs2[i])
              \/ \E j \in 1..Len(fs) : fs2[i] = fs[j] /\ fs[j].call < c
    BY <1>4, <1>5, <1>6, <1>7, <1>8
<1>11. ASSUME NEW j \in 1..Len(fs) PROVE \E i \in 1..Len(fs2) : fs2[i] = fs[j]
    BY <1>1, <1>5
<1>12. ASSUME NEW k \in 0..(Len(new) - 1), Out(new, k) = "try"
       PROVE  Framed(fs2, c, k)
    <2>1. CASE k = Len(old)
        BY <2>1, <1>1, <1>4, <1>5 DEF Framed
    <2>2. CASE k # Len(old)
        <3>1. k \in 0..(Len(old) - 1) /\ Out(old, k) = "try"
            BY <2>2, <1>2, <1>12
        <3>2. Framed(fs, c, k)
            BY <3>1, <1>1 DEF Matches, c
        <3> QED BY <3>2, <1>11 DEF Framed
    <2> QED BY <2>1, <2>2
<1>13. Matches(cs2, fs2)
    BY <1>3, <1>5, <1>9, <1>10, <1>11, <1>12, MatchesOuter
<1> QED BY <1>13 DEF cs2, fs2, f, new, old, c

\* A try ends, because its body has a value or by an exception: the first
\* frame is left, and what was begun since is given up.
LEMMA UnwindMatches ==
    ASSUME NEW cs, NEW fs, Matches(cs, fs), fs # <<>>
    PROVE  Matches(<<Head(fs).outer>> \o SubSeq(cs, Len(cs) - Head(fs).call + 2, Len(cs)),
                   Tail(fs))
<1> DEFINE f == Head(fs)
           c == f.call
           cs2 == <<f.outer>> \o SubSeq(cs, Len(cs) - c + 2, Len(cs))
           fs2 == Tail(fs)
<1>1. /\ Len(fs) \in Nat \ {0} /\ 1 \in 1..Len(fs) /\ f = fs[1]
      /\ fs2 \in Seq(Frame) /\ Len(fs2) = Len(fs) - 1
      /\ \A i \in 1..Len(fs2) : fs2[i] = fs[i + 1]
    BY EmptySeq, HeadTailProperties DEF Matches
<1>2. /\ f \in Frame /\ Open(cs, f) /\ c \in 1..Len(cs) /\ f.outer \in Nest
      /\ Len(f.outer) \in Nat /\ cs \in Seq(Nest)
    <2>1. f \in Frame /\ Open(cs, f) /\ Len(f.outer) \in Nat
        BY <1>1, FrameCall
    <2> QED BY <2>1 DEF Frame, Open, Matches
<1>3. Outer(cs2, cs, c, f.outer)
    BY <1>2, JumpOuter
<1> HIDE DEF f, cs2, fs2
<1>4. ASSUME NEW i \in 1..Len(fs2)
      PROVE  /\ i + 1 \in 1..Len(fs) /\ fs2[i] = fs[i + 1] /\ Inside(f, fs2[i])
             /\ fs2[i] \in Frame /\ Open(cs, fs2[i]) /\ Len(fs2[i].outer) \in Nat
             /\ fs2[i].call \in Nat
    <2>1. i + 1 \in 1..Len(fs) /\ 1 < i + 1 /\ fs2[i] = fs[i + 1]
        BY <1>1
    <2>2. Inside(fs[1], fs[i + 1])
        BY <2>1, <1>1 DEF Matches
    <2> QED BY <2>1, <2>2, <1>1, FrameCall
<1>5. ASSUME NEW i \in 1..Len(fs2), NEW j \in 1..Len(fs2), i < j
      PROVE  Inside(fs2[i], fs2[j])
    <2>1. i + 1 < j + 1
        BY <1>5
    <2> QED BY <2>1, <1>4 DEF Matches
<1>6. ASSUME NEW i \in 1..Len(fs2)
      PROVE  \/ fs2[i].call = c /\ Open(cs2, fs2[i])
             \/ \E j \in 1..Len(fs) : fs2[i] = fs[j] /\ fs[j].call < c
    <2>1. CASE fs2[i].call = c
        <3>1. Len(fs2[i].outer) < Len(f.outer)
            BY <2>1, <1>2, <1>4 DEF Inside
        <3>2. \A k \in 0..(Len(f.outer) - 1) : Out(f.outer, k) = Out(At(cs, c), k)
            BY <1>2 DEF Open
        <3>3. \A k \in 0..Len(fs2[i].outer) : Out(f.outer, k) = Out(At(cs, c), k)
            BY <3>1, <3>2, <1>2, <1>4
        <3> QED BY <2>1, <3>1, <3>3, <1>3, <1>4, OpenInner
    <2>2. CASE fs2[i].call # c
        <3>1. fs2[i].call < c
            BY <2>2, <1>4 DEF Inside
        <3> QED BY <3>1, <1>4
    <2> QED BY <2>1, <2>2
<1>7. ASSUME NEW j \in 1..Len(fs), j # 1
      PROVE  \E i \in 1..Len(fs2) : fs2[i] = fs[j]
    <2>1. j - 1 \in 1..Len(fs2) /\ (j - 1) + 1 = j
        BY <1>1, <1>7
    <2> QED BY <2>1, <1>4
<1>8. \A j \in 1..Len(fs) : fs[j].call < c => \E i \in 1..Len(fs2) : fs2[i] = fs[j]
    BY <1>1, <1>2, <1>7
<1>9. ASSUME NEW k \in 0..(Len(f.outer) - 1), Out(f.outer, k) = "try"
      PROVE  Framed(fs2, c, k)
    <2>1. /\ Out(At(cs, c), k) = "try" /\ Len(f.outer) < Len(At(cs, c))
        BY <1>2, <1>9 DEF Open
    <2>2. Len(At(cs, c)) \in Nat
        <3>1. Len(cs) \in Nat
            BY <1>2, LenProperties
        <3>2. Len(cs) - c + 1 \in 1..Len(cs)
            BY <3>1, <1>2
        <3>3. At(cs, c) \in Nest
            BY <3>2, <1>2, ElementOfSeq DEF At
        <3> QED BY <3>3, LenProperties DEF Nest
    <2>3. k \in 0..(Len(At(cs, c)) - 1)
        BY <2>1, <2>2, <1>2
    <2>4. Framed(fs, c, k)
        BY <2>1, <2>3, <1>2 DEF Matches
    <2>5. PICK j \in 1..Len(fs) : fs[j].call = c /\ Len(fs[j].outer) = k
        BY <2>4 DEF Framed
    <2>6. j # 1
        BY <2>5, <1>1, <1>2, <1>9
    <2> QED BY <2>5, <2>6, <1>7 DEF Framed
<1>10. Matches(cs2, fs2)
    BY <1>1, <1>3, <1>5, <1>6, <1>8, <1>9, MatchesOuter
<1> QED BY <1>10 DEF cs2, fs2, f

-----------------------------------------------------------------------------
\* The bounds, when the innermost call gets something else to be within.
LEMMA StillBounded ==
    ASSUME NEW cs \in Seq(Nest), cs # <<>>, NEW nest \in Nest, Len(nest) <= MaxNest,
           Len(cs) <= MaxCalls, \A i \in 1..Len(cs) : Len(cs[i]) <= MaxNest
    PROVE  LET cs2 == <<nest>> \o Tail(cs)
           IN  /\ cs2 \in Seq(Nest) /\ cs2 # <<>> /\ Len(cs2) <= MaxCalls
               /\ \A i \in 1..Len(cs2) : Len(cs2[i]) <= MaxNest
<1> DEFINE cs2 == <<nest>> \o Tail(cs)
<1>1. /\ Len(cs) \in Nat \ {0} /\ Tail(cs) \in Seq(Nest) /\ Len(Tail(cs)) = Len(cs) - 1
      /\ \A i \in 1..Len(Tail(cs)) : Tail(cs)[i] = cs[i + 1]
    BY EmptySeq, HeadTailProperties
<1>2. /\ cs2 \in Seq(Nest) /\ cs2 # <<>> /\ Len(cs2) = Len(cs) /\ cs2[1] = nest
      /\ \A i \in 1..(Len(cs) - 1) : cs2[i + 1] = cs[i + 1]
    BY <1>1, Cons
<1> HIDE DEF cs2
<1>3. ASSUME NEW i \in 1..Len(cs2) PROVE Len(cs2[i]) <= MaxNest
    <2>1. CASE i = 1
        BY <2>1, <1>2
    <2>2. CASE i # 1
        <3>1. i - 1 \in 1..(Len(cs) - 1) /\ (i - 1) + 1 = i /\ i \in 1..Len(cs)
            BY <2>2, <1>1, <1>2
        <3>2. cs2[(i - 1) + 1] = cs[(i - 1) + 1]
            BY <3>1, <1>2
        <3> QED BY <3>1, <3>2
    <2> QED BY <2>1, <2>2
<1>4. /\ cs2 \in Seq(Nest) /\ cs2 # <<>> /\ Len(cs2) <= MaxCalls
      /\ \A i \in 1..Len(cs2) : Len(cs2[i]) <= MaxNest
    BY <1>2, <1>3
<1> QED BY <1>4 DEF cs2

\* Actions within one call.
LEMMA WithinStep ==
    ASSUME TrywithAssumption, IInv, NEW nest \in Nest, Len(nest) <= MaxNest,
           Within(nest), Matches(calls', frames'), UNCHANGED status
    PROVE  IInv'
<1>1. calls' \in Seq(Nest) /\ calls' # <<>> /\ Bounded'
    BY StillBounded DEF IInv, TypeOK, Bounded, Within
<1>2. frames' \in Seq(Frame)
    BY DEF Matches
<1> QED BY <1>1, <1>2 DEF IInv, TypeOK

LEMMA HereBounded ==
    ASSUME IInv
    PROVE  /\ calls \in Seq(Nest) /\ calls # <<>> /\ Matches(calls, frames)
           /\ Here \in Nest /\ Here = At(calls, Len(calls)) /\ Here = calls[1]
           /\ Len(Here) <= MaxNest /\ Len(Here) \in Nat /\ Len(calls) \in Nat \ {0}
<1>1. calls \in Seq(Nest) /\ calls # <<>> /\ Matches(calls, frames)
    BY DEF IInv, TypeOK
<1>2. /\ Here \in Nest /\ Here = At(calls, Len(calls)) /\ Here = calls[1]
      /\ Len(calls) \in Nat \ {0}
    BY <1>1, HereIs DEF Here
<1>3. Len(Here) <= MaxNest
    BY <1>2 DEF IInv, Bounded
<1> QED BY <1>1, <1>2, <1>3, LenProperties DEF Nest

\* A call within nothing: Within(<<>>) changes nothing.
LEMMA WithinNothing ==
    ASSUME NEW cs \in Seq(Nest), cs # <<>>, Head(cs) = <<>>
    PROVE  << <<>> >> \o Tail(cs) = cs
<1> DEFINE cs2 == << <<>> >> \o Tail(cs)
<1>1. /\ Len(cs) \in Nat \ {0} /\ Tail(cs) \in Seq(Nest) /\ Len(Tail(cs)) = Len(cs) - 1
      /\ \A i \in 1..Len(Tail(cs)) : Tail(cs)[i] = cs[i + 1]
      /\ <<>> \in Nest /\ cs[1] = <<>>
    BY EmptySeq, HeadTailProperties, HereIs
<1>2. /\ cs2 \in Seq(Nest) /\ Len(cs2) = Len(cs) /\ cs2[1] = <<>>
      /\ \A i \in 1..(Len(cs) - 1) : cs2[i + 1] = cs[i + 1]
    BY <1>1, Cons
<1> HIDE DEF cs2
<1>3. ASSUME NEW i \in 1..Len(cs2) PROVE cs2[i] = cs[i]
    <2>1. CASE i = 1
        BY <2>1, <1>1, <1>2
    <2>2. CASE i # 1
        <3>1. i - 1 \in 1..(Len(cs) - 1) /\ (i - 1) + 1 = i
            BY <2>2, <1>1, <1>2
        <3> QED BY <3>1, <1>2
    <2> QED BY <2>1, <2>2
<1>4. cs2 = cs
    BY <1>2, <1>3, SeqEqual
<1> QED BY <1>4 DEF cs2

-----------------------------------------------------------------------------
LEMMA InitIInv == ASSUME TrywithAssumption, Init PROVE IInv
<1>1. <<>> \in Nest /\ Len(<<>>) = 0 /\ <<>> \in Seq(Frame)
    BY EmptySeq DEF Nest
<1>2. calls \in Seq(Nest) /\ Len(calls) = 1 /\ calls[1] = <<>> /\ calls # <<>>
    BY <1>1 DEF Init
<1>3. frames \in Seq(Frame) /\ Len(frames) = 0 /\ status = "running"
    BY <1>1 DEF Init
<1>4. TypeOK
    BY <1>2, <1>3 DEF TypeOK
<1>5. Bounded
    BY <1>1, <1>2 DEF Bounded, TrywithAssumption
<1>6. \A d \in 1..Len(calls) : At(calls, d) = <<>>
    BY <1>2 DEF At
<1>7. Matches(calls, frames)
    BY <1>1, <1>2, <1>3, <1>6 DEF Matches
<1> QED BY <1>4, <1>5, <1>7 DEF IInv

LEMMA CallStep == ASSUME TrywithAssumption, IInv, Call PROVE IInv'
<1>1. calls \in Seq(Nest) /\ Len(calls) \in Nat /\ <<>> \in Nest /\ Len(<<>>) = 0
    BY HereBounded, EmptySeq DEF Nest
<1>2. /\ calls' \in Seq(Nest) /\ Len(calls') = Len(calls) + 1 /\ calls'[1] = <<>>
      /\ calls' # <<>> /\ \A i \in 1..Len(calls) : calls'[i + 1] = calls[i]
    BY <1>1, Cons DEF Call
<1>3. ASSUME NEW i \in 1..Len(calls') PROVE Len(calls'[i]) <= MaxNest
    <2>1. CASE i = 1
        BY <2>1, <1>1, <1>2 DEF TrywithAssumption
    <2>2. CASE i # 1
        <3>1. i - 1 \in 1..Len(calls) /\ (i - 1) + 1 = i
            BY <2>2, <1>1, <1>2
        <3> QED BY <3>1, <1>2 DEF IInv, Bounded
    <2> QED BY <2>1, <2>2
<1>4. Bounded'
    BY <1>1, <1>2, <1>3 DEF Call, Bounded, TrywithAssumption
<1>5. Matches(calls', frames')
    BY HereBounded, CallMatches DEF Call
<1> QED BY <1>2, <1>4, <1>5 DEF IInv, TypeOK, Call, Running, Matches

\* A call that returns is within nothing, so that no frame is lost.
LEMMA ReturnStep == ASSUME TrywithAssumption, IInv, Return PROVE IInv'
<1>1. /\ calls \in Seq(Nest) /\ calls # <<>> /\ Matches(calls, frames)
      /\ At(calls, Len(calls)) = <<>> /\ Len(calls) \in Nat \ {0}
    BY HereBounded DEF Return
<1>2. /\ calls' \in Seq(Nest) /\ calls' # <<>> /\ Len(calls') = Len(calls) - 1
      /\ \A i \in 1..Len(calls') : calls'[i] = calls[i + 1]
    BY <1>1, HeadTailProperties DEF Return
<1>3. ASSUME NEW i \in 1..Len(frames)
      PROVE  frames[i].call < Len(calls) /\ frames[i] \in Frame /\ frames[i].call \in Nat
    <2>1. /\ Open(calls, frames[i]) /\ Len(frames[i].outer) \in Nat /\ frames[i] \in Frame
          /\ frames[i].call \in Nat /\ frames[i].call <= Len(calls)
        BY <1>1, FrameCall
    <2>2. frames[i].call # Len(calls)
        BY <2>1, <1>1, EmptySeq DEF Open
    <2> QED BY <2>1, <2>2, <1>1
<1>4. frames' = frames
    <2>1. frames \in Seq(Frame) /\ DOMAIN frames = 1..Len(frames)
        BY <1>1, LenProperties DEF Matches
    <2>2. \A i \in 1..Len(frames) : Lost(frames[i]) = frames[i]
        BY <1>1, <1>3 DEF Lost
    <2>3. frames' = [i \in 1..Len(frames) |-> frames[i]]
        BY <2>1, <2>2 DEF Return
    <2>4. frames \in [1..Len(frames) -> Frame]
        BY <2>1, LenProperties
    <2> QED BY <2>3, <2>4
<1>5. ASSUME NEW d \in 1..Len(calls')
      PROVE  d \in 1..Len(calls) /\ At(calls', d) = At(calls, d)
    <2>1. /\ d \in 1..Len(calls) /\ Len(calls') - d + 1 \in 1..Len(calls')
          /\ (Len(calls') - d + 1) + 1 = Len(calls) - d + 1
        BY <1>1, <1>2
    <2> QED BY <2>1, <1>2 DEF At
<1>6. ASSUME NEW i \in 1..Len(frames) PROVE Open(calls', frames[i])
    <2>1. Open(calls, frames[i]) /\ frames[i].call \in 1..Len(calls')
        <3>1. Open(calls, frames[i]) /\ frames[i].call \in 1..Len(calls)
            BY <1>1, FrameCall DEF Open
        <3> QED BY <3>1, <1>1, <1>2, <1>3
    <2> QED BY <2>1, <1>5 DEF Open
<1>7. Matches(calls', frames')
    BY <1>1, <1>2, <1>4, <1>5, <1>6 DEF Matches
<1>8. Bounded'
    <2>1. ASSUME NEW i \in 1..Len(calls') PROVE Len(calls'[i]) <= MaxNest
        <3>1. i + 1 \in 1..Len(calls) /\ calls'[i] = calls[i + 1]
            BY <1>1, <1>2
        <3> QED BY <3>1 DEF IInv, Bounded
    <2>2. Len(calls') <= MaxCalls
        BY <1>1, <1>2 DEF IInv, Bounded, TrywithAssumption
    <2> QED BY <2>1, <2>2 DEF Bounded
<1> QED BY <1>2, <1>7, <1>8 DEF IInv, TypeOK, Return, Running, Matches

LEMMA TailCallStep == ASSUME TrywithAssumption, IInv, TailCall PROVE IInv'
<1>1. calls' = calls /\ frames' = frames /\ status' = status
    BY HereBounded, WithinNothing DEF TailCall, Within, Running, Here
<1> QED BY <1>1 DEF IInv, TypeOK, Bounded

LEMMA TryStep == ASSUME TrywithAssumption, IInv, Try PROVE IInv'
<1>1. Matches(calls', frames')
    BY HereBounded, TryMatches DEF Try, Within, Here
<1>2. <<"try">> \o Here \in Nest /\ Len(<<"try">> \o Here) <= MaxNest
    BY HereBounded, Begun DEF Try, TrywithAssumption
<1> QED BY <1>1, <1>2, WithinStep DEF Try, Running

LEMMA LoopStep == ASSUME TrywithAssumption, IInv, Loop PROVE IInv'
<1>1. Matches(calls', frames')
    BY HereBounded, LoopMatches DEF Loop, Within, Here
<1>2. <<"loop">> \o Here \in Nest /\ Len(<<"loop">> \o Here) <= MaxNest
    BY HereBounded, Begun DEF Loop, TrywithAssumption
<1> QED BY <1>1, <1>2, WithinStep DEF Loop, Running

\* What remains when the innermost thing ends.
LEMMA AfterFirst ==
    ASSUME TrywithAssumption, IInv, Here # <<>>
    PROVE  /\ After(2) \in Nest /\ Len(After(2)) <= MaxNest
           /\ Len(After(2)) = Len(Here) - 1 /\ Len(After(2)) \in Nat
           /\ Here[1] = Out(Here, Len(After(2)))
           /\ \A k \in 0..(Len(After(2)) - 1) : Out(After(2), k) = Out(Here, k)
<1>1. /\ After(2) \in Nest /\ Len(After(2)) = Len(Here) - 1 /\ Len(After(2)) \in Nat
      /\ Here[1] = Out(Here, Len(After(2)))
      /\ \A k \in 0..(Len(After(2)) - 1) : Out(After(2), k) = Out(Here, k)
    BY HereBounded, Ended DEF After
<1>2. Len(After(2)) <= MaxNest
    BY <1>1, HereBounded DEF TrywithAssumption
<1> QED BY <1>1, <1>2

LEMMA LoopEndStep == ASSUME TrywithAssumption, IInv, LoopEnd PROVE IInv'
<1>1. Matches(calls', frames')
    BY HereBounded, LoopEndMatches DEF LoopEnd, Within, After, Here
<1> QED BY <1>1, AfterFirst, WithinStep DEF LoopEnd, Running

\* A jump that stays within a try ends the innermost loop or changes nothing.
LEMMA JumpStep ==
    ASSUME TrywithAssumption, ~JumpOut, IInv, NEW k \in 1..MaxNest, Jump(k)
    PROVE  IInv'
<1>1. k = 1 /\ 1 \in DOMAIN Here /\ Here[1] = "loop"
    BY DEF Jump
<1>2. Here \in Nest /\ Here # <<>>
    BY <1>1, HereBounded
<1>3. CASE Within(After(1))
    <2>1. After(1) = Here
        BY <1>2, SubSeqFull DEF After, Nest
    <2>2. calls' = <<Head(calls)>> \o Tail(calls)
        BY <1>3, <2>1 DEF Within, Here
    <2>3. calls' = calls
        BY <2>2, HereBounded
    <2> QED BY <2>3 DEF Jump, Running, IInv, TypeOK, Bounded
<1>4. CASE Within(After(2))
    <2>1. Matches(calls', frames')
        BY <1>1, <1>2, <1>4, HereBounded, LoopEndMatches DEF Jump, Within, After, Here
    <2> QED BY <1>2, <1>4, <2>1, AfterFirst, WithinStep DEF Jump, Running
<1>5. Within(After(1)) \/ Within(After(2))
    BY <1>1 DEF Jump
<1> QED BY <1>3, <1>4, <1>5

-----------------------------------------------------------------------------
\* What surrounds a try is determined from the outside in.
LEMMA OutEqual ==
    ASSUME NEW a \in Nest, NEW b \in Nest, Len(a) = Len(b),
           \A k \in 0..(Len(a) - 1) : Out(a, k) = Out(b, k)
    PROVE  a = b
<1>1. Len(a) \in Nat
    BY LenProperties DEF Nest
<1>2. ASSUME NEW i \in 1..Len(a) PROVE a[i] = b[i]
    <2>1. Len(a) - i \in 0..(Len(a) - 1) /\ Len(a) - (Len(a) - i) = i
        BY <1>1
    <2>2. Out(a, Len(a) - i) = Out(b, Len(a) - i)
        BY <2>1
    <2> QED BY <2>1, <2>2 DEF Out
<1> QED BY <1>2, SeqEqual DEF Nest

\* The first frame, and the calls as Raise and TryEnd leave them.
LEMMA FirstFrame ==
    ASSUME IInv, frames # <<>>
    PROVE  LET f == Head(frames)
           IN  /\ f \in Frame /\ Open(calls, f) /\ f.call \in 1..Len(calls)
               /\ f.outer \in Nest /\ Len(f.outer) \in Nat
               /\ Len(f.outer) < Len(At(calls, f.call))
               /\ At(calls, f.call) \in Nest /\ Len(At(calls, f.call)) <= MaxNest
               /\ Len(At(calls, f.call)) \in Nat
<1> DEFINE f == Head(frames)
<1>1. frames \in Seq(Frame) /\ Matches(calls, frames) /\ calls \in Seq(Nest)
    BY DEF IInv, TypeOK
<1>2. 1 \in 1..Len(frames) /\ f = frames[1]
    BY <1>1, EmptySeq
<1>3. /\ f \in Frame /\ Open(calls, f) /\ f.call \in Nat /\ Len(f.outer) \in Nat
      /\ Len(calls) \in Nat
    BY <1>1, <1>2, FrameCall
<1> HIDE DEF f
<1>4. f.call \in 1..Len(calls) /\ f.outer \in Nest /\ Len(f.outer) < Len(At(calls, f.call))
    BY <1>3 DEF Frame, Open
<1>5. Len(calls) - f.call + 1 \in 1..Len(calls)
    BY <1>3, <1>4
<1>6. At(calls, f.call) \in Nest
    BY <1>1, <1>5, ElementOfSeq DEF At
<1>7. Len(At(calls, f.call)) <= MaxNest /\ Len(At(calls, f.call)) \in Nat
    BY <1>5, <1>6, LenProperties DEF IInv, Bounded, At, Nest
<1> QED BY <1>3, <1>4, <1>6, <1>7 DEF f

\* The first frame is that of the innermost try.
LEMMA FirstInnermost ==
    ASSUME IInv, NEW d \in 1..Len(calls), NEW k \in 0..(Len(At(calls, d)) - 1),
           Out(At(calls, d), k) = "try"
    PROVE  /\ frames # <<>>
           /\ \/ d < Head(frames).call
              \/ d = Head(frames).call /\ k <= Len(Head(frames).outer)
<1>1. Matches(calls, frames) /\ frames \in Seq(Frame)
    BY DEF IInv, TypeOK
<1>2. PICK i \in 1..Len(frames) : frames[i].call = d /\ Len(frames[i].outer) = k
    BY <1>1 DEF Matches, Framed
<1>3. Len(frames) \in Nat /\ frames # <<>> /\ 1 \in 1..Len(frames)
    <2>1. Len(frames) \in Nat
        BY <1>1, LenProperties
    <2> QED BY <2>1, <1>2, EmptySeq
<1>4. Head(frames) = frames[1]
    BY <1>3
<1>5. CASE i = 1
    BY <1>2, <1>3, <1>4, <1>5
<1>6. CASE i # 1
    <2>1. 1 < i
        BY <1>6, <1>3
    <2>2. Inside(frames[1], frames[i])
        BY <2>1, <1>1, <1>3 DEF Matches
    <2>3. Len(frames[1].outer) \in Nat
        BY <1>1, <1>3, FrameCall
    <2> QED BY <2>2, <2>3, <1>2, <1>3, <1>4 DEF Inside
<1> QED BY <1>5, <1>6

\* An exception ends calls and what they are within, but bounds nothing less.
LEMMA RaiseStep == ASSUME TrywithAssumption, IInv, Raise PROVE IInv'
<1> DEFINE f == Head(frames)
           c == f.call
<1>1. /\ f.outer \in Nest /\ Len(f.outer) \in Nat /\ c \in 1..Len(calls)
      /\ Len(f.outer) < Len(At(calls, c)) /\ Len(At(calls, c)) <= MaxNest
      /\ Len(At(calls, c)) \in Nat
    BY FirstFrame DEF Raise
<1>2. /\ calls \in Seq(Nest) /\ Len(calls) \in Nat /\ Matches(calls, frames)
      /\ frames # <<>>
    BY HereBounded DEF Raise
<1>3. calls' = <<f.outer>> \o SubSeq(calls, Len(calls) - c + 2, Len(calls))
    BY DEF Raise
<1>4. Matches(calls', frames')
    BY <1>2, UnwindMatches DEF Raise
<1> HIDE DEF f
<1>5. Outer(calls', calls, c, f.outer)
    BY <1>1, <1>2, <1>3, JumpOuter
<1> HIDE DEF c
<1>6. ASSUME NEW i \in 1..Len(calls') PROVE Len(calls'[i]) <= MaxNest
    <2>1. c \in Nat /\ c - i + 1 \in 1..c /\ Len(calls') = c
        BY <1>1, <1>2, <1>5 DEF Outer
    <2>2. calls'[i] = At(calls', c - i + 1)
        <3>1. c - (c - i + 1) + 1 = i
            BY <2>1
        <3> QED BY <2>1, <3>1 DEF At
    <2>3. CASE i = 1
        <3>1. c - i + 1 = c
            BY <2>1, <2>3
        <3>2. calls'[i] = f.outer
            BY <2>2, <3>1, <1>5 DEF Outer
        <3> QED BY <3>2, <1>1 DEF TrywithAssumption
    <2>4. CASE i # 1
        <3>1. c - i + 1 \in 1..(c - 1) /\ Len(calls) - (c - i + 1) + 1 \in 1..Len(calls)
            BY <2>1, <2>4, <1>1, <1>2
        <3>2. calls'[i] = At(calls, c - i + 1)
            BY <2>2, <3>1, <1>5 DEF Outer
        <3>3. calls'[i] = calls[Len(calls) - (c - i + 1) + 1]
            BY <3>2 DEF At
        <3> QED BY <3>1, <3>3 DEF IInv, Bounded
    <2> QED BY <2>3, <2>4
<1>7. calls' \in Seq(Nest) /\ Len(calls') = c /\ c \in Nat \ {0}
    BY <1>5 DEF Outer
<1>8. calls' # <<>>
    BY <1>7, EmptySeq
<1>9. Bounded'
    BY <1>1, <1>2, <1>6, <1>7 DEF IInv, Bounded, TrywithAssumption
<1> QED BY <1>4, <1>7, <1>8, <1>9 DEF IInv, TypeOK, Raise, Running, Matches

\* The try whose body has a value is the innermost one.
LEMMA TryEndStep == ASSUME TrywithAssumption, IInv, TryEnd PROVE IInv'
<1> DEFINE f == Head(frames)
           n == Len(After(2))
           L == Len(calls)
<1>1. /\ calls \in Seq(Nest) /\ calls # <<>> /\ Matches(calls, frames)
      /\ Here = At(calls, L) /\ Here \in Nest /\ L \in Nat \ {0} /\ Len(Here) \in Nat
    BY HereBounded
<1>2. /\ After(2) \in Nest /\ n = Len(Here) - 1 /\ n \in Nat /\ Here[1] = Out(Here, n)
      /\ \A k \in 0..(n - 1) : Out(After(2), k) = Out(Here, k)
    BY AfterFirst DEF TryEnd
<1>3. n \in 0..(Len(At(calls, L)) - 1) /\ Out(At(calls, L), n) = "try" /\ L \in 1..L
    BY <1>1, <1>2 DEF TryEnd
<1>4. frames # <<>> /\ (L < f.call \/ (L = f.call /\ n <= Len(f.outer)))
    BY <1>3, FirstInnermost
<1>5. /\ f.call \in 1..L /\ f.outer \in Nest /\ Len(f.outer) \in Nat /\ Open(calls, f)
      /\ Len(f.outer) < Len(At(calls, f.call))
    BY <1>4, FirstFrame
<1> HIDE DEF f, n, L
<1>6. f.call = L /\ Len(f.outer) = n
    BY <1>1, <1>2, <1>4, <1>5
<1>7. f.outer = After(2)
    <2>1. \A k \in 0..(n - 1) : Out(f.outer, k) = Out(Here, k)
        BY <1>1, <1>5, <1>6 DEF Open
    <2> QED BY <2>1, <1>2, <1>5, <1>6, OutEqual DEF n
<1>8. Tail(calls) = SubSeq(calls, L - f.call + 2, L)
    <2>1. L - f.call + 2 = 2
        BY <1>1, <1>6
    <2> QED BY <2>1, <1>1, TailIsSubSeq DEF L
<1>9. Matches(calls', frames')
    <2>1. Matches(<<f.outer>> \o SubSeq(calls, L - f.call + 2, L), Tail(frames))
        BY <1>1, <1>4, UnwindMatches DEF f, L
    <2> QED BY <2>1, <1>7, <1>8 DEF TryEnd, Within
<1> QED BY <1>9, AfterFirst, WithinStep DEF TryEnd, Running

LEMMA NextIInv == ASSUME TrywithAssumption, ~JumpOut, IInv, [Next]_vars PROVE IInv'
<1>1. CASE UNCHANGED vars
    BY <1>1 DEF vars, IInv, TypeOK, Bounded
<1>2. CASE RaiseWild
    BY <1>2 DEF RaiseWild, IInv, TypeOK, Bounded
<1>3. CASE RaiseUncaught
    BY <1>3 DEF RaiseUncaught, IInv, TypeOK, Bounded
<1> QED BY <1>1, <1>2, <1>3, CallStep, ReturnStep, TailCallStep, TryStep, TryEndStep,
           LoopStep, LoopEndStep, JumpStep, RaiseStep DEF Next

-----------------------------------------------------------------------------
\* The trys that are being evaluated, counted from the outside.
LEMMA TryingIs ==
    ASSUME IInv, NEW t \in Trying
    PROVE  /\ t[1] \in 1..Len(calls) /\ t[2] \in 1..Len(calls[t[1]])
           /\ Len(calls) \in Nat /\ Len(calls[t[1]]) \in Nat
           /\ Len(calls) - t[1] + 1 \in 1..Len(calls)
           /\ At(calls, Len(calls) - t[1] + 1) = calls[t[1]]
           /\ Len(calls[t[1]]) - t[2] \in 0..(Len(calls[t[1]]) - 1)
           /\ Out(calls[t[1]], Len(calls[t[1]]) - t[2]) = "try"
<1>1. calls \in Seq(Nest) /\ Len(calls) \in Nat /\ DOMAIN calls = 1..Len(calls)
    BY HereBounded, LenProperties
<1>2. /\ t[1] \in 1..Len(calls) /\ t[2] \in DOMAIN calls[t[1]]
      /\ calls[t[1]][t[2]] = "try"
    <2>1. /\ t \in (DOMAIN calls) \X (1..MaxNest) /\ t[2] \in DOMAIN calls[t[1]]
          /\ calls[t[1]][t[2]] = "try"
        BY DEF Trying
    <2>2. t[1] \in DOMAIN calls
        BY <2>1
    <2> QED BY <2>1, <2>2, <1>1
<1>3. calls[t[1]] \in Nest
    BY <1>1, <1>2, ElementOfSeq
<1>4. Len(calls[t[1]]) \in Nat /\ DOMAIN calls[t[1]] = 1..Len(calls[t[1]])
    BY <1>3, LenProperties DEF Nest
<1>5. /\ Len(calls) - t[1] + 1 \in 1..Len(calls)
      /\ Len(calls) - (Len(calls) - t[1] + 1) + 1 = t[1]
    BY <1>1, <1>2
<1>6. /\ t[2] \in 1..Len(calls[t[1]])
      /\ Len(calls[t[1]]) - t[2] \in 0..(Len(calls[t[1]]) - 1)
      /\ Len(calls[t[1]]) - (Len(calls[t[1]]) - t[2]) = t[2]
    <2>1. t[2] \in 1..Len(calls[t[1]])
        BY <1>2, <1>4
    <2> QED BY <2>1, <1>4
<1> QED BY <1>1, <1>2, <1>4, <1>5, <1>6 DEF At, Out

\* While a try is being evaluated, there is a frame.
LEMMA TryingFramed == ASSUME IInv, frames = <<>> PROVE Trying = {}
<1> SUFFICES ASSUME NEW t \in Trying PROVE FALSE
    OBVIOUS
<1> QED BY TryingIs, FirstInnermost

\* The exception is handled where the language says.
LEMMA RaiseHandled == ASSUME TrywithAssumption, IInv, Raise PROVE Handled
<1> DEFINE f == Head(frames)
           c == f.call
           p == Len(calls) - c + 1
           nest == calls[p]
           k == Len(nest) - Len(f.outer)
           t == <<p, k>>
<1>1. frames # <<>> /\ calls \in Seq(Nest) /\ Len(calls) \in Nat
    BY HereBounded DEF Raise
<1>2. /\ Open(calls, f) /\ c \in 1..Len(calls) /\ f.outer \in Nest
      /\ Len(f.outer) \in Nat /\ nest = At(calls, c) /\ Len(f.outer) < Len(nest)
      /\ nest \in Nest /\ Len(nest) <= MaxNest /\ Len(nest) \in Nat
    BY <1>1, FirstFrame DEF At
<1>3. calls' = <<f.outer>> \o SubSeq(calls, Len(calls) - c + 2, Len(calls))
    BY DEF Raise
<1>4. status' = "running"
    BY DEF Raise, Running
<1>5. p \in 1..Len(calls) /\ Len(calls) - c + 2 = p + 1 /\ Len(calls) - p + 1 = c
    BY SMTT(30), <1>1, <1>2
<1>6. k \in 1..Len(nest) /\ k \in 1..MaxNest /\ Len(nest) - k = Len(f.outer)
    <2> HIDE DEF f, c, p, nest
    <2>1. MaxNest \in Nat
        BY DEF TrywithAssumption
    <2> QED BY <2>1, <1>2
<1> HIDE DEF f, c, p, nest, k
<1>7. nest[k] = "try"
    <2>1. nest[Len(nest) - Len(f.outer)] = "try"
        BY <1>2 DEF Open, Out, c
    <2> QED BY <2>1 DEF k
<1>8. t \in Trying
    <2>1. DOMAIN calls = 1..Len(calls) /\ DOMAIN nest = 1..Len(nest)
        BY <1>1, <1>2, LenProperties DEF Nest
    <2>2. t[1] = p /\ t[2] = k /\ calls[t[1]] = nest
        BY DEF nest
    <2>3. t \in (DOMAIN calls) \X (1..MaxNest)
        BY <2>1, <1>5, <1>6
    <2>4. t[2] \in DOMAIN calls[t[1]] /\ calls[t[1]][t[2]] = "try"
        BY <2>1, <2>2, <1>6, <1>7
    <2> HIDE DEF t
    <2> QED BY <2>3, <2>4 DEF Trying
<1>9. Innermost(t)
    <2> SUFFICES ASSUME NEW s \in Trying
                 PROVE  p < s[1] \/ (p = s[1] /\ k <= s[2])
        BY DEF Innermost
    <2> DEFINE d == Len(calls) - s[1] + 1
               j == Len(calls[s[1]]) - s[2]
    <2>1. /\ s[1] \in 1..Len(calls) /\ s[2] \in 1..Len(calls[s[1]])
          /\ Len(calls[s[1]]) \in Nat /\ d \in 1..Len(calls)
          /\ At(calls, d) = calls[s[1]]
          /\ j \in 0..(Len(At(calls, d)) - 1) /\ Out(At(calls, d), j) = "try"
        BY TryingIs
    <2>2. d < c \/ (d = c /\ j <= Len(f.outer))
        BY <2>1, FirstInnermost DEF f, c
    <2>3. CASE d < c
        BY SMTT(30), <2>1, <2>3, <1>1, <1>2, <1>5
    <2>4. CASE d = c /\ j <= Len(f.outer)
        <3>1. p = s[1]
            BY SMTT(30), <2>1, <2>4, <1>1, <1>2, <1>5
        <3>2. calls[s[1]] = nest
            BY <3>1 DEF nest
        <3>3. k <= s[2]
            BY <3>2, <2>1, <2>4, <1>2, <1>6
        <3> QED BY <3>1, <3>3
    <2> QED BY <2>2, <2>3, <2>4
<1>10. SubSeq(nest, k + 1, Len(nest)) = f.outer
    <2> DEFINE r == SubSeq(nest, k + 1, Len(nest))
    <2>1. k + 1 \in 1..(Len(nest) + 1) /\ Len(nest) - (k + 1) + 1 = Len(f.outer)
        BY <1>2, <1>6
    <2>2. /\ r \in Nest /\ Len(r) = Len(f.outer)
          /\ \A i \in 1..Len(f.outer) : r[i] = nest[i + (k + 1) - 1]
        BY <2>1, <1>2, Rest DEF Nest
    <2> HIDE DEF r
    <2>3. ASSUME NEW i \in 0..(Len(r) - 1) PROVE Out(r, i) = Out(f.outer, i)
        <3>1. Len(r) - i \in 1..Len(f.outer) /\ (Len(r) - i) + (k + 1) - 1 = Len(nest) - i
            BY <2>2, <1>2, <1>6
        <3>2. Out(r, i) = Out(nest, i)
            BY <3>1, <2>2 DEF Out
        <3>3. Out(f.outer, i) = Out(nest, i)
            BY <2>2, <1>2 DEF Open, c
        <3> QED BY <3>2, <3>3
    <2>4. r = f.outer
        BY <2>2, <2>3, <1>2, OutEqual
    <2> QED BY <2>4 DEF r
<1>11. calls' = <<SubSeq(calls[t[1]], t[2] + 1, Len(calls[t[1]]))>>
                   \o SubSeq(calls, t[1] + 1, Len(calls))
    <2>1. t[1] = p /\ t[2] = k /\ calls[p] = nest
        BY DEF nest
    <2> QED BY <2>1, <1>3, <1>5, <1>10
<1> HIDE DEF t
<1> QED BY <1>4, <1>8, <1>9, <1>11 DEF Handled

LEMMA StepHandled ==
    ASSUME TrywithAssumption, IInv, Raise \/ RaiseWild \/ RaiseUncaught
    PROVE  Handled
<1>1. CASE Raise
    BY <1>1, RaiseHandled
<1>2. CASE RaiseWild
    <2>1. frames # <<>> /\ Head(frames).call > Len(calls)
        BY <1>2 DEF RaiseWild
    <2>2. Head(frames).call \in 1..Len(calls) /\ Len(calls) \in Nat
        BY <2>1, FirstFrame, HereBounded
    <2> QED BY <2>1, <2>2
<1>3. CASE RaiseUncaught
    BY <1>3, TryingFramed DEF RaiseUncaught, Handled
<1> QED BY <1>1, <1>2, <1>3

-----------------------------------------------------------------------------
(* The list of frames is the list of the trys that are being evaluated: no *)
(* frame outlives its try, and no call loses one.                          *)
THEOREM FramesMatchTrys ==
    ASSUME TrywithAssumption, ~JumpOut PROVE Spec => []Matches(calls, frames)
<1>1. Init => IInv
    BY InitIInv
<1>2. IInv /\ [Next]_vars => IInv'
    BY NextIInv
<1>3. IInv => Matches(calls, frames)
    BY DEF IInv
<1> QED BY <1>1, <1>2, <1>3, PTL DEF Spec

(* A raised exception goes to the innermost try, over any nesting of calls, *)
(* tail calls, trys, re-raises and loops, and without one ends the program. *)
THEOREM HandledInnermostHolds ==
    ASSUME TrywithAssumption, ~JumpOut PROVE Spec => HandledInnermost
<1>1. Init => IInv
    BY InitIInv
<1>2. IInv /\ [Next]_vars => IInv'
    BY NextIInv
<1>3. IInv /\ [Next]_vars => [Raise \/ RaiseWild \/ RaiseUncaught => Handled]_vars
    BY StepHandled
<1> QED BY <1>1, <1>2, <1>3, PTL DEF Spec, HandledInnermost
=============================================================================
