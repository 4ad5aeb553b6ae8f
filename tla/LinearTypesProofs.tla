-------------------------- MODULE LinearTypesProofs --------------------------
(***************************************************************************)
(* Types, Untouched and, in the second part, Sound of LinearTypes.         *)
(*                                                                         *)
(* The checker's stacks have their tops in front, so that an index says    *)
(* nothing over time.  The proofs see them from the outermost element on   *)
(* (Flip): a step then changes only the end of a stack, but for marks.     *)
(* The invariant (Shape) gives each construct a height T[d], the number of *)
(* scopes and markers up to its own; what the construct will find when the *)
(* translation comes back to it depends only on what is below.             *)
(***************************************************************************)
EXTENDS LinearTypes, FiniteSetTheorems, SequenceTheorems, WellFoundedInduction,
        TLAPS

-----------------------------------------------------------------------------
(* Every nonempty set of natural numbers has a least element.              *)

Less == {ss \in Nat \X Nat : ss[1] < ss[2]}

\* The library's well-founded order on Nat, as a set of pairs.
LEMMA LessWellFounded == IsWellFoundedOn(Less, Nat)
<1>1. OpToRel(<, Nat) = Less
    BY DEF Less, OpToRel
<1> QED BY <1>1, NatLessThanWellFounded

\* A search that has a hit has a first one.
LEMMA HasLeast ==
    ASSUME NEW T, T \subseteq Nat, T # {}
    PROVE  \E x \in T : \A y \in T : x <= y
<1>1. PICK x \in T : \A y \in T : ~ (<<y, x>> \in Less)
    BY LessWellFounded, WFMin
<1>2. ASSUME NEW y \in T PROVE x <= y
    <2>1. x \in Nat /\ y \in Nat
        OBVIOUS
    <2>2. y < x => <<y, x>> \in Less
        BY <2>1 DEF Less
    <2> QED BY <1>1, <2>1, <2>2
<1> QED BY <1>2

\* A stack in the order in which it grew: its outermost element is the first.
Flip(s) == [d \in 1..Len(s) |-> s[Len(s) + 1 - d]]

\* The scopes and markers with the scope that is being filled.
EnvOf(S, ss) == Flip(<<LD2VSset(S)>> \o ss)

-----------------------------------------------------------------------------
(* Stacks.                                                                 *)

\* A stack with something new on it.
LEMMA Cons ==
    ASSUME NEW S, NEW x \in S, NEW s \in Seq(S)
    PROVE  /\ <<x>> \o s \in Seq(S)
           /\ Len(<<x>> \o s) = Len(s) + 1 /\ Len(s) \in Nat
           /\ (<<x>> \o s)[1] = x
           /\ \A i \in 1..Len(s) : (<<x>> \o s)[i + 1] = s[i]
<1>1. <<x>> \in Seq(S) /\ Len(<<x>>) = 1 /\ <<x>>[1] = x
    OBVIOUS
<1>2. Len(s) \in Nat
    BY LenProperties
<1>3. /\ <<x>> \o s \in Seq(S) /\ Len(<<x>> \o s) = Len(s) + 1
      /\ \A i \in 1..(1 + Len(s)) :
            (<<x>> \o s)[i] = IF i <= 1 THEN <<x>>[i] ELSE s[i - 1]
    BY <1>1, ConcatProperties
<1>4. \A i \in 1..Len(s) : (<<x>> \o s)[i + 1] = s[i]
    BY <1>2, <1>3
<1> QED BY <1>1, <1>2, <1>3, <1>4

\* The view of a stack with something new on it: the new element is its last.
LEMMA FlipCons ==
    ASSUME NEW S, NEW x \in S, NEW s \in Seq(S)
    PROVE  /\ <<x>> \o s \in Seq(S) /\ Len(s) \in Nat /\ Len(<<x>> \o s) = Len(s) + 1
           /\ \A d \in 1..Len(s) : Flip(<<x>> \o s)[d] = Flip(s)[d]
           /\ Flip(<<x>> \o s)[Len(s) + 1] = x
<1> DEFINE r == <<x>> \o s
<1>1. /\ r \in Seq(S) /\ Len(r) = Len(s) + 1 /\ Len(s) \in Nat /\ r[1] = x
      /\ \A i \in 1..Len(s) : r[i + 1] = s[i]
    BY Cons
<1> HIDE DEF r
<1>2. ASSUME NEW d \in 1..Len(s) PROVE Flip(r)[d] = Flip(s)[d]
    <2>1. Len(s) + 1 - d \in 1..Len(s) /\ d \in 1..Len(r)
        BY <1>1
    <2>2. Len(r) + 1 - d = (Len(s) + 1 - d) + 1
        BY <1>1
    <2>3. r[(Len(s) + 1 - d) + 1] = s[Len(s) + 1 - d]
        BY <2>1, <1>1
    <2> QED BY <2>1, <2>2, <2>3 DEF Flip
<1>3. Flip(r)[Len(s) + 1] = x
    BY <1>1 DEF Flip
<1> QED BY <1>1, <1>2, <1>3 DEF r

\* The view of a stack that has lost its top.
LEMMA FlipTail ==
    ASSUME NEW S, NEW s \in Seq(S), s # <<>>
    PROVE  /\ Tail(s) \in Seq(S) /\ Len(s) \in Nat \ {0} /\ Len(Tail(s)) = Len(s) - 1
           /\ \A d \in 1..(Len(s) - 1) : Flip(Tail(s))[d] = Flip(s)[d]
           /\ Flip(s)[Len(s)] = Head(s) /\ Head(s) \in S
<1>1. /\ Len(s) \in Nat \ {0} /\ Tail(s) \in Seq(S) /\ Len(Tail(s)) = Len(s) - 1
      /\ \A i \in 1..Len(Tail(s)) : Tail(s)[i] = s[i + 1]
      /\ Head(s) = s[1] /\ Head(s) \in S
    BY EmptySeq, HeadTailProperties
<1>2. ASSUME NEW d \in 1..(Len(s) - 1) PROVE Flip(Tail(s))[d] = Flip(s)[d]
    <2>1. Len(Tail(s)) + 1 - d \in 1..Len(Tail(s)) /\ d \in 1..Len(s) /\ d \in 1..Len(Tail(s))
        BY <1>1
    <2>2. (Len(Tail(s)) + 1 - d) + 1 = Len(s) + 1 - d
        BY <1>1
    <2>3. Tail(s)[Len(Tail(s)) + 1 - d] = s[Len(s) + 1 - d]
        BY <2>1, <2>2, <1>1
    <2> QED BY <2>1, <2>3 DEF Flip
<1>3. Flip(s)[Len(s)] = s[1]
    BY <1>1 DEF Flip
<1> QED BY <1>1, <1>2, <1>3

\* The top is replaced.
LEMMA FlipBecome ==
    ASSUME NEW S, NEW s \in Seq(S), s # <<>>, NEW x \in S
    PROVE  /\ <<x>> \o Tail(s) \in Seq(S) /\ Len(<<x>> \o Tail(s)) = Len(s)
           /\ Len(s) \in Nat \ {0}
           /\ \A d \in 1..(Len(s) - 1) : Flip(<<x>> \o Tail(s))[d] = Flip(s)[d]
           /\ Flip(<<x>> \o Tail(s))[Len(s)] = x
<1> DEFINE t == Tail(s)
           r == <<x>> \o t
<1>1. /\ t \in Seq(S) /\ Len(s) \in Nat \ {0} /\ Len(t) = Len(s) - 1
      /\ \A d \in 1..(Len(s) - 1) : Flip(t)[d] = Flip(s)[d]
    BY FlipTail
<1> HIDE DEF t
<1>2. /\ r \in Seq(S) /\ Len(r) = Len(t) + 1
      /\ \A d \in 1..Len(t) : Flip(r)[d] = Flip(t)[d]
      /\ Flip(r)[Len(t) + 1] = x
    BY <1>1, FlipCons
<1> HIDE DEF r
<1>3. Len(t) + 1 = Len(s)
    BY <1>1
<1>4. r \in Seq(S) /\ Len(r) = Len(s) /\ Flip(r)[Len(s)] = x
    BY <1>2, <1>3
<1>5. \A d \in 1..(Len(s) - 1) : Flip(r)[d] = Flip(s)[d]
    BY <1>1, <1>2
<1> QED BY <1>1, <1>4, <1>5 DEF r, t

\* The view reads every element of the stack.
LEMMA FlipReads ==
    ASSUME NEW S, NEW s \in Seq(S)
    PROVE  /\ Len(s) \in Nat
           /\ \A d \in 1..Len(s) : Flip(s)[d] \in S /\ Flip(s)[d] = s[Len(s) + 1 - d]
           /\ \A i \in 1..Len(s) : Len(s) + 1 - i \in 1..Len(s) /\ s[i] = Flip(s)[Len(s) + 1 - i]
<1>1. Len(s) \in Nat /\ \A i \in 1..Len(s) : s[i] \in S
    BY LenProperties, ElementOfSeq
<1>2. ASSUME NEW d \in 1..Len(s)
      PROVE  Flip(s)[d] \in S /\ Flip(s)[d] = s[Len(s) + 1 - d]
    <2>1. Len(s) + 1 - d \in 1..Len(s)
        BY <1>1
    <2> QED BY <2>1, <1>1 DEF Flip
<1>3. ASSUME NEW i \in 1..Len(s)
      PROVE  Len(s) + 1 - i \in 1..Len(s) /\ s[i] = Flip(s)[Len(s) + 1 - i]
    <2>1. Len(s) + 1 - i \in 1..Len(s) /\ Len(s) + 1 - (Len(s) + 1 - i) = i
        BY <1>1
    <2> QED BY <2>1 DEF Flip
<1> QED BY <1>1, <1>2, <1>3

\* One element is replaced.
Put(r, s, i, x) == r = [s EXCEPT ![i] = x]

\* The view of a stack in which one element is replaced.
LEMMA FlipPut ==
    ASSUME NEW S, NEW s \in Seq(S), NEW i, i \in 1..Len(s), NEW x \in S,
           NEW r, Put(r, s, i, x)
    PROVE  /\ r \in Seq(S) /\ Len(r) = Len(s) /\ Len(s) \in Nat
           /\ \A d \in 1..Len(s) : d # Len(s) + 1 - i => Flip(r)[d] = Flip(s)[d]
           /\ Flip(r)[Len(s) + 1 - i] = x
<1>1. Len(s) \in Nat /\ s \in [1..Len(s) -> S]
    BY LenProperties
<1>2. r \in Seq(S) /\ Len(r) = Len(s)
    BY ExceptSeq DEF Put
<1>3. r[i] = x /\ \A j \in 1..Len(s) : j # i => r[j] = s[j]
    BY <1>1 DEF Put
<1>4. ASSUME NEW d \in 1..Len(s), d # Len(s) + 1 - i PROVE Flip(r)[d] = Flip(s)[d]
    <2>1. Len(s) + 1 - d \in 1..Len(s) /\ Len(s) + 1 - d # i
        BY <1>1, <1>4
    <2> QED BY <2>1, <1>2, <1>3 DEF Flip
<1>5. Flip(r)[Len(s) + 1 - i] = x
    <2>1. Len(s) + 1 - i \in 1..Len(s) /\ Len(s) + 1 - (Len(s) + 1 - i) = i
        BY <1>1
    <2> QED BY <2>1, <1>2, <1>3 DEF Flip
<1> QED BY <1>1, <1>2, <1>4, <1>5

-----------------------------------------------------------------------------
(* How many functions and loops there are among the first d constructs F.  *)

\* The constructs that have an entry in the_lamlplst.
Listed == {"lam", "llam", "loop"}
Held(F, d) == {e \in 1..d : F[e].kind \in Listed}
Count(F, d) == Cardinality(Held(F, d))

\* The count is a natural number, and is 0 where there are no such constructs.
LEMMA CountFacts ==
    ASSUME NEW F, NEW d \in Nat
    PROVE  /\ IsFiniteSet(Held(F, d)) /\ Count(F, d) \in Nat
           /\ Count(F, 0) = 0
           /\ Count(F, d) = 0 => \A e \in 1..d : F[e].kind \notin Listed
<1>1. IsFiniteSet(1..d)
    BY FS_Interval
<1>2. IsFiniteSet(Held(F, d))
    BY <1>1, FS_Subset DEF Held
<1>3. Held(F, 0) = {}
    BY DEF Held
<1>4. Cardinality({}) = 0 /\ (Count(F, d) = 0 <=> Held(F, d) = {})
    BY <1>2, FS_EmptySet DEF Count
<1>5. Count(F, d) \in Nat
    BY <1>2, FS_CardinalityType DEF Count
<1>6. Held(F, d) = {} => \A e \in 1..d : F[e].kind \notin Listed
    BY DEF Held
<1> QED BY <1>2, <1>3, <1>4, <1>5, <1>6 DEF Count

\* One more construct counts if it is a function or a loop.
LEMMA CountNext ==
    ASSUME NEW F, NEW d \in Nat
    PROVE  Count(F, d + 1) = IF F[d + 1].kind \in Listed THEN Count(F, d) + 1
                             ELSE Count(F, d)
<1>1. IsFiniteSet(Held(F, d))
    BY CountFacts
<1>2. d + 1 \notin Held(F, d)
    BY DEF Held
<1>3. CASE F[d + 1].kind \in Listed
    <2>1. Held(F, d + 1) = Held(F, d) \cup {d + 1}
        BY <1>3 DEF Held
    <2> QED BY <2>1, <1>1, <1>2, <1>3, FS_AddElement DEF Count
<1>4. CASE F[d + 1].kind \notin Listed
    <2>1. Held(F, d + 1) = Held(F, d)
        BY <1>4 DEF Held
    <2> QED BY <2>1, <1>4 DEF Count
<1> QED BY <1>3, <1>4

\* Only the kinds of the constructs count.
LEMMA CountSame ==
    ASSUME NEW F, NEW G, NEW d \in Nat,
           \A e \in 1..d : G[e].kind \in Listed <=> F[e].kind \in Listed
    PROVE  Count(G, d) = Count(F, d)
<1>1. Held(G, d) = Held(F, d)
    BY DEF Held
<1> QED BY <1>1 DEF Count

\* The constructs further in only add to the count.
LEMMA CountGrows ==
    ASSUME NEW F, NEW d \in Nat, NEW e \in 0..d
    PROVE  Count(F, e) <= Count(F, d)
<1>1. IsFiniteSet(Held(F, d))
    BY CountFacts
<1>2. Held(F, e) \in SUBSET Held(F, d)
    BY DEF Held
<1> QED BY <1>1, <1>2, FS_Subset DEF Count

\* TypeOK counts the frames from the innermost one.
LEMMA CountFlip ==
    ASSUME NEW S, NEW s \in Seq(S)
    PROVE  Cardinality({i \in DOMAIN s : s[i].kind \in {"lam", "llam", "loop"}})
             = Count(Flip(s), Len(s))
<1> DEFINE A == {i \in DOMAIN s : s[i].kind \in {"lam", "llam", "loop"}}
           B == Held(Flip(s), Len(s))
           f == [d \in B |-> Len(s) + 1 - d]
<1>1. Len(s) \in Nat /\ DOMAIN s = 1..Len(s)
    BY LenProperties
<1>2. \A d \in 1..Len(s) : Flip(s)[d] = s[Len(s) + 1 - d]
    BY DEF Flip
<1>3. ASSUME NEW d \in B PROVE Len(s) + 1 - d \in A
    <2>1. d \in 1..Len(s) /\ Flip(s)[d].kind \in Listed
        BY DEF Held
    <2>2. Len(s) + 1 - d \in 1..Len(s) /\ s[Len(s) + 1 - d].kind \in Listed
        BY <2>1, <1>1, <1>2
    <2> QED BY <2>2, <1>1 DEF Listed
<1>4. ASSUME NEW i \in A PROVE Len(s) + 1 - i \in B /\ Len(s) + 1 - (Len(s) + 1 - i) = i
    <2>1. i \in 1..Len(s) /\ s[i].kind \in Listed
        BY <1>1 DEF Listed
    <2>2. Len(s) + 1 - i \in 1..Len(s) /\ Len(s) + 1 - (Len(s) + 1 - i) = i
        BY <2>1, <1>1
    <2>3. Flip(s)[Len(s) + 1 - i] = s[i]
        BY <2>2, <1>2
    <2> QED BY <2>1, <2>2, <2>3 DEF Held
<1>5. \A d \in B : d \in Nat
    BY DEF Held
<1> HIDE DEF A, B
<1>6. f \in [B -> A]
    BY <1>3
<1>7. \A d, e \in B : f[d] = f[e] => d = e
    BY <1>1, <1>5
<1>8. \A i \in A : \E d \in B : f[d] = i
    BY <1>4
<1>9. f \in Bijection(B, A)
    <2>1. f \in Injection(B, A)
        BY <1>6, <1>7 DEF Injection, IsInjective
    <2>2. f \in Surjection(B, A)
        BY <1>6, <1>8 DEF Surjection
    <2> QED BY <2>1, <2>2 DEF Bijection
<1>10. ExistsBijection(B, A)
    BY <1>9 DEF ExistsBijection
<1>11. IsFiniteSet(B)
    BY <1>1, CountFacts DEF B
<1>12. Cardinality(A) = Cardinality(B)
    BY <1>10, <1>11, FS_Bijection
<1> QED BY <1>12 DEF A, B, Count

-----------------------------------------------------------------------------
(* Types.                                                                  *)

\* The elements of the checker's stacks.
Elem == [node : {"set", "lam"}, lin : {0, 1}, d2vs : SUBSET Var]
Entry == [kind : {"lam", "loop1"}, lsbis : Lsbis]
Context == [kind : Kind, lsbis : Lsbis, saits : Seq(Store),
            wait : Run, done : Run, outer : SUBSET Var]

\* Stores remain stores when they are restricted, chosen from or assigned to.
LEMMA Stores ==
    /\ Nothing \in Store /\ Gone \in Lsbis /\ Away \in Run
    /\ \A s \in Run : \A S : Without(s, S) \in Run
    /\ \A s \in Store : \A S : Without(s, S) \in Store
    /\ \A s1, s2 \in Run : Either(s1, s2) \in Run
    /\ \A s \in Store, v \in Var, t \in Maybe : [s EXCEPT ![v] = t] \in Store
<1>1. Nothing \in Store /\ Away \in Run
    BY DEF Nothing, Store, Maybe, Run
<1>2. Gone \in Lsbis
    <2>1. Gone \in [{} -> Maybe] /\ {} \in SUBSET Var
        BY DEF Gone
    <2> QED BY <2>1 DEF Lsbis
<1>3. ASSUME NEW s \in Run, NEW S PROVE Without(s, S) \in Run
    BY DEF Run, Without, Store, Maybe
<1>4. ASSUME NEW s \in Store, NEW S PROVE Without(s, S) \in Store
    BY DEF Without, Store, Maybe
<1>5. \A s1, s2 \in Run : Either(s1, s2) \in Run
    BY DEF Either
<1>6. \A s \in Store, v \in Var, t \in Maybe : [s EXCEPT ![v] = t] \in Store
    BY DEF Store
<1> QED BY <1>1, <1>2, <1>3, <1>4, <1>5, <1>6

\* What a search finds is in scope, and is a variable.
LEMMA Scopes ==
    ASSUME TypeOK
    PROVE  Visible \subseteq Var /\ Local \subseteq Visible
<1>1. \A i \in DOMAIN the_ld2vss : the_ld2vss[i].d2vs \subseteq Var
    <2>1. the_ld2vss \in Seq(Elem)
        BY DEF TypeOK, Elem
    <2>2. DOMAIN the_ld2vss = 1..Len(the_ld2vss)
        BY <2>1, LenProperties
    <2>3. \A i \in 1..Len(the_ld2vss) : the_ld2vss[i] \in Elem
        BY <2>1, ElementOfSeq
    <2> QED BY <2>2, <2>3 DEF Elem
<1>2. Sets \subseteq DOMAIN the_ld2vss
    BY DEF Sets
<1>3. Visible \subseteq Var
    BY <1>1, <1>2 DEF Visible, TypeOK
<1>4. Local \subseteq Visible
    BY DEF Visible, Local
<1> QED BY <1>3, <1>4

\* What is saved is typed, and so is what is restored.
LEMMA Saved ==
    ASSUME TypeOK
    PROVE  /\ save_lstbefitmlst \in Lsbis
           /\ \A R : lsbis1(R) \in Lsbis
           /\ \A l \in Lsbis : restore_type(l) \in Store
<1>1. Local \in SUBSET Var
    BY Scopes
<1>2. save_lstbefitmlst \in [Local -> Maybe]
    BY <1>1 DEF save_lstbefitmlst, TypeOK, Store
<1>3. \A R : lsbis1(R) \in [Local -> Maybe]
    BY <1>1 DEF lsbis1, TypeOK, Store
<1>4. ASSUME NEW l \in Lsbis PROVE restore_type(l) \in Store
    <2>1. PICK S \in SUBSET Var : l \in [S -> Maybe]
        BY DEF Lsbis
    <2> QED BY <2>1 DEF restore_type, TypeOK, Store
<1> QED BY <1>1, <1>2, <1>3, <1>4 DEF Lsbis

\* Marks change neither the types nor the number of the elements.
LEMMA MarkedTyped ==
    ASSUME TypeOK, NEW v \in Var
    PROVE  Marked(v) \in Seq(Elem) /\ Len(Marked(v)) = Len(the_ld2vss)
<1>1. the_ld2vss \in Seq(Elem)
    BY DEF TypeOK, Elem
<1>2. /\ DOMAIN the_ld2vss = 1..Len(the_ld2vss) /\ Len(the_ld2vss) \in Nat
      /\ \A i \in 1..Len(the_ld2vss) : the_ld2vss[i] \in Elem
    BY <1>1, LenProperties, ElementOfSeq
<1>3. \A e \in Elem : [e EXCEPT !.d2vs = @ \cup {v}] \in Elem
    BY DEF Elem
<1>4. Marked(v) \in [1..Len(the_ld2vss) -> Elem]
    BY <1>2, <1>3 DEF Marked
<1>5. Marked(v) \in Seq(Elem)
    BY <1>2, <1>4, SeqDef
<1>6. DOMAIN Marked(v) = 1..Len(the_ld2vss) /\ DOMAIN Marked(v) = 1..Len(Marked(v)) /\ Len(Marked(v)) \in Nat
    BY <1>4, <1>5, LenProperties
<1> QED BY <1>2, <1>5, <1>6

\* The nearest frame of one of the kinds, if there is one in the function.
LEMMA NearestFacts ==
    ASSUME NEW K, DOMAIN ctrl \subseteq Nat
    PROVE  \/ /\ Nearest(K) = 0
              /\ ~ \E i \in DOMAIN ctrl : /\ ctrl[i].kind \in K
                                          /\ \A j \in 1..i : ctrl[j].kind \notin {"lam", "llam"}
           \/ /\ Nearest(K) \in DOMAIN ctrl /\ ctrl[Nearest(K)].kind \in K
              /\ \A j \in 1..Nearest(K) : ctrl[j].kind \notin {"lam", "llam"}
              /\ \A i \in DOMAIN ctrl :
                    /\ ctrl[i].kind \in K
                    /\ \A j \in 1..i : ctrl[j].kind \notin {"lam", "llam"}
                    => Nearest(K) <= i
<1> DEFINE hits == {i \in DOMAIN ctrl :
                      /\ ctrl[i].kind \in K
                      /\ \A j \in 1..i : ctrl[j].kind \notin {"lam", "llam"}}
<1>1. Nearest(K) = IF hits = {} THEN 0 ELSE CHOOSE i \in hits : \A j \in hits : i <= j
    BY DEF Nearest
<1>2. hits \subseteq Nat
    OBVIOUS
<1>3. CASE hits = {}
    BY <1>1, <1>3
<1>4. CASE hits # {}
    <2>1. \E i \in hits : \A j \in hits : i <= j
        BY <1>2, <1>4, HasLeast
    <2> HIDE DEF hits
    <2>2. Nearest(K) \in hits /\ \A j \in hits : Nearest(K) <= j
        BY <2>1, <1>1, <1>4
    <2> QED BY <2>2 DEF hits
<1> QED BY <1>3, <1>4

\* The store of one frame is replaced.
PutDone(r, cs, k, x) ==
    (k \in 1..Len(cs) => x \in Run) /\ r = [cs EXCEPT ![k].done = x]

\* The frames, seen from the outermost one, when one of them gets a new store.
LEMMA DoneTyped ==
    ASSUME NEW cs \in Seq(Context), NEW k, NEW x, NEW r, PutDone(r, cs, k, x)
    PROVE  /\ r \in Seq(Context) /\ Len(r) = Len(cs) /\ Len(cs) \in Nat
           /\ \A d \in 1..Len(cs) :
                 Flip(r)[d] = IF d = Len(cs) + 1 - k /\ k \in 1..Len(cs)
                              THEN [Flip(cs)[d] EXCEPT !.done = x] ELSE Flip(cs)[d]
<1>1. Len(cs) \in Nat /\ cs \in [1..Len(cs) -> Context] /\ DOMAIN cs = 1..Len(cs)
    BY LenProperties
<1>2. CASE k \in 1..Len(cs)
    <2>1. cs[k] \in Context /\ [cs[k] EXCEPT !.done = x] \in Context
        BY <1>1, <1>2 DEF Context, PutDone
    <2> DEFINE y == [cs[k] EXCEPT !.done = x]
    <2>2. Put(r, cs, k, y)
        BY <1>1, <1>2 DEF Put, PutDone
    <2> HIDE DEF y
    <2>3. /\ r \in Seq(Context) /\ Len(r) = Len(cs)
          /\ \A d \in 1..Len(cs) : d # Len(cs) + 1 - k => Flip(r)[d] = Flip(cs)[d]
          /\ Flip(r)[Len(cs) + 1 - k] = y
        <3>1. y \in Context
            BY <2>1 DEF y
        <3>2. cs \in Seq(Context) /\ k \in 1..Len(cs) /\ Len(cs) \in Nat
            BY <1>1, <1>2
        <3>3. r \in Seq(Context) /\ Len(r) = Len(cs)
            BY <3>1, <3>2, <2>2, FlipPut
        <3>4. \A d \in 1..Len(cs) : d # Len(cs) + 1 - k => Flip(r)[d] = Flip(cs)[d]
            BY <3>1, <3>2, <2>2, FlipPut
        <3>5. Flip(r)[Len(cs) + 1 - k] = y
            BY <3>1, <3>2, <2>2, FlipPut
        <3> QED BY <3>3, <3>4, <3>5
    <2>4. cs[k] = Flip(cs)[Len(cs) + 1 - k]
        BY <1>2, FlipReads
    <2> QED BY <2>3, <2>4, <1>1, <1>2 DEF y
<1>3. CASE k \notin 1..Len(cs)
    <2>1. r = cs
        BY <1>1, <1>3 DEF PutDone
    <2> QED BY <2>1, <1>1, <1>3
<1> QED BY <1>2, <1>3

-----------------------------------------------------------------------------
(* The scopes in the order in which they were pushed.                      *)

\* What is pushed are elements of the list of scopes.
LEMMA Elems ==
    ASSUME NEW S \in SUBSET Var, NEW lin \in {0, 1}
    PROVE  LD2VSset(S) \in Elem /\ LD2VSlam(lin) \in Elem
BY DEF LD2VSset, LD2VSlam, Elem

\* The scope that is being filled is the highest of the view.
LEMMA EnvTop ==
    ASSUME NEW S \in SUBSET Var, NEW ss \in Seq(Elem)
    PROVE  /\ \A p \in 1..Len(ss) : EnvOf(S, ss)[p] = Flip(ss)[p]
           /\ EnvOf(S, ss)[Len(ss) + 1] = LD2VSset(S)
<1> DEFINE x == LD2VSset(S)
<1>1. x \in Elem
    BY Elems
<1> HIDE DEF x
<1>2. /\ \A d \in 1..Len(ss) : Flip(<<x>> \o ss)[d] = Flip(ss)[d]
      /\ Flip(<<x>> \o ss)[Len(ss) + 1] = x
    BY <1>1, FlipCons
<1> QED BY <1>2 DEF EnvOf, x

\* The view reads all scopes and markers of the checker's list.
LEMMA EnvReads ==
    ASSUME NEW S \in SUBSET Var, NEW ss \in Seq(Elem)
    PROVE  /\ Len(ss) \in Nat
           /\ EnvOf(S, ss)[Len(ss) + 1] = LD2VSset(S)
           /\ \A p \in 1..Len(ss) : EnvOf(S, ss)[p] = ss[Len(ss) + 1 - p]
           /\ \A p \in 1..(Len(ss) + 1) : EnvOf(S, ss)[p] \in Elem
           /\ \A i \in 1..Len(ss) :
                 Len(ss) + 1 - i \in 1..Len(ss) /\ ss[i] = EnvOf(S, ss)[Len(ss) + 1 - i]
<1> DEFINE E == EnvOf(S, ss)
<1>1. LD2VSset(S) \in Elem
    BY Elems
<1>2. /\ Len(ss) \in Nat
      /\ \A p \in 1..Len(ss) : E[p] = Flip(ss)[p]
      /\ E[Len(ss) + 1] = LD2VSset(S)
    BY <1>1, FlipCons DEF EnvOf
<1>3. /\ \A p \in 1..Len(ss) : Flip(ss)[p] \in Elem /\ Flip(ss)[p] = ss[Len(ss) + 1 - p]
      /\ \A i \in 1..Len(ss) : Len(ss) + 1 - i \in 1..Len(ss) /\ ss[i] = Flip(ss)[Len(ss) + 1 - i]
    BY FlipReads
<1> HIDE DEF E
<1>4. \A p \in 1..(Len(ss) + 1) : p \in 1..Len(ss) \/ p = Len(ss) + 1
    BY <1>2
<1>5. \A p \in 1..(Len(ss) + 1) : E[p] \in Elem
    BY <1>1, <1>2, <1>3, <1>4
<1> QED BY <1>2, <1>3, <1>5 DEF E

\* What push, push_lam and pop do to the scopes.
Pushed(S2, ss2, S, ss) ==
    S \in SUBSET Var /\ S2 \in SUBSET Var /\ ss \in Seq(Elem) /\ ss2 = <<LD2VSset(S)>> \o ss

\* A scope is pushed: the view grows by one, and keeps what it had.
LEMMA PushView ==
    ASSUME NEW S, NEW ss, NEW S2, NEW ss2, Pushed(S2, ss2, S, ss)
    PROVE  /\ ss2 \in Seq(Elem) /\ Len(ss2) = Len(ss) + 1
           /\ \A p \in 1..(Len(ss) + 1) : EnvOf(S2, ss2)[p] = EnvOf(S, ss)[p]
           /\ EnvOf(S2, ss2)[Len(ss) + 2] = LD2VSset(S2)
<1> USE DEF Pushed
<1>1. LD2VSset(S) \in Elem /\ LD2VSset(S2) \in Elem
    BY Elems
<1>2. ss2 \in Seq(Elem) /\ Len(ss) \in Nat /\ Len(ss2) = Len(ss) + 1
    BY <1>1, FlipCons
<1>3. /\ \A p \in 1..Len(ss2) : EnvOf(S2, ss2)[p] = Flip(ss2)[p]
      /\ EnvOf(S2, ss2)[Len(ss2) + 1] = LD2VSset(S2)
    BY <1>2, EnvTop
<1>4. EnvOf(S, ss) = Flip(ss2)
    BY DEF EnvOf
<1>5. Len(ss2) + 1 = Len(ss) + 2
    BY <1>2
<1> QED BY <1>2, <1>3, <1>4, <1>5

PushedLam(S2, ss2, lin, S, ss) ==
    /\ S \in SUBSET Var /\ S2 \in SUBSET Var /\ lin \in {0, 1} /\ ss \in Seq(Elem)
    /\ ss2 = <<LD2VSlam(lin), LD2VSset(S)>> \o ss

\* A marker and a scope are pushed: the view grows by two.
LEMMA PushLamView ==
    ASSUME NEW S, NEW ss, NEW S2, NEW lin, NEW ss2, PushedLam(S2, ss2, lin, S, ss)
    PROVE  /\ ss2 \in Seq(Elem) /\ Len(ss2) = Len(ss) + 2
           /\ \A p \in 1..(Len(ss) + 1) : EnvOf(S2, ss2)[p] = EnvOf(S, ss)[p]
           /\ EnvOf(S2, ss2)[Len(ss) + 2] = LD2VSlam(lin)
           /\ EnvOf(S2, ss2)[Len(ss) + 3] = LD2VSset(S2)
<1> USE DEF PushedLam
<1> DEFINE a == LD2VSlam(lin)
           b == LD2VSset(S)
<1>1. a \in Elem /\ b \in Elem /\ LD2VSset(S2) \in Elem
    BY Elems
<1> HIDE DEF a, b
<1> DEFINE s1 == <<b>> \o ss
<1>2. s1 \in Seq(Elem) /\ Len(ss) \in Nat /\ Len(s1) = Len(ss) + 1
    BY <1>1, FlipCons
<1>3. ss2 = <<a>> \o s1
    <2>1. <<a, b>> = <<a>> \o <<b>>
        <3>1. /\ <<a>> \in Seq(Elem) /\ <<b>> \in Seq(Elem) /\ <<a, b>> \in Seq(Elem)
              /\ Len(<<a>>) = 1 /\ Len(<<b>>) = 1 /\ Len(<<a, b>>) = 2
              /\ <<a>>[1] = a /\ <<b>>[1] = b /\ <<a, b>>[1] = a /\ <<a, b>>[2] = b
            BY <1>1
        <3> DEFINE c == <<a>> \o <<b>>
        <3>2. c \in Seq(Elem) /\ Len(c) = 2 /\ c[1] = a /\ c[2] = b
            BY <3>1, ConcatProperties
        <3> HIDE DEF c
        <3>3. c = <<a, b>>
            BY <3>1, <3>2, SeqEqual
        <3> QED BY <3>3 DEF c
    <2>2. <<a>> \in Seq(Elem) /\ <<b>> \in Seq(Elem)
        BY <1>1
    <2>3. (<<a>> \o <<b>>) \o ss = <<a>> \o (<<b>> \o ss)
        BY <2>2, ConcatAssociative
    <2> QED BY <2>1, <2>3 DEF a, b
<1> HIDE DEF s1
<1>4. /\ ss2 \in Seq(Elem) /\ Len(ss2) = Len(s1) + 1
      /\ \A p \in 1..Len(s1) : Flip(ss2)[p] = Flip(s1)[p]
      /\ Flip(ss2)[Len(s1) + 1] = a
    <2>1. /\ <<a>> \o s1 \in Seq(Elem) /\ Len(<<a>> \o s1) = Len(s1) + 1
          /\ \A p \in 1..Len(s1) : Flip(<<a>> \o s1)[p] = Flip(s1)[p]
          /\ Flip(<<a>> \o s1)[Len(s1) + 1] = a
        BY <1>1, <1>2, FlipCons
    <2> QED BY <2>1, <1>3
<1>5. /\ \A p \in 1..Len(ss2) : EnvOf(S2, ss2)[p] = Flip(ss2)[p]
      /\ EnvOf(S2, ss2)[Len(ss2) + 1] = LD2VSset(S2)
    BY <1>4, EnvTop
<1>6. EnvOf(S, ss) = Flip(s1)
    BY DEF EnvOf, s1, b
<1>7. /\ Len(s1) + 1 = Len(ss) + 2 /\ Len(ss2) = Len(ss) + 2 /\ Len(ss2) + 1 = Len(ss) + 3
      /\ Len(s1) = Len(ss) + 1 /\ Len(ss) + 2 \in 1..Len(ss2)
      /\ \A p \in 1..(Len(ss) + 1) : p \in 1..Len(s1) /\ p \in 1..Len(ss2)
    BY <1>2, <1>4
<1> QED BY <1>4, <1>5, <1>6, <1>7 DEF a

Popped(S2, ss2, k, S, ss) ==
    /\ S \in SUBSET Var /\ ss \in Seq(Elem) /\ k \in 1..Len(ss)
    /\ ss[k].node = "set" /\ ss[k].lin = 1
    /\ ss2 = SubSeq(ss, k + 1, Len(ss)) /\ S2 = ss[k].d2vs

\* A scope is popped, and the markers within it: the view loses its upper part.
LEMMA PopView ==
    ASSUME NEW S, NEW ss, NEW k, NEW S2, NEW ss2, Popped(S2, ss2, k, S, ss)
    PROVE  /\ ss2 \in Seq(Elem) /\ Len(ss2) = Len(ss) - k /\ S2 \in SUBSET Var
           /\ \A p \in 1..(Len(ss) - k + 1) : EnvOf(S2, ss2)[p] = EnvOf(S, ss)[p]
<1> USE DEF Popped
<1>1. Len(ss) \in Nat /\ \A i \in 1..Len(ss) : ss[i] \in Elem
    BY LenProperties, ElementOfSeq
<1>2. ss[k] \in Elem
    BY <1>1
<1>3. S2 \in SUBSET Var /\ ss[k] = LD2VSset(S2)
    BY <1>2 DEF Elem, LD2VSset
<1>4. /\ ss2 \in Seq(Elem) /\ Len(ss2) = Len(ss) - k
      /\ \A i \in 1..(Len(ss) - k) : ss2[i] = ss[k + i]
    <2> DEFINE a == k + 1
    <2>1. a \in Int /\ Len(ss) \in Int /\ \A i \in a..Len(ss) : ss[i] \in Elem
        BY <1>1
    <2> HIDE DEF a
    <2>2. /\ SubSeq(ss, a, Len(ss)) \in Seq(Elem)
          /\ Len(SubSeq(ss, a, Len(ss))) = IF a <= Len(ss) THEN Len(ss) - a + 1 ELSE 0
          /\ \A i \in 1..(Len(ss) - a + 1) : SubSeq(ss, a, Len(ss))[i] = ss[a + i - 1]
        BY <2>1, SubSeqProperties
    <2>3. ss2 = SubSeq(ss, a, Len(ss))
        BY DEF a
    <2>4. /\ ss2 \in Seq(Elem)
          /\ Len(ss2) = IF a <= Len(ss) THEN Len(ss) - a + 1 ELSE 0
          /\ \A i \in 1..(Len(ss) - a + 1) : ss2[i] = ss[a + i - 1]
        BY <2>2, <2>3
    <2>5. a = k + 1
        BY DEF a
    <2>6. Len(ss2) = Len(ss) - k
        BY <2>4, <2>5, <1>1
    <2>7. \A i \in 1..(Len(ss) - k) : i \in 1..(Len(ss) - a + 1) /\ a + i - 1 = k + i
        BY <2>5, <1>1
    <2> QED BY <2>4, <2>6, <2>7
<1>5. /\ EnvOf(S2, ss2)[Len(ss2) + 1] = LD2VSset(S2)
      /\ \A p \in 1..Len(ss2) : EnvOf(S2, ss2)[p] = ss2[Len(ss2) + 1 - p]
    BY <1>3, <1>4, EnvReads
<1>6. \A p \in 1..Len(ss) : EnvOf(S, ss)[p] = ss[Len(ss) + 1 - p]
    BY EnvReads
<1>7. ASSUME NEW p \in 1..(Len(ss) - k + 1) PROVE EnvOf(S2, ss2)[p] = EnvOf(S, ss)[p]
    <2>1. CASE p = Len(ss) - k + 1
        <3>1. p = Len(ss2) + 1 /\ p \in 1..Len(ss) /\ Len(ss) + 1 - p = k
            BY <2>1, <1>1, <1>4
        <3> QED BY <3>1, <1>3, <1>5, <1>6
    <2>2. CASE p # Len(ss) - k + 1
        <3>1. /\ p \in 1..Len(ss2) /\ p \in 1..Len(ss)
              /\ Len(ss2) + 1 - p \in 1..(Len(ss) - k)
              /\ k + (Len(ss2) + 1 - p) = Len(ss) + 1 - p
            <4>1. Len(ss) \in Nat /\ Len(ss2) = Len(ss) - k /\ k \in Nat /\ 1 <= k /\ k <= Len(ss)
                BY <1>1, <1>4
            <4>2. p \in 1..(Len(ss) - k)
                BY <2>2, <4>1
            <4> HIDE DEF Popped
            <4> QED BY <4>1, <4>2
        <3>2. ss2[Len(ss2) + 1 - p] = ss[k + (Len(ss2) + 1 - p)]
            BY <3>1, <1>4
        <3> QED BY <3>1, <3>2, <1>5, <1>6
    <2> QED BY <2>1, <2>2
<1> QED BY <1>3, <1>4, <1>7

-----------------------------------------------------------------------------
(* Type correctness.                                                       *)

\* What TypeOK says, in terms of the sets of this module.
LEMMA TypeParts ==
    ASSUME TypeOK
    PROVE  /\ d2var_type \in Store /\ mastype \in Store /\ finknd \in Store
           /\ the_ld2vs \in SUBSET Var /\ the_ld2vss \in Seq(Elem)
           /\ the_lamlplst \in Seq(Entry) /\ ctrl \in Seq(Context)
           /\ Len(the_lamlplst) = Count(Flip(ctrl), Len(ctrl))
           /\ err \in BOOLEAN /\ run \in Run /\ bad \in BOOLEAN
<1>1. ctrl \in Seq(Context)
    BY DEF TypeOK, Context
<1>2. Cardinality({i \in DOMAIN ctrl : ctrl[i].kind \in {"lam", "llam", "loop"}})
        = Count(Flip(ctrl), Len(ctrl))
    BY <1>1, CountFlip
<1> QED BY <1>1, <1>2 DEF TypeOK, Elem, Entry

\* What a step has to show for TypeOK.
LEMMA TypeNext ==
    ASSUME d2var_type' \in Store, mastype' \in Store, finknd' \in Store,
           the_ld2vs' \in SUBSET Var, the_ld2vss' \in Seq(Elem),
           the_lamlplst' \in Seq(Entry), ctrl' \in Seq(Context),
           Len(the_lamlplst') = Count(Flip(ctrl'), Len(ctrl')),
           err' \in BOOLEAN, run' \in Run, bad' \in BOOLEAN
    PROVE  TypeOK'
<1>1. Cardinality({i \in DOMAIN ctrl' : ctrl'[i].kind \in {"lam", "llam", "loop"}})
        = Count(Flip(ctrl'), Len(ctrl'))
    BY CountFlip
<1> QED BY <1>1 DEF TypeOK, Elem, Entry, Context

\* A construct that begins has a frame of the right type.
LEMMA FrameTyped ==
    ASSUME TypeOK, NEW kind \in Kind, NEW lsbis \in Lsbis, NEW wait \in Run, NEW done \in Run
    PROVE  Frame(kind, lsbis, wait, done) \in Context
<1>1. Visible \subseteq Var /\ <<>> \in Seq(Store)
    BY Scopes
<1> QED BY <1>1 DEF Frame, Context

\* A construct begins, with its entry in the list of functions and loops.
LEMMA Enters ==
    ASSUME TypeOK, NEW kind \in Kind, NEW lsbis \in Lsbis, NEW wait \in Run, NEW done \in Run,
           Enter(kind, lsbis, wait, done),
           \/ kind \notin Listed /\ the_lamlplst' = the_lamlplst
           \/ kind \in Listed /\ \E e \in Entry : the_lamlplst' = <<e>> \o the_lamlplst
    PROVE  /\ ctrl' \in Seq(Context) /\ Len(ctrl) \in Nat /\ Len(ctrl') = Len(ctrl) + 1
           /\ \A d \in 1..Len(ctrl) : Flip(ctrl')[d] = Flip(ctrl)[d]
           /\ Flip(ctrl')[Len(ctrl) + 1] = Frame(kind, lsbis, wait, done)
           /\ the_lamlplst' \in Seq(Entry)
           /\ Len(the_lamlplst') = Count(Flip(ctrl'), Len(ctrl'))
<1> DEFINE f == Frame(kind, lsbis, wait, done)
<1>1. f \in Context /\ f.kind = kind
    BY FrameTyped DEF Frame
<1>2. ctrl \in Seq(Context) /\ the_lamlplst \in Seq(Entry) /\ Len(the_lamlplst) = Count(Flip(ctrl), Len(ctrl))
    BY TypeParts
<1>3. ctrl' = <<f>> \o ctrl
    BY DEF Enter
<1> HIDE DEF f
<1>4. /\ ctrl' \in Seq(Context) /\ Len(ctrl) \in Nat /\ Len(ctrl') = Len(ctrl) + 1
      /\ \A d \in 1..Len(ctrl) : Flip(ctrl')[d] = Flip(ctrl)[d]
      /\ Flip(ctrl')[Len(ctrl) + 1] = f
    BY <1>1, <1>2, <1>3, FlipCons
<1>5. Count(Flip(ctrl'), Len(ctrl)) = Count(Flip(ctrl), Len(ctrl))
    BY <1>4, CountSame
<1>6. Count(Flip(ctrl'), Len(ctrl) + 1) = IF kind \in Listed THEN Count(Flip(ctrl), Len(ctrl)) + 1
                                          ELSE Count(Flip(ctrl), Len(ctrl))
    BY <1>1, <1>4, <1>5, CountNext
<1>7. the_lamlplst' \in Seq(Entry) /\ Len(the_lamlplst') = Count(Flip(ctrl'), Len(ctrl'))
    <2>1. CASE kind \notin Listed /\ the_lamlplst' = the_lamlplst
        BY <2>1, <1>2, <1>4, <1>6
    <2>2. CASE kind \in Listed /\ \E e \in Entry : the_lamlplst' = <<e>> \o the_lamlplst
        <3>1. PICK e \in Entry : the_lamlplst' = <<e>> \o the_lamlplst
            BY <2>2
        <3>2. the_lamlplst' \in Seq(Entry) /\ Len(the_lamlplst') = Len(the_lamlplst) + 1
            BY <3>1, <1>2, Cons
        <3> QED BY <2>2, <3>2, <1>2, <1>4, <1>6
    <2> QED BY <2>1, <2>2
<1> QED BY <1>4, <1>7 DEF f

\* The innermost construct.
LEMMA Innermost ==
    ASSUME TypeOK, ctrl # <<>>
    PROVE  /\ Len(ctrl) \in Nat \ {0} /\ top \in Context
           /\ top = Flip(ctrl)[Len(ctrl)]
           /\ top.kind \in Kind /\ top.lsbis \in Lsbis /\ top.saits \in Seq(Store)
           /\ top.wait \in Run /\ top.done \in Run
           /\ top.kind \in Listed => the_lamlplst # <<>>
<1>1. ctrl \in Seq(Context) /\ the_lamlplst \in Seq(Entry) /\ Len(the_lamlplst) = Count(Flip(ctrl), Len(ctrl))
    BY TypeParts
<1>2. Len(ctrl) \in Nat \ {0} /\ top \in Context /\ top = Flip(ctrl)[Len(ctrl)]
    BY <1>1, FlipTail DEF top
<1>3. ASSUME top.kind \in Listed PROVE the_lamlplst # <<>>
    <2>1. Count(Flip(ctrl), Len(ctrl)) # 0
        BY <1>2, <1>3, CountFacts
    <2> QED BY <2>1, <1>1, EmptySeq
<1> QED BY <1>2, <1>3 DEF Context

\* It ends.
LEMMA Leaves ==
    ASSUME TypeOK, ctrl # <<>>, Leave,
           \/ top.kind \notin Listed /\ the_lamlplst' = the_lamlplst
           \/ top.kind \in Listed /\ the_lamlplst' = Tail(the_lamlplst)
    PROVE  /\ ctrl' \in Seq(Context) /\ Len(ctrl) \in Nat \ {0} /\ Len(ctrl') = Len(ctrl) - 1
           /\ \A d \in 1..(Len(ctrl) - 1) : Flip(ctrl')[d] = Flip(ctrl)[d]
           /\ the_lamlplst' \in Seq(Entry)
           /\ Len(the_lamlplst') = Count(Flip(ctrl'), Len(ctrl'))
<1>1. ctrl \in Seq(Context) /\ the_lamlplst \in Seq(Entry) /\ Len(the_lamlplst) = Count(Flip(ctrl), Len(ctrl))
    BY TypeParts
<1>2. /\ ctrl' \in Seq(Context) /\ Len(ctrl) \in Nat \ {0} /\ Len(ctrl') = Len(ctrl) - 1
      /\ \A d \in 1..(Len(ctrl) - 1) : Flip(ctrl')[d] = Flip(ctrl)[d]
      /\ top = Flip(ctrl)[Len(ctrl)]
    BY <1>1, FlipTail DEF Leave, top
<1> DEFINE m == Len(ctrl) - 1
<1>3. m \in Nat /\ m + 1 = Len(ctrl)
    BY <1>2
<1>4. Count(Flip(ctrl'), m) = Count(Flip(ctrl), m) /\ Count(Flip(ctrl), m) \in Nat
    BY <1>2, <1>3, CountSame, CountFacts
<1>5. Count(Flip(ctrl), m + 1) = IF Flip(ctrl)[m + 1].kind \in Listed THEN Count(Flip(ctrl), m) + 1
                                 ELSE Count(Flip(ctrl), m)
    BY <1>3, CountNext
<1>6. Len(ctrl') = m
    BY <1>2
<1> HIDE DEF m
<1>7. Len(the_lamlplst) = IF top.kind \in Listed THEN Count(Flip(ctrl), m) + 1
                          ELSE Count(Flip(ctrl), m)
    BY <1>1, <1>2, <1>3, <1>5
<1>8. the_lamlplst' \in Seq(Entry) /\ Len(the_lamlplst') = Count(Flip(ctrl), m)
    <2>1. CASE top.kind \notin Listed /\ the_lamlplst' = the_lamlplst
        BY <2>1, <1>1, <1>7
    <2>2. CASE top.kind \in Listed /\ the_lamlplst' = Tail(the_lamlplst)
        <3>1. the_lamlplst # <<>>
            BY <2>2, Innermost
        <3>2. /\ Tail(the_lamlplst) \in Seq(Entry)
              /\ Len(Tail(the_lamlplst)) = Len(the_lamlplst) - 1
            BY <3>1, <1>1, HeadTailProperties
        <3> QED BY <2>2, <3>2, <1>4, <1>7
    <2> QED BY <2>1, <2>2
<1> QED BY <1>2, <1>4, <1>6, <1>8

\* It goes on as another one.
LEMMA Becomes ==
    ASSUME TypeOK, ctrl # <<>>, NEW f \in Context, Become(f),
           \/ (f.kind \in Listed <=> top.kind \in Listed) /\ the_lamlplst' = the_lamlplst
           \/ /\ f.kind \in Listed /\ top.kind \notin Listed
              /\ \E e \in Entry : the_lamlplst' = <<e>> \o the_lamlplst
    PROVE  /\ ctrl' \in Seq(Context) /\ Len(ctrl) \in Nat \ {0} /\ Len(ctrl') = Len(ctrl)
           /\ \A d \in 1..(Len(ctrl) - 1) : Flip(ctrl')[d] = Flip(ctrl)[d]
           /\ Flip(ctrl')[Len(ctrl)] = f
           /\ the_lamlplst' \in Seq(Entry)
           /\ Len(the_lamlplst') = Count(Flip(ctrl'), Len(ctrl'))
<1>1. /\ ctrl \in Seq(Context) /\ the_lamlplst \in Seq(Entry)
      /\ Len(the_lamlplst) = Count(Flip(ctrl), Len(ctrl))
      /\ top = Flip(ctrl)[Len(ctrl)]
    BY TypeParts, Innermost
<1>2. /\ ctrl' \in Seq(Context) /\ Len(ctrl) \in Nat \ {0} /\ Len(ctrl') = Len(ctrl)
      /\ \A d \in 1..(Len(ctrl) - 1) : Flip(ctrl')[d] = Flip(ctrl)[d]
      /\ Flip(ctrl')[Len(ctrl)] = f
    BY <1>1, FlipBecome DEF Become
<1> DEFINE m == Len(ctrl) - 1
<1>3. m \in Nat /\ m + 1 = Len(ctrl)
    BY <1>2
<1>4. Count(Flip(ctrl'), m) = Count(Flip(ctrl), m) /\ Count(Flip(ctrl), m) \in Nat
    BY <1>2, <1>3, CountSame, CountFacts
<1>5. /\ Count(Flip(ctrl), m + 1) = IF Flip(ctrl)[m + 1].kind \in Listed THEN Count(Flip(ctrl), m) + 1
                                    ELSE Count(Flip(ctrl), m)
      /\ Count(Flip(ctrl'), m + 1) = IF Flip(ctrl')[m + 1].kind \in Listed THEN Count(Flip(ctrl'), m) + 1
                                     ELSE Count(Flip(ctrl'), m)
    BY <1>3, CountNext
<1> HIDE DEF m
<1>6. /\ Len(the_lamlplst) = IF top.kind \in Listed THEN Count(Flip(ctrl), m) + 1
                             ELSE Count(Flip(ctrl), m)
      /\ Count(Flip(ctrl'), Len(ctrl')) = IF f.kind \in Listed THEN Count(Flip(ctrl), m) + 1
                                          ELSE Count(Flip(ctrl), m)
    BY <1>1, <1>2, <1>3, <1>4, <1>5
<1>7. the_lamlplst' \in Seq(Entry) /\ Len(the_lamlplst') = Count(Flip(ctrl'), Len(ctrl'))
    <2>1. CASE (f.kind \in Listed <=> top.kind \in Listed) /\ the_lamlplst' = the_lamlplst
        BY <2>1, <1>1, <1>6
    <2>2. CASE /\ f.kind \in Listed /\ top.kind \notin Listed
               /\ \E e \in Entry : the_lamlplst' = <<e>> \o the_lamlplst
        <3>1. PICK e \in Entry : the_lamlplst' = <<e>> \o the_lamlplst
            BY <2>2
        <3>2. the_lamlplst' \in Seq(Entry) /\ Len(the_lamlplst') = Len(the_lamlplst) + 1
            BY <3>1, <1>1, Cons
        <3> QED BY <2>2, <3>2, <1>6
    <2> QED BY <2>1, <2>2
<1> QED BY <1>2, <1>7

\* What pop leaves has the right types.
LEMMA Pops ==
    ASSUME TypeOK, pop
    PROVE  the_ld2vs' \in SUBSET Var /\ the_ld2vss' \in Seq(Elem)
<1>1. PICK k \in Sets : /\ the_ld2vs' = the_ld2vss[k].d2vs
                        /\ the_ld2vss' = SubSeq(the_ld2vss, k + 1, Len(the_ld2vss))
    BY DEF pop
<1>2. the_ld2vss \in Seq(Elem)
    BY TypeParts
<1>3. /\ Len(the_ld2vss) \in Nat /\ DOMAIN the_ld2vss = 1..Len(the_ld2vss)
      /\ \A i \in 1..Len(the_ld2vss) : the_ld2vss[i] \in Elem
    BY <1>2, LenProperties, ElementOfSeq
<1>4. k \in 1..Len(the_ld2vss) /\ the_ld2vss[k] \in Elem
    BY <1>3 DEF Sets
<1> DEFINE a == k + 1
<1>5. a \in Int /\ Len(the_ld2vss) \in Int /\ \A i \in a..Len(the_ld2vss) : the_ld2vss[i] \in Elem
    BY <1>3, <1>4
<1> HIDE DEF a
<1>6. SubSeq(the_ld2vss, a, Len(the_ld2vss)) \in Seq(Elem)
    BY <1>5, SubSeqProperties
<1> QED BY <1>1, <1>4, <1>6 DEF a, Elem

\* The execution has a value of a type.
LEMMA Gives ==
    ASSUME NEW s \in Run, NEW v \in Var, NEW t, Given(s, v, t)
    PROVE  run' \in Run
<1>1. CASE s = Away
    BY <1>1, Stores DEF Given
<1>2. CASE s # Away
    <2>1. PICK u \in Type : run' = [s EXCEPT ![v] = u]
        BY <1>2 DEF Given
    <2>2. s \in Store /\ u \in Maybe
        BY <1>2 DEF Run, Maybe
    <2> QED BY <2>1, <2>2, Stores DEF Run
<1> QED BY <1>1, <1>2

\* A variable is bound.
LEMMA Binds ==
    ASSUME TypeOK, NEW v \in Var, NEW t \in Type, NEW fin \in Maybe, Bind(v, t, fin)
    PROVE  d2var_type' \in Store /\ mastype' \in Store /\ finknd' \in Store
<1>1. d2var_type \in Store /\ mastype \in Store /\ finknd \in Store /\ t \in Maybe
    BY TypeParts DEF Maybe
<1> QED BY <1>1, Stores DEF Bind

\* So do the tables after variables have been forgotten.
LEMMA Forgets ==
    ASSUME TypeOK, NEW S, Forget(S)
    PROVE  d2var_type' \in Store /\ mastype' \in Store /\ finknd' \in Store
BY TypeParts, Stores DEF Forget

\* Every construct leaves the stacks well formed.
LEMMA TypeStep ==
    ASSUME TypeOK, Construct \/ Report
    PROVE  TypeOK'
<1>0. /\ d2var_type \in Store /\ mastype \in Store /\ finknd \in Store
      /\ the_ld2vs \in SUBSET Var /\ the_ld2vss \in Seq(Elem)
      /\ the_lamlplst \in Seq(Entry) /\ ctrl \in Seq(Context)
      /\ Len(the_lamlplst) = Count(Flip(ctrl), Len(ctrl))
      /\ err \in BOOLEAN /\ run \in Run /\ bad \in BOOLEAN
    BY TypeParts
<1>a. /\ Gone \in Lsbis /\ Away \in Run /\ Nothing \in Run /\ Called \in Run
      /\ Entry = [kind : {"lam", "loop1"}, lsbis : Lsbis]
      /\ \A s \in Run : \A S : Without(s, S) \in Run
      /\ \A s1, s2 \in Run : Either(s1, s2) \in Run
    BY Stores DEF Run, Called, Entry
<1>b. [kind |-> "lam", lsbis |-> Gone] \in Entry
    BY <1>a
<1>c. /\ {"let", "lam", "llam", "branch", "trydn", "tryup", "with", "test", "loop"} = Kind
      /\ Listed = {"lam", "llam", "loop"}
    BY DEF Kind, Listed
<1>d. ASSUME push PROVE the_ld2vs' \in SUBSET Var /\ the_ld2vss' \in Seq(Elem)
    <2>1. Pushed({}, the_ld2vss', the_ld2vs, the_ld2vss) /\ the_ld2vs' = {}
        BY <1>0, <1>d DEF push, Pushed
    <2> QED BY <2>1, PushView
<1>e. ASSUME NEW lin \in {0, 1}, NEW S \in SUBSET Var, push_lam(lin, S)
      PROVE  the_ld2vs' \in SUBSET Var /\ the_ld2vss' \in Seq(Elem)
    <2>1. PushedLam(S, the_ld2vss', lin, the_ld2vs, the_ld2vss) /\ the_ld2vs' = S
        BY <1>0, <1>e DEF push_lam, PushedLam
    <2> QED BY <2>1, PushLamView
<1>1. CASE Let
    <2>1. Enter("let", Gone, Away, Away) /\ push /\ UNCHANGED <<dvars, the_lamlplst, err, exec>>
        BY <1>1 DEF Let
    <2>2. ctrl' \in Seq(Context) /\ the_lamlplst' \in Seq(Entry) /\ Len(the_lamlplst') = Count(Flip(ctrl'), Len(ctrl'))
        BY <2>1, <1>a, <1>c, Enters
    <2> QED BY <2>1, <2>2, <1>0, <1>d, TypeNext DEF dvars, exec
<1>2. ASSUME ScopeEnd, ctrl # <<>>
      PROVE  /\ d2var_type' \in Store /\ mastype' \in Store /\ finknd' \in Store
             /\ the_ld2vs' \in SUBSET Var /\ the_ld2vss' \in Seq(Elem)
             /\ err' \in BOOLEAN /\ bad' \in BOOLEAN /\ Leave
    BY <1>0, <1>2, Forgets, Pops DEF ScopeEnd
<1>3. CASE LetEnd
    <2>1. ctrl # <<>> /\ top.kind = "let" /\ ScopeEnd /\ run' = Without(run, the_ld2vs) /\ the_lamlplst' = the_lamlplst
        BY <1>3 DEF LetEnd, In, top
    <2>2. ctrl' \in Seq(Context) /\ the_lamlplst' \in Seq(Entry) /\ Len(the_lamlplst') = Count(Flip(ctrl'), Len(ctrl'))
        BY <2>1, <1>2, <1>c, Leaves
    <2> QED BY <2>1, <2>2, <1>0, <1>a, <1>2, TypeNext
<1>4. CASE LamEnd
    <2>1. ctrl # <<>> /\ top.kind = "lam" /\ ScopeEnd /\ run' = top.wait /\ the_lamlplst' = Tail(the_lamlplst)
        BY <1>4 DEF LamEnd, In, top
    <2>2. ctrl' \in Seq(Context) /\ the_lamlplst' \in Seq(Entry) /\ Len(the_lamlplst') = Count(Flip(ctrl'), Len(ctrl'))
        BY <2>1, <1>2, <1>c, Leaves
    <2> QED BY <2>1, <2>2, <1>0, <1>2, Innermost, TypeNext
<1>5. CASE LLamEnd
    <2>1. /\ ctrl # <<>> /\ top.kind = "llam" /\ Leave /\ pop /\ the_lamlplst' = Tail(the_lamlplst)
          /\ run' = Without(top.wait, llamd2vs) /\ UNCHANGED <<dvars, err>> /\ bad' \in BOOLEAN
        BY <1>5, <1>0 DEF LLamEnd, In, top
    <2>2. ctrl' \in Seq(Context) /\ the_lamlplst' \in Seq(Entry) /\ Len(the_lamlplst') = Count(Flip(ctrl'), Len(ctrl'))
        BY <2>1, <1>c, Leaves
    <2>3. the_ld2vs' \in SUBSET Var /\ the_ld2vss' \in Seq(Elem)
        BY <2>1, Pops
    <2>4. run' \in Run
        BY <2>1, <1>a, Innermost
    <2> QED BY <2>1, <2>2, <2>3, <2>4, <1>0, TypeNext DEF dvars
<1>6. ASSUME NEW kind \in {"lam", "llam"}, NEW lin \in {0, 1}, NEW S \in SUBSET Var, lampush(kind, lin, S)
      PROVE  /\ ctrl' \in Seq(Context) /\ the_lamlplst' \in Seq(Entry)
             /\ Len(the_lamlplst') = Count(Flip(ctrl'), Len(ctrl'))
             /\ the_ld2vs' \in SUBSET Var /\ the_ld2vss' \in Seq(Elem)
             /\ err' \in BOOLEAN /\ bad' \in BOOLEAN
    <2>1. /\ Enter(kind, Gone, run, Away) /\ push_lam(lin, S) /\ UNCHANGED <<err, bad>>
          /\ \E e \in Entry : the_lamlplst' = <<e>> \o the_lamlplst
        BY <1>6, <1>b DEF lampush
    <2>2. ctrl' \in Seq(Context) /\ the_lamlplst' \in Seq(Entry) /\ Len(the_lamlplst') = Count(Flip(ctrl'), Len(ctrl'))
        <3>1. kind \in Kind /\ kind \in Listed
            BY <1>c
        <3> QED BY <2>1, <3>1, <1>0, <1>a, Enters
    <2> QED BY <2>1, <2>2, <1>0, <1>e
<1>7. CASE Lam
    <2>1. lampush("lam", 0, {}) /\ run' \in Run /\ UNCHANGED dvars
        BY <1>7, <1>a DEF Lam
    <2> QED BY <2>1, <1>0, <1>6, TypeNext DEF dvars
<1>8. CASE LLam
    <2>1. lampush("llam", 1, {}) /\ UNCHANGED <<dvars, run>>
        BY <1>8 DEF LLam
    <2> QED BY <2>1, <1>0, <1>6, TypeNext DEF dvars
<1>9. ASSUME NEW v \in Var, NEW t \in Type, NEW fin \in Maybe, LamArg(v, t, fin) PROVE TypeOK'
    <2>1. lampush("lam", 0, {v}) /\ Bind(v, t, fin) /\ Given(Called, v, t)
        BY <1>9 DEF LamArg
    <2>2. run' \in Run
        BY <2>1, <1>a, Gives
    <2> QED BY <2>1, <2>2, <1>6, Binds, TypeNext
<1>10. ASSUME NEW v \in Var, NEW t \in Type, Declare(v, t) PROVE TypeOK'
    <2>1. /\ Bind(v, t, None) /\ Given(run, v, t) /\ the_ld2vs' = the_ld2vs \cup {v}
          /\ UNCHANGED <<the_ld2vss, the_lamlplst, ctrl, err, bad>>
        BY <1>10 DEF Declare
    <2>2. run' \in Run /\ None \in Maybe
        BY <2>1, <1>0, Gives DEF Maybe
    <2> QED BY <2>1, <2>2, <1>0, Binds, TypeNext
<1>11. ASSUME NEW v \in Var, NEW t, TrupVar(v, t)
       PROVE  /\ the_ld2vss' \in Seq(Elem) /\ bad' \in BOOLEAN
              /\ UNCHANGED <<mastype, finknd, the_ld2vs, the_lamlplst, ctrl, err>>
    BY <1>0, <1>11, MarkedTyped DEF TrupVar
<1>12. ASSUME NEW v \in Var, NEW t \in Type, Use(v, t) PROVE TypeOK'
    <2>1. TrupVar(v, t) /\ d2var_type' \in Store /\ run' \in Run
        BY <1>0, <1>a, <1>12, Stores DEF Use, Maybe
    <2> QED BY <2>1, <1>0, <1>11, TypeNext
<1>13. ASSUME NEW v \in Var, NEW t \in Type, NEW t2 \in Type, Borrow(v, t, t2) PROVE TypeOK'
    <2>1. TrupVar(v, t) /\ d2var_type' \in Store /\ Given(run, v, t2)
        BY <1>0, <1>13, Stores DEF Borrow, Maybe
    <2>2. run' \in Run
        BY <2>1, <1>0, Gives
    <2> QED BY <2>1, <2>2, <1>0, <1>11, TypeNext
<1>14. CASE Branch
    <2>1. \/ Enter("branch", save_lstbefitmlst, run, Away) /\ run' = Away
          \/ Enter("branch", save_lstbefitmlst, Away, Away) /\ UNCHANGED run
        BY <1>14 DEF Branch
    <2>2. UNCHANGED <<dvars, envs, the_lamlplst, err, bad>>
        BY <1>14 DEF Branch
    <2>3. ctrl' \in Seq(Context) /\ the_lamlplst' \in Seq(Entry) /\ Len(the_lamlplst') = Count(Flip(ctrl'), Len(ctrl'))
        BY <2>1, <2>2, <1>0, <1>a, <1>c, Saved, Enters
    <2>4. run' \in Run
        BY <2>1, <1>0, <1>a
    <2> QED BY <2>2, <2>3, <2>4, <1>0, TypeNext DEF dvars, envs
<1>15. CASE NextBranch
    <2> DEFINE f == [top EXCEPT !.saits = <<d2var_type>>, !.wait = Away, !.done = run]
    <2>1. /\ ctrl # <<>> /\ top.kind = "branch" /\ Become(f) /\ run' = top.wait
          /\ d2var_type' = restore_type(top.lsbis)
          /\ UNCHANGED <<mastype, finknd, envs, the_lamlplst, err, bad>>
        BY <1>15 DEF NextBranch, In, top
    <2>2. top \in Context /\ top.lsbis \in Lsbis /\ top.wait \in Run
        BY <2>1, Innermost
    <2>3. <<d2var_type>> \in Seq(Store)
        BY <1>0
    <2>4. f \in Context /\ f.kind = top.kind
        BY <2>2, <2>3, <1>0, <1>a DEF Context
    <2> HIDE DEF f
    <2>5. ctrl' \in Seq(Context) /\ the_lamlplst' \in Seq(Entry) /\ Len(the_lamlplst') = Count(Flip(ctrl'), Len(ctrl'))
        BY <2>1, <2>4, Becomes
    <2>6. d2var_type' \in Store
        BY <2>1, <2>2, Saved
    <2> QED BY <2>1, <2>2, <2>5, <2>6, <1>0, TypeNext DEF envs
<1>16. ASSUME NEW M \in SUBSET Var, Join(M) PROVE TypeOK'
    <2>1. /\ ctrl # <<>> /\ top.kind = "branch" /\ Leave
          /\ d2var_type' = [v \in Var |-> IF v \in M THEN mastype[v] ELSE d2var_type[v]]
          /\ run' = Either(run, top.done)
          /\ UNCHANGED <<mastype, finknd, envs, the_lamlplst, err, bad>>
        BY <1>16 DEF Join, In, top
    <2>2. ctrl' \in Seq(Context) /\ the_lamlplst' \in Seq(Entry) /\ Len(the_lamlplst') = Count(Flip(ctrl'), Len(ctrl'))
        BY <2>1, <1>c, Leaves
    <2>3. d2var_type' \in Store
        BY <2>1, <1>0 DEF Store
    <2>4. run' \in Run
        BY <2>1, <1>0, <1>a, Innermost
    <2> QED BY <2>1, <2>2, <2>3, <2>4, <1>0, TypeNext DEF envs
<1>17. CASE TryDn
    <2>1. Enter("trydn", Gone, Away, Away) /\ push_lam(0, {}) /\ UNCHANGED <<dvars, the_lamlplst, err, exec>>
        BY <1>17 DEF TryDn
    <2>2. ctrl' \in Seq(Context) /\ the_lamlplst' \in Seq(Entry) /\ Len(the_lamlplst') = Count(Flip(ctrl'), Len(ctrl'))
        BY <2>1, <1>a, <1>c, Enters
    <2> QED BY <2>1, <2>2, <1>0, <1>e, TypeNext DEF dvars, exec
<1>18. CASE TryUp
    <2>1. Enter("tryup", save_lstbefitmlst, Away, Away) /\ UNCHANGED <<dvars, envs, the_lamlplst, err, exec>>
        BY <1>18 DEF TryUp
    <2>2. ctrl' \in Seq(Context) /\ the_lamlplst' \in Seq(Entry) /\ Len(the_lamlplst') = Count(Flip(ctrl'), Len(ctrl'))
        BY <2>1, <1>a, <1>c, Saved, Enters
    <2> QED BY <2>1, <2>2, <1>0, TypeNext DEF dvars, envs, exec
<1>19. ASSUME NEW k, NEW x, k \in 1..Len(ctrl) => x \in Run,
              ctrl' = [ctrl EXCEPT ![k].done = x], the_lamlplst' = the_lamlplst
       PROVE  ctrl' \in Seq(Context) /\ Len(the_lamlplst') = Count(Flip(ctrl'), Len(ctrl'))
    <2>1. /\ ctrl' \in Seq(Context) /\ Len(ctrl') = Len(ctrl) /\ Len(ctrl) \in Nat
          /\ \A d \in 1..Len(ctrl) :
                Flip(ctrl')[d] = IF d = Len(ctrl) + 1 - k /\ k \in 1..Len(ctrl)
                                 THEN [Flip(ctrl)[d] EXCEPT !.done = x] ELSE Flip(ctrl)[d]
        <3>1. PutDone(ctrl', ctrl, k, x)
            BY <1>19 DEF PutDone
        <3>2. Len(ctrl) \in Nat /\ ctrl \in Seq(Context)
            BY <1>0, LenProperties
        <3>3. ctrl' \in Seq(Context) /\ Len(ctrl') = Len(ctrl)
            BY <3>1, <3>2, DoneTyped
        <3>4. \A d \in 1..Len(ctrl) :
                 Flip(ctrl')[d] = IF d = Len(ctrl) + 1 - k /\ k \in 1..Len(ctrl)
                                  THEN [Flip(ctrl)[d] EXCEPT !.done = x] ELSE Flip(ctrl)[d]
            BY <3>1, <3>2, DoneTyped
        <3> QED BY <3>2, <3>3, <3>4
    <2>2. \A d \in 1..Len(ctrl) : Flip(ctrl)[d] \in Context
        BY <1>0, FlipReads
    <2>3. \A d \in 1..Len(ctrl) : Flip(ctrl')[d].kind = Flip(ctrl)[d].kind
        BY <2>1, <2>2 DEF Context
    <2>4. Count(Flip(ctrl'), Len(ctrl)) = Count(Flip(ctrl), Len(ctrl))
        BY <2>1, <2>3, CountSame
    <2> QED BY <2>1, <2>4, <1>0, <1>19
<1>20. CASE Raise
    <2>1. /\ ctrl' = [ctrl EXCEPT ![Nearest({"trydn", "tryup"})].done = run] /\ run' = Away
          /\ UNCHANGED <<dvars, envs, the_lamlplst, err, bad>>
        BY <1>20 DEF Raise
    <2> QED BY <2>1, <1>0, <1>a, <1>19, TypeNext DEF dvars, envs
<1>21. ASSUME Handler, ctrl # <<>>, top.kind \in {"trydn", "tryup"}
       PROVE  /\ ctrl' \in Seq(Context) /\ the_lamlplst' \in Seq(Entry)
              /\ Len(the_lamlplst') = Count(Flip(ctrl'), Len(ctrl'))
              /\ run' \in Run /\ UNCHANGED <<dvars, the_lamlplst, err, bad>>
    <2> DEFINE f == [top EXCEPT !.kind = "with", !.wait = run, !.done = Away]
    <2>1. /\ Become(f) /\ run' = Without(top.done, Var \ Visible)
          /\ UNCHANGED <<dvars, the_lamlplst, err, bad>>
        BY <1>21 DEF Handler
    <2>2. top \in Context /\ top.done \in Run
        BY <1>21, Innermost
    <2>3. f \in Context /\ f.kind = "with"
        BY <2>2, <1>0, <1>a, <1>c DEF Context
    <2> HIDE DEF f
    <2>4. f.kind \notin Listed /\ top.kind \notin Listed
        BY <2>3, <1>21, <1>c
    <2>5. ctrl' \in Seq(Context) /\ the_lamlplst' \in Seq(Entry) /\ Len(the_lamlplst') = Count(Flip(ctrl'), Len(ctrl'))
        BY <2>1, <2>3, <2>4, <1>21, Becomes
    <2> QED BY <2>1, <2>2, <2>5, <1>a
<1>22. CASE WithDn
    <2>1. Handler /\ ctrl # <<>> /\ top.kind = "trydn" /\ UNCHANGED envs
        BY <1>22 DEF WithDn, In, top
    <2> QED BY <2>1, <1>0, <1>21, TypeNext DEF dvars, envs
<1>23. CASE WithUp
    <2>1. Handler /\ ctrl # <<>> /\ top.kind = "tryup" /\ push_lam(0, {})
        BY <1>23 DEF WithUp, In, top
    <2> QED BY <2>1, <1>0, <1>e, <1>21, TypeNext DEF dvars
<1>24. CASE TryEnd
    <2>1. /\ ctrl # <<>> /\ top.kind = "with" /\ Leave /\ pop /\ run' = Either(run, top.wait)
          /\ UNCHANGED <<dvars, the_lamlplst, err, bad>>
        BY <1>24 DEF TryEnd, In, top
    <2>2. ctrl' \in Seq(Context) /\ the_lamlplst' \in Seq(Entry) /\ Len(the_lamlplst') = Count(Flip(ctrl'), Len(ctrl'))
        BY <2>1, <1>c, Leaves
    <2>3. run' \in Run
        BY <2>1, <1>0, <1>a, Innermost
    <2> QED BY <2>1, <2>2, <2>3, <1>0, Pops, TypeNext DEF dvars
<1>25. ASSUME NEW R \in SUBSET Var, Loop(R) PROVE TypeOK'
    <2>1. /\ Enter("test", lsbis1(R), Away, Away) /\ d2var_type' = restore_type(lsbis1(R))
          /\ Iteration(lsbis1(R)) /\ UNCHANGED <<mastype, finknd, envs, the_lamlplst, err>>
        BY <1>25 DEF Loop
    <2>2. bad' \in BOOLEAN
        BY <1>25, <1>0 DEF Loop
    <2>3. lsbis1(R) \in Lsbis
        BY Saved
    <2>4. ctrl' \in Seq(Context) /\ the_lamlplst' \in Seq(Entry) /\ Len(the_lamlplst') = Count(Flip(ctrl'), Len(ctrl'))
        BY <2>1, <2>3, <1>a, <1>c, Enters
    <2>5. d2var_type' \in Store
        BY <2>1, <2>3, Saved
    <2>6. run' \in Run
        <3> DEFINE l == lsbis1(R)
        <3> HIDE DEF l
        <3>1. Iteration(l)
            BY <2>1 DEF l
        <3>2. CASE run = Away
            BY <3>1, <3>2, <1>a DEF Iteration
        <3>3. CASE run # Away
            <4>1. PICK s \in [DOMAIN l -> Maybe] :
                     run' = [v \in Var |-> IF v \in DOMAIN l THEN s[v] ELSE run[v]]
                BY <3>1, <3>3 DEF Iteration
            <4>2. run \in [Var -> Maybe]
                BY <3>3, <1>0 DEF Run, Store
            <4>3. run' \in [Var -> Maybe]
                BY <4>1, <4>2
            <4> QED BY <4>3 DEF Run, Store
        <3> QED BY <3>2, <3>3
    <2> QED BY <2>1, <2>2, <2>4, <2>5, <2>6, <1>0, TypeNext DEF envs
<1>26. CASE LoopTest
    <2> DEFINE f1 == [top EXCEPT !.kind = "loop", !.done = run]
               f2 == [top EXCEPT !.kind = "loop"]
               e == [kind |-> "loop1", lsbis |-> top.lsbis]
    <2>1. /\ ctrl # <<>> /\ top.kind = "test"
          /\ \/ Become(f1) /\ run' = Away
             \/ Become(f2) /\ run' = run
          /\ the_lamlplst' = <<e>> \o the_lamlplst
          /\ UNCHANGED <<dvars, envs, err, bad>>
        BY <1>26 DEF LoopTest, In, top
    <2>2. top \in Context /\ top.lsbis \in Lsbis
        BY <2>1, Innermost
    <2>3. /\ f1 \in Context /\ f1.kind = "loop" /\ f2 \in Context /\ f2.kind = "loop"
        BY <2>2, <1>0, <1>c DEF Context
    <2>4. e \in Entry /\ "loop" \in Listed /\ top.kind \notin Listed
        BY <2>1, <2>2, <1>a, <1>c
    <2> HIDE DEF f1, f2, e
    <2>5. ctrl' \in Seq(Context) /\ the_lamlplst' \in Seq(Entry) /\ Len(the_lamlplst') = Count(Flip(ctrl'), Len(ctrl'))
        <3>1. PICK f \in Context : f.kind = "loop" /\ Become(f)
            BY <2>1, <2>3
        <3> QED BY <3>1, <2>1, <2>4, Becomes
    <2>6. run' \in Run
        BY <2>1, <1>0, <1>a
    <2> QED BY <2>1, <2>5, <2>6, <1>0, TypeNext DEF dvars, envs
<1>27. CASE LoopEnd
    <2>1. /\ ctrl # <<>> /\ top.kind = "loop" /\ Leave /\ the_lamlplst' = Tail(the_lamlplst)
          /\ d2var_type' = restore_type(top.lsbis) /\ run' = top.done
          /\ UNCHANGED <<mastype, finknd, envs, err>>
        BY <1>27 DEF LoopEnd, In, top
    <2>2. bad' \in BOOLEAN
        BY <1>27, <1>0 DEF LoopEnd
    <2>3. top.lsbis \in Lsbis /\ top.done \in Run
        BY <2>1, Innermost
    <2>4. ctrl' \in Seq(Context) /\ the_lamlplst' \in Seq(Entry) /\ Len(the_lamlplst') = Count(Flip(ctrl'), Len(ctrl'))
        BY <2>1, <1>c, Leaves
    <2>5. d2var_type' \in Store
        BY <2>1, <2>3, Saved
    <2> QED BY <2>1, <2>2, <2>3, <2>4, <2>5, <1>0, TypeNext DEF envs
<1>28. CASE Break
    <2> DEFINE k == Nearest({"loop"})
    <2>1. /\ ctrl' = [ctrl EXCEPT ![k].done = Either(Without(run, Inner), @)]
          /\ run' = Away /\ UNCHANGED <<dvars, envs, the_lamlplst, err>>
        BY <1>28 DEF Break, loopexn
    <2>2. bad' \in BOOLEAN
        BY <1>28, <1>0 DEF Break
    <2>3. ctrl' = [ctrl EXCEPT ![k].done = Either(Without(run, Inner), ctrl[k].done)]
        BY <2>1
    <2>4. ASSUME k \in 1..Len(ctrl) PROVE Either(Without(run, Inner), ctrl[k].done) \in Run
        <3>1. ctrl[k] \in Context
            BY <1>0, <2>4, ElementOfSeq
        <3>2. ctrl[k].done \in Run
            BY <3>1 DEF Context
        <3> QED BY <3>2, <1>0, <1>a
    <2> HIDE DEF k
    <2>5. ctrl' \in Seq(Context) /\ Len(the_lamlplst') = Count(Flip(ctrl'), Len(ctrl'))
        BY <2>1, <2>3, <2>4, <1>19
    <2> QED BY <2>1, <2>2, <2>5, <1>0, <1>a, TypeNext DEF dvars, envs
<1>29. CASE Continue
    <2>1. run' = Away /\ ctrl' = ctrl /\ UNCHANGED <<dvars, envs, the_lamlplst, err>>
        BY <1>29 DEF Continue, loopexn
    <2>2. bad' \in BOOLEAN
        BY <1>29, <1>0 DEF Continue
    <2> QED BY <2>1, <2>2, <1>0, <1>a, TypeNext DEF dvars, envs
<1>30. CASE Report
    <2>1. err' \in BOOLEAN /\ UNCHANGED <<dvars, envs, the_lamlplst, ctrl, exec>>
        BY <1>30 DEF Report
    <2> QED BY <2>1, <1>0, TypeNext DEF dvars, envs, exec
<1> QED
    BY <1>1, <1>3, <1>4, <1>5, <1>7, <1>8, <1>9, <1>10, <1>12, <1>13, <1>14, <1>15, <1>16,
       <1>17, <1>18, <1>20, <1>22, <1>23, <1>24, <1>25, <1>26, <1>27, <1>28, <1>29, <1>30
       DEF Construct

\* The initial state is of the right type.
LEMMA InitTyped == Init => TypeOK
<1> SUFFICES ASSUME Init PROVE TypeOK
    OBVIOUS
<1>1. Nothing \in Store
    BY Stores
<1>2. Cardinality({i \in DOMAIN ctrl : ctrl[i].kind \in {"lam", "llam", "loop"}}) = 0
    <2>1. {i \in DOMAIN ctrl : ctrl[i].kind \in {"lam", "llam", "loop"}} = {}
        BY DEF Init
    <2> QED BY <2>1, FS_EmptySet
<1>3. \A S : <<>> \in Seq(S) /\ Len(<<>>) = 0
    BY EmptySeq
<1> QED BY <1>1, <1>2, <1>3 DEF Init, TypeOK, Run

\* The stacks are well formed, and the list of functions and loops has one
\* entry for each of them, over any nesting of constructs.
THEOREM TypeCorrect == Spec => []TypeOK
<1>1. TypeOK /\ [Next]_vars => TypeOK'
    <2>1. ASSUME TypeOK, Next PROVE TypeOK'
        BY <2>1, TypeStep DEF Next, Reject
    <2>2. ASSUME TypeOK, UNCHANGED vars PROVE TypeOK'
        BY <2>2 DEF vars, dvars, envs, exec, TypeOK
    <2> QED BY <2>1, <2>2
<1> QED BY <1>1, InitTyped, PTL DEF Spec

-----------------------------------------------------------------------------
(* The shape of the stacks.  E are the scopes and markers, L of them, F    *)
(* the constructs, n of them, all from the outermost on; T[d] is the       *)
(* height of the scope in which the d-th construct is translated.          *)

\* The variables of a scope; a marker has none.
Scope(E, p) == IF E[p].node = "set" THEN E[p].d2vs ELSE {}
InScope(E, h) == {v \in Var : \E p \in 1..h : v \in Scope(E, p)}

\* What a search from height h finds, and what it does not reach.
LocalAt(E, h) ==
    {v \in Var : \E p \in 1..h : v \in Scope(E, p) /\ \A q \in p..h : E[q].lin # 0}
Outside(E, h) ==
    {v \in Var : \E p \in 1..h : v \in Scope(E, p) /\ \E q \in p..h : E[q].lin = 0}

\* How many elements of the list of scopes a construct pushes, whether it saves
\* the types of what is within reach, and whether its scope stays empty.
Width(kind) ==
    IF kind = "let" THEN 1
    ELSE IF kind \in {"lam", "llam", "trydn", "with"} THEN 2 ELSE 0
Saves(kind) == kind \in {"branch", "tryup", "test", "loop"}
Bare(kind) == kind \in {"llam", "trydn", "with"}

\* The scopes: the outermost is not a marker, and no variable is in two of them.
EnvOK(E, L) ==
    /\ L \in Nat \ {0} /\ E[1].node = "set"
    /\ \A p \in 1..L : E[p] \in Elem /\ (E[p].node = "set" => E[p].lin = 1)
    /\ \A p, q \in 1..L : p # q => \A v \in Scope(E, p) : v \notin Scope(E, q)

\* A construct: its scopes, and what it has saved.
FrameShape(E, F, T, d) ==
    /\ T[d - 1] \in Nat \ {0} /\ T[d] = T[d - 1] + Width(F[d].kind)
    /\ E[T[d]].node = "set"
    /\ Width(F[d].kind) = 2 =>
          /\ E[T[d] - 1].node = "lam"
          /\ E[T[d] - 1].lin = IF F[d].kind = "llam" THEN 1 ELSE 0
    /\ Bare(F[d].kind) => E[T[d]].d2vs = {}
    /\ Saves(F[d].kind) => DOMAIN F[d].lsbis = LocalAt(E, T[d])
    /\ F[d].kind \in {"test", "loop"} => F[d].outer = InScope(E, T[d])

\* The scopes E and the n constructs F, which are at heights T.
Shape(E, L, F, n, T) ==
    /\ EnvOK(E, L) /\ n \in Nat
    /\ T \in [0..n -> 1..L] /\ T[0] = 1 /\ T[n] = L
    /\ \A c, d \in 0..n : c <= d => T[c] <= T[d]
    /\ \A d \in 1..n : FrameShape(E, F, T, d)

\* The same scopes up to height h, with perhaps more on the markers.
Alike(E2, E, h) ==
    \A p \in 1..h :
       /\ E2[p].node = E[p].node /\ E2[p].lin = E[p].lin /\ E[p].d2vs \subseteq E2[p].d2vs
       /\ E[p].node = "set" => E2[p].d2vs = E[p].d2vs

\* The same constructs up to the m-th.
SameFrames(F2, F, m) ==
    \A d \in 1..m : F2[d].kind = F[d].kind /\ F2[d].lsbis = F[d].lsbis /\ F2[d].outer = F[d].outer

\* Marks change nothing of what is in scope or found.
LEMMA AlikeScopes ==
    ASSUME NEW E, NEW E2, NEW h \in Nat, Alike(E2, E, h), NEW g \in 0..h
    PROVE  /\ \A p \in 1..g : Scope(E2, p) = Scope(E, p)
           /\ LocalAt(E2, g) = LocalAt(E, g) /\ InScope(E2, g) = InScope(E, g)
           /\ Outside(E2, g) = Outside(E, g)
<1>1. \A p \in 1..g : p \in 1..h
    OBVIOUS
<1>2. \A p \in 1..g : Scope(E2, p) = Scope(E, p)
    BY <1>1 DEF Alike, Scope
<1>3. \A p \in 1..g : E2[p].lin = E[p].lin
    BY <1>1 DEF Alike
<1>4. \A p \in 1..g : \A q \in p..g : q \in 1..g
    OBVIOUS
<1>5. LocalAt(E2, g) = LocalAt(E, g)
    BY <1>2, <1>3, <1>4 DEF LocalAt
<1>6. Outside(E2, g) = Outside(E, g)
    BY <1>2, <1>3, <1>4 DEF Outside
<1>7. InScope(E2, g) = InScope(E, g)
    BY <1>2 DEF InScope
<1> QED BY <1>2, <1>5, <1>6, <1>7

\* What is searched from within does not reach what lies outside.
LEMMA LocalInside ==
    ASSUME NEW E, NEW L, EnvOK(E, L), NEW v \in LocalAt(E, L)
    PROVE  v \notin Outside(E, L)
<1>1. PICK p \in 1..L : v \in Scope(E, p) /\ \A q \in p..L : E[q].lin # 0
    BY DEF LocalAt
<1>2. SUFFICES ASSUME v \in Outside(E, L) PROVE FALSE
    OBVIOUS
<1>3. PICK p2 \in 1..L : v \in Scope(E, p2) /\ \E q \in p2..L : E[q].lin = 0
    BY <1>2 DEF Outside
<1>4. p2 = p
    BY <1>1, <1>3 DEF EnvOK
<1> QED BY <1>1, <1>3, <1>4

\* The heights when the n2-th construct is the innermost one, at height L2.
TopAt(T, n2, L2) == [d \in 0..n2 |-> IF d = n2 THEN L2 ELSE T[d]]

\* A step that keeps the first m constructs with their scopes, and leaves at
\* most one construct in them, has to care for that one.
LEMMA ShapeStep ==
    ASSUME NEW E, NEW L, NEW F, NEW n, NEW T, Shape(E, L, F, n, T),
           NEW m \in 0..n, NEW n2 \in {m, m + 1},
           NEW E2, NEW L2, NEW F2, NEW T2, EnvOK(E2, L2), Alike(E2, E, T[m]), SameFrames(F2, F, m),
           T2 = TopAt(T, n2, L2), T[m] <= L2,
           n2 = m => L2 = T[m], n2 = m + 1 => FrameShape(E2, F2, T2, n2)
    PROVE  Shape(E2, L2, F2, n2, T2)
<1>1. /\ n \in Nat /\ T \in [0..n -> 1..L] /\ T[0] = 1 /\ L \in Nat \ {0} /\ L2 \in Nat \ {0}
      /\ \A c, d \in 0..n : c <= d => T[c] <= T[d]
      /\ \A d \in 1..n : FrameShape(E, F, T, d)
    BY DEF Shape, EnvOK
<1>2. \A d \in 0..m : T2[d] = T[d] /\ T[d] \in Nat \ {0} /\ T[d] <= T[m]
    BY <1>1 DEF TopAt
<1>3. n2 \in Nat /\ T2[n2] = L2 /\ T2[0] = 1
    <2>1. n2 \in Nat /\ T2[n2] = L2
        BY <1>1 DEF TopAt
    <2> QED BY <2>1, <1>1, <1>2 DEF TopAt
<1>4. T2 \in [0..n2 -> 1..L2]
    <2>1. \A d \in 0..n2 : T2[d] \in 1..L2
        BY <1>1, <1>2 DEF TopAt
    <2> QED BY <2>1 DEF TopAt
<1>5. \A c, d \in 0..n2 : c <= d => T2[c] <= T2[d]
    <2> TAKE c, d \in 0..n2
    <2> HAVE c <= d
    <2>1. CASE d = n2
        BY <2>1, <1>3, <1>4
    <2>2. CASE d # n2
        <3>1. c \in 0..m /\ d \in 0..m /\ c \in 0..n /\ d \in 0..n
            BY <2>2, <1>1
        <3> QED BY <3>1, <1>1, <1>2
    <2> QED BY <2>1, <2>2
<1>6. ASSUME NEW d \in 1..m PROVE FrameShape(E2, F2, T2, d)
    <2>1. /\ d \in 0..m /\ d - 1 \in 0..m /\ d \in 1..n /\ T[m] \in Nat
          /\ T2[d] = T[d] /\ T2[d - 1] = T[d - 1] /\ T[d] \in 1..T[m] /\ T[d] \in 0..T[m]
        BY <1>1, <1>2
    <2>2. FrameShape(E, F, T, d)
        BY <1>1, <2>1
    <2>3. LocalAt(E2, T[d]) = LocalAt(E, T[d]) /\ InScope(E2, T[d]) = InScope(E, T[d])
        BY <2>1, AlikeScopes
    <2>4. F2[d].kind = F[d].kind /\ F2[d].lsbis = F[d].lsbis /\ F2[d].outer = F[d].outer
        BY DEF SameFrames
    <2>5. Width(F[d].kind) = 2 => T[d] - 1 \in 1..T[m]
        BY <2>1, <2>2 DEF FrameShape
    <2>6. E2[T[d]].node = E[T[d]].node /\ (E[T[d]].node = "set" => E2[T[d]].d2vs = E[T[d]].d2vs)
        BY <2>1 DEF Alike
    <2>7. Width(F[d].kind) = 2 => E2[T[d] - 1].node = E[T[d] - 1].node /\ E2[T[d] - 1].lin = E[T[d] - 1].lin
        BY <2>5 DEF Alike
    <2> QED BY <2>1, <2>2, <2>3, <2>4, <2>6, <2>7 DEF FrameShape
<1>7. \A d \in 1..n2 : d \in 1..m \/ (d = n2 /\ n2 = m + 1)
    BY <1>1
<1>8. \A d \in 1..n2 : FrameShape(E2, F2, T2, d)
    BY <1>6, <1>7
<1> QED BY <1>3, <1>4, <1>5, <1>8 DEF Shape

-----------------------------------------------------------------------------
(* What becomes of the scopes.                                             *)

\* Every construct is translated in a scope, not at a marker.
LEMMA Tops ==
    ASSUME NEW E, NEW L, NEW F, NEW n, NEW T, Shape(E, L, F, n, T), NEW d \in 0..n
    PROVE  E[T[d]].node = "set" /\ T[d] \in 1..L
<1>1. T[d] \in 1..L /\ T[0] = 1 /\ n \in Nat
    BY DEF Shape
<1>2. CASE d = 0
    BY <1>1, <1>2 DEF Shape, EnvOK
<1>3. CASE d # 0
    <2>1. d \in 1..n
        BY <1>1, <1>3
    <2> QED BY <2>1, <1>1 DEF Shape, FrameShape
<1> QED BY <1>2, <1>3

\* Scopes are closed, or a variable is left on a marker.
LEMMA EnvKept ==
    ASSUME NEW E, NEW L, EnvOK(E, L), NEW L2 \in 1..L, NEW E2,
           \A p \in 1..L2 : /\ E2[p] \in Elem /\ E2[p].node = E[p].node /\ E2[p].lin = E[p].lin
                            /\ E[p].node = "set" => E2[p].d2vs = E[p].d2vs
    PROVE  EnvOK(E2, L2)
<1>1. L \in Nat \ {0} /\ L2 \in Nat \ {0} /\ \A p \in 1..L2 : p \in 1..L
    BY DEF EnvOK
<1>2. \A p \in 1..L2 : Scope(E2, p) = Scope(E, p)
    BY DEF Scope
<1>3. E2[1].node = "set"
    BY <1>1 DEF EnvOK
<1>4. \A p \in 1..L2 : E2[p].node = "set" => E2[p].lin = 1
    BY <1>1 DEF EnvOK
<1>5. \A p, q \in 1..L2 : p # q => \A v \in Scope(E2, p) : v \notin Scope(E2, q)
    BY <1>1, <1>2 DEF EnvOK
<1> QED BY <1>1, <1>3, <1>4, <1>5 DEF EnvOK

\* A scope is opened, perhaps behind a marker, with variables that are new.
Grown(E2, L2, E, L, S) ==
    /\ L2 \in {L + 1, L + 2} /\ S \in SUBSET Var
    /\ \A v \in S : v \notin InScope(E, L) /\ S = {v}
    /\ \A p \in 1..L : E2[p] = E[p]
    /\ E2[L2] = LD2VSset(S)
    /\ L2 = L + 2 => \E lin \in {0, 1} : E2[L + 1] = LD2VSlam(lin)

\* New scopes keep the view well formed if their variables are new.
LEMMA EnvGrown ==
    ASSUME NEW E, NEW L, EnvOK(E, L), NEW L2, NEW E2, NEW S, Grown(E2, L2, E, L, S)
    PROVE  EnvOK(E2, L2)
<1> USE DEF Grown
<1>1. L \in Nat \ {0} /\ L2 \in Nat \ {0} /\ \A p \in 1..L2 : p \in 1..L \/ p = L2 \/ (p = L + 1 /\ L2 = L + 2)
    BY DEF EnvOK
<1>2. \A p \in 1..L : Scope(E2, p) = Scope(E, p) /\ Scope(E2, p) \subseteq Var
    BY DEF Scope, EnvOK, Elem
<1>3. Scope(E2, L2) = S
    BY DEF Scope, LD2VSset
<1>4. L2 = L + 2 => Scope(E2, L + 1) = {}
    BY DEF Scope, LD2VSlam
<1>5. \A p \in 1..L : \A v \in S : v \notin Scope(E2, p)
    BY <1>2 DEF InScope
<1>6. \A p, q \in 1..L : p # q => \A v \in Scope(E2, p) : v \notin Scope(E2, q)
    BY <1>2 DEF EnvOK
<1>7. \A p, q \in 1..L2 : p # q => \A v \in Scope(E2, p) : v \notin Scope(E2, q)
    BY <1>1, <1>3, <1>4, <1>5, <1>6
<1>8. E2[L2] \in Elem /\ E2[L2].node = "set" /\ E2[L2].lin = 1
    BY Elems DEF LD2VSset
<1>9. L2 = L + 2 => E2[L + 1] \in Elem /\ E2[L + 1].node # "set"
    BY Elems DEF LD2VSlam
<1>10. \A p \in 1..L2 : E2[p] \in Elem /\ (E2[p].node = "set" => E2[p].lin = 1)
    BY <1>1, <1>8, <1>9 DEF EnvOK
<1>11. E2[1].node = "set"
    BY <1>1 DEF EnvOK
<1> QED BY <1>1, <1>7, <1>10, <1>11 DEF EnvOK

\* A variable that is new is bound in the innermost scope.
LEMMA EnvBound ==
    ASSUME NEW E, NEW L, EnvOK(E, L), NEW E2, NEW S \in SUBSET Var, NEW v \in Var,
           v \notin InScope(E, L), E[L] = LD2VSset(S), E2[L] = LD2VSset(S \cup {v}),
           \A p \in 1..L : p # L => E2[p] = E[p]
    PROVE  EnvOK(E2, L)
<1>1. L \in Nat \ {0}
    BY DEF EnvOK
<1>2. \A p \in 1..L : p # L => Scope(E2, p) = Scope(E, p)
    BY DEF Scope
<1>3. Scope(E2, L) = S \cup {v} /\ Scope(E, L) = S
    BY DEF Scope, LD2VSset
<1>4. \A p \in 1..L : v \notin Scope(E, p)
    BY DEF InScope
<1>5. \A p, q \in 1..L : p # q => \A u \in Scope(E2, p) : u \notin Scope(E2, q)
    BY <1>1, <1>2, <1>3, <1>4 DEF EnvOK
<1>6. E2[L] \in Elem /\ E2[L].node = "set" /\ E2[L].lin = 1
    BY Elems DEF LD2VSset
<1>7. \A p \in 1..L : E2[p] \in Elem /\ (E2[p].node = "set" => E2[p].lin = 1)
    BY <1>6 DEF EnvOK
<1>8. E2[1].node = "set"
    BY <1>1, <1>6 DEF EnvOK
<1> QED BY <1>1, <1>5, <1>7, <1>8 DEF EnvOK

-----------------------------------------------------------------------------
(* The shape of the checker's stacks.                                      *)

\* The view of the checker's state.
Env == EnvOf(the_ld2vs, the_ld2vss)
High == Len(the_ld2vss) + 1
Frames == Flip(ctrl)
Depth == Len(ctrl)
Shaped(T) == Shape(Env, High, Frames, Depth, T)

\* What the checker finds when it searches from the innermost scope.
LEMMA Views ==
    ASSUME TypeOK, EnvOK(Env, High)
    PROVE  /\ Visible = InScope(Env, High) /\ Local = LocalAt(Env, High)
           /\ Sealed = Outside(Env, High)
           /\ the_ld2vs = Scope(Env, High) /\ Env[High] = LD2VSset(the_ld2vs)
<1> DEFINE N == Len(the_ld2vss)
           ss == the_ld2vss
           E == Env
           L == High
<1>1. the_ld2vs \in SUBSET Var /\ ss \in Seq(Elem) /\ N \in Nat /\ DOMAIN ss = 1..N
    BY TypeParts, LenProperties
<1>2. /\ E[N + 1] = LD2VSset(the_ld2vs)
      /\ \A p \in 1..N : E[p] = ss[N + 1 - p]
      /\ \A i \in 1..N : N + 1 - i \in 1..N /\ ss[i] = E[N + 1 - i]
    BY <1>1, EnvReads DEF Env
<1>3. L = N + 1 /\ E[L] = LD2VSset(the_ld2vs) /\ Scope(E, L) = the_ld2vs /\ E[L].lin = 1
    BY <1>2 DEF Scope, LD2VSset, High
<1>4. /\ Sets = {i \in 1..N : ss[i].node = "set"}
      /\ Walk = {i \in 1..N : \A j \in 1..i : ss[j].lin # 0}
    BY <1>1 DEF Sets, Walk
<1>e. EnvOK(E, L)
    OBVIOUS
<1> HIDE DEF N, ss, E, L
<1>5. \A p \in 1..N : N + 1 - p \in 1..N
    BY <1>1
<1>6. \A p \in 1..L : p \in 1..N \/ p = L
    BY <1>1, <1>3
<1>7. \A p \in 1..N : p \in 1..L
    BY <1>1, <1>3
<1>8. \A p \in 1..N : Scope(E, p) = IF N + 1 - p \in Sets THEN ss[N + 1 - p].d2vs ELSE {}
    BY <1>2, <1>4, <1>5 DEF Scope
<1>9. \A i \in Sets : ss[i].d2vs = Scope(E, N + 1 - i) /\ N + 1 - i \in 1..N
    BY <1>2, <1>4 DEF Scope
<1>10. \A p \in 1..L : Scope(E, p) \subseteq Var
    BY <1>3, <1>7, <1>e DEF EnvOK, Scope, Elem
<1>11. ASSUME NEW i \in 1..N, NEW q \in (N + 1 - i)..N PROVE N + 1 - q \in 1..i /\ E[q] = ss[N + 1 - q]
    BY <1>1, <1>2
<1>12. ASSUME NEW i \in 1..N, NEW j \in 1..i PROVE N + 1 - j \in (N + 1 - i)..N /\ ss[j] = E[N + 1 - j]
    BY <1>1, <1>2
<1>13. ASSUME NEW i \in 1..N
       PROVE  i \in Walk <=> \A q \in (N + 1 - i)..L : E[q].lin # 0
    <2>1. \A q \in (N + 1 - i)..L : q \in (N + 1 - i)..N \/ q = L
        BY <1>1, <1>3
    <2>2. \A q \in (N + 1 - i)..N : q \in (N + 1 - i)..L
        BY <1>1, <1>3
    <2>3. (\A j \in 1..i : ss[j].lin # 0) => \A q \in (N + 1 - i)..N : E[q].lin # 0
        BY <1>11
    <2>4. (\A q \in (N + 1 - i)..N : E[q].lin # 0) => \A j \in 1..i : ss[j].lin # 0
        BY <1>12
    <2> QED BY <2>1, <2>2, <2>3, <2>4, <1>3, <1>4
<1>14. Visible = the_ld2vs \cup UNION {ss[i].d2vs : i \in Sets}
    BY DEF Visible, ss
<1>15. Local = the_ld2vs \cup UNION {ss[i].d2vs : i \in Sets \cap Walk}
    BY DEF Local, ss
<1>16. Visible = InScope(E, L)
    <2>1. ASSUME NEW v \in Visible PROVE v \in InScope(E, L)
        <3>1. v \in the_ld2vs \/ \E i \in Sets : v \in ss[i].d2vs
            BY <1>14
        <3>2. L \in 1..L
            BY <1>1, <1>3
        <3>3. \E p \in 1..L : v \in Scope(E, p)
            BY <3>1, <3>2, <1>3, <1>7, <1>9
        <3> QED BY <3>3, <1>10 DEF InScope
    <2>2. ASSUME NEW v \in InScope(E, L) PROVE v \in Visible
        <3>1. PICK p \in 1..L : v \in Scope(E, p)
            BY DEF InScope
        <3> QED BY <3>1, <1>3, <1>6, <1>8, <1>14
    <2> QED BY <2>1, <2>2
<1>17. Local = LocalAt(E, L)
    <2>1. ASSUME NEW v \in Local PROVE v \in LocalAt(E, L)
        <3>1. CASE v \in the_ld2vs
            <4>1. L \in 1..L /\ \A q \in L..L : E[q].lin # 0
                BY <1>1, <1>3
            <4> QED BY <3>1, <4>1, <1>3, <1>10 DEF LocalAt
        <3>2. CASE v \notin the_ld2vs
            <4>1. PICK i \in Sets \cap Walk : v \in ss[i].d2vs
                BY <3>2, <1>15
            <4>2. N + 1 - i \in 1..L /\ v \in Scope(E, N + 1 - i) /\ i \in 1..N
                BY <4>1, <1>4, <1>7, <1>9
            <4>3. \A q \in (N + 1 - i)..L : E[q].lin # 0
                BY <4>1, <4>2, <1>13
            <4> QED BY <4>2, <4>3, <1>10 DEF LocalAt
        <3> QED BY <3>1, <3>2
    <2>2. ASSUME NEW v \in LocalAt(E, L) PROVE v \in Local
        <3>1. PICK p \in 1..L : v \in Scope(E, p) /\ \A q \in p..L : E[q].lin # 0
            BY DEF LocalAt
        <3>2. CASE p = L
            BY <3>1, <3>2, <1>3, <1>15
        <3>3. CASE p # L
            <4>1. p \in 1..N /\ N + 1 - p \in 1..N /\ N + 1 - (N + 1 - p) = p
                BY <3>3, <1>1, <1>5, <1>6
            <4>2. N + 1 - p \in Sets /\ v \in ss[N + 1 - p].d2vs
                BY <3>1, <4>1, <1>8
            <4>3. N + 1 - p \in Walk
                BY <3>1, <4>1, <1>13
            <4> QED BY <4>2, <4>3, <1>15
        <3> QED BY <3>2, <3>3
    <2> QED BY <2>1, <2>2
<1>18. Sealed = Outside(E, L)
    <2>1. Sealed = UNION {ss[i].d2vs : i \in Sets \ Walk}
        <3>1. {i \in Sets : \E j \in 1..i : ss[j].lin = 0} = Sets \ Walk
            BY <1>4
        <3> QED BY <3>1 DEF Sealed, ss
    <2>2. ASSUME NEW v \in Sealed PROVE v \in Outside(E, L)
        <3>1. PICK i \in Sets \ Walk : v \in ss[i].d2vs
            BY <2>1
        <3>2. N + 1 - i \in 1..L /\ v \in Scope(E, N + 1 - i) /\ i \in 1..N
            BY <3>1, <1>4, <1>7, <1>9
        <3>3. \E q \in (N + 1 - i)..L : E[q].lin = 0
            BY <3>1, <3>2, <1>13
        <3> QED BY <3>2, <3>3, <1>10 DEF Outside
    <2>3. ASSUME NEW v \in Outside(E, L) PROVE v \in Sealed
        <3>1. PICK p \in 1..L : v \in Scope(E, p) /\ \E q \in p..L : E[q].lin = 0
            BY DEF Outside
        <3>2. p # L
            BY <3>1, <1>1, <1>3
        <3>3. p \in 1..N /\ N + 1 - p \in 1..N /\ N + 1 - (N + 1 - p) = p
            BY <3>2, <1>1, <1>5, <1>6
        <3>4. N + 1 - p \in Sets /\ v \in ss[N + 1 - p].d2vs
            BY <3>1, <3>3, <1>8
        <3>5. N + 1 - p \notin Walk
            BY <3>1, <3>3, <1>13
        <3> QED BY <3>4, <3>5, <2>1
    <2> QED BY <2>2, <2>3
<1> QED BY <1>3, <1>16, <1>17, <1>18 DEF E, L

\* The constructs after one begins, goes on as another, or ends.
LEMMA Larger ==
    ASSUME NEW S, NEW s \in Seq(S), NEW x
    PROVE  s \in Seq(S \cup {x}) /\ x \in S \cup {x}
<1>1. Len(s) \in Nat /\ s \in [1..Len(s) -> S]
    BY LenProperties
<1>2. s \in [1..Len(s) -> S \cup {x}]
    BY <1>1
<1> QED BY <1>1, <1>2, SeqDef

\* A construct is put on the stack, or replaces its top.
Begins(s2, f, s) == s \in Seq(Context) /\ s2 = <<f>> \o s
GoesOn(s2, f, s) == s \in Seq(Context) /\ s # <<>> /\ s2 = <<f>> \o Tail(s)

\* The frames when a construct begins.
LEMMA EnterView ==
    ASSUME NEW s, NEW f, NEW s2, Begins(s2, f, s)
    PROVE  /\ Len(s) \in Nat /\ Len(s2) = Len(s) + 1
           /\ \A d \in 1..Len(s) : Flip(s2)[d] = Flip(s)[d]
           /\ Flip(s2)[Len(s) + 1] = f
<1> DEFINE A == Context \cup {f}
<1>1. s \in Seq(A) /\ f \in A /\ s2 = <<f>> \o s
    BY Larger DEF Begins
<1> HIDE DEF A
<1> QED BY <1>1, FlipCons

\* The frames when the innermost construct goes on as another.
LEMMA BecomeView ==
    ASSUME NEW s, NEW f, NEW s2, GoesOn(s2, f, s)
    PROVE  /\ Len(s) \in Nat \ {0} /\ Len(s2) = Len(s)
           /\ \A d \in 1..(Len(s) - 1) : Flip(s2)[d] = Flip(s)[d]
           /\ Flip(s2)[Len(s)] = f /\ Flip(s)[Len(s)] = Head(s)
<1> USE DEF GoesOn
<1> DEFINE A == Context \cup {f}
<1>1. s \in Seq(A) /\ f \in A
    BY Larger
<1> HIDE DEF A
<1>2. /\ Len(<<f>> \o Tail(s)) = Len(s)
      /\ Len(s) \in Nat \ {0}
      /\ \A d \in 1..(Len(s) - 1) : Flip(<<f>> \o Tail(s))[d] = Flip(s)[d]
      /\ Flip(<<f>> \o Tail(s))[Len(s)] = f
    BY <1>1, FlipBecome
<1>3. Flip(s)[Len(s)] = Head(s)
    BY FlipTail
<1> QED BY <1>2, <1>3

\* The frames when the innermost construct ends.
LEMMA LeaveView ==
    ASSUME NEW S, NEW s \in Seq(S), s # <<>>, NEW s2, s2 = Tail(s)
    PROVE  /\ Len(s) \in Nat \ {0} /\ Len(s2) = Len(s) - 1
           /\ \A d \in 1..(Len(s) - 1) : Flip(s2)[d] = Flip(s)[d]
           /\ Flip(s)[Len(s)] = Head(s)
BY FlipTail

\* The scopes after a step: nothing opens or closes, a scope opens, or the
\* innermost one closes.
LEMMA MarkView ==
    ASSUME TypeOK, the_ld2vs' = the_ld2vs,
           \/ the_ld2vss' = the_ld2vss
           \/ \E v \in Var : the_ld2vss' = Marked(v)
    PROVE  /\ High' = High
           /\ \A p \in 1..High :
                 /\ Env'[p] \in Elem /\ Env'[p].node = Env[p].node /\ Env'[p].lin = Env[p].lin
                 /\ Env[p].d2vs \subseteq Env'[p].d2vs
                 /\ Env[p].node = "set" => Env'[p].d2vs = Env[p].d2vs
<1> DEFINE N == Len(the_ld2vss)
           ss2 == the_ld2vss'
           E2 == EnvOf(the_ld2vs, ss2)
<1>1. the_ld2vs \in SUBSET Var /\ the_ld2vss \in Seq(Elem) /\ N \in Nat /\ DOMAIN the_ld2vss = 1..N
    BY TypeParts, LenProperties
<1>2. ss2 \in Seq(Elem) /\ Len(ss2) = N
    BY <1>1, MarkedTyped
<1>3. ASSUME NEW i \in 1..N
      PROVE  /\ ss2[i].node = the_ld2vss[i].node /\ ss2[i].lin = the_ld2vss[i].lin
             /\ the_ld2vss[i].d2vs \subseteq ss2[i].d2vs
             /\ the_ld2vss[i].node = "set" => ss2[i].d2vs = the_ld2vss[i].d2vs
    <2>1. CASE ss2 = the_ld2vss
        BY <2>1
    <2>2. ASSUME NEW v \in Var, ss2 = Marked(v)
          PROVE  /\ ss2[i].node = the_ld2vss[i].node /\ ss2[i].lin = the_ld2vss[i].lin
                 /\ the_ld2vss[i].d2vs \subseteq ss2[i].d2vs
                 /\ the_ld2vss[i].node = "set" => ss2[i].d2vs = the_ld2vss[i].d2vs
        <3>1. the_ld2vss[i] \in Elem
            BY <1>1, ElementOfSeq
        <3>2. the_ld2vss[i].node = "set" => i \in Sets
            BY <1>1 DEF Sets
        <3>3. \/ ss2[i] = the_ld2vss[i]
              \/ i \notin Sets /\ ss2[i] = [the_ld2vss[i] EXCEPT !.d2vs = @ \cup {v}]
            BY <2>2, <1>1 DEF Marked
        <3> QED BY <3>1, <3>2, <3>3 DEF Elem
    <2> QED BY <2>1, <2>2
<1>4. Env[N + 1] = LD2VSset(the_ld2vs) /\ \A p \in 1..N : Env[p] = the_ld2vss[N + 1 - p]
    BY <1>1, EnvReads DEF Env
<1> HIDE DEF ss2
<1>5. /\ E2[Len(ss2) + 1] = LD2VSset(the_ld2vs)
      /\ \A p \in 1..Len(ss2) : E2[p] = ss2[Len(ss2) + 1 - p]
      /\ \A p \in 1..(Len(ss2) + 1) : E2[p] \in Elem
    BY <1>1, <1>2, EnvReads
<1>6. Env' = E2 /\ High' = Len(ss2) + 1 /\ High = N + 1
    BY DEF Env, High, ss2
<1> HIDE DEF E2, N
<1>7. High' = High
    BY <1>2, <1>6
<1>8. ASSUME NEW p \in 1..High
      PROVE  /\ Env'[p] \in Elem /\ Env'[p].node = Env[p].node /\ Env'[p].lin = Env[p].lin
             /\ Env[p].d2vs \subseteq Env'[p].d2vs
             /\ Env[p].node = "set" => Env'[p].d2vs = Env[p].d2vs
    <2>1. CASE p = N + 1
        BY <2>1, <1>2, <1>4, <1>5, <1>6 DEF Elem
    <2>2. CASE p # N + 1
        <3>1. p \in 1..N /\ N + 1 - p \in 1..N /\ p \in 1..(N + 1)
            BY <2>2, <1>1, <1>6
        <3>2. Env[p] = the_ld2vss[N + 1 - p] /\ E2[p] = ss2[N + 1 - p] /\ E2[p] \in Elem
            BY <3>1, <1>2, <1>4, <1>5
        <3> QED BY <3>1, <3>2, <1>3, <1>6
    <2> QED BY <2>1, <2>2
<1> QED BY <1>7, <1>8

\* A scope opens, or a marker and a scope: what was there stays.
LEMMA GrowView ==
    ASSUME TypeOK, NEW S \in SUBSET Var, NEW w \in {1, 2}, NEW lin \in {0, 1},
           w = 1 => push /\ S = {}, w = 2 => push_lam(lin, S)
    PROVE  /\ High' = High + w /\ \A p \in 1..High : Env'[p] = Env[p]
           /\ Env'[High'] = LD2VSset(S) /\ (w = 2 => Env'[High + 1] = LD2VSlam(lin))
<1>1. the_ld2vs \in SUBSET Var /\ the_ld2vss \in Seq(Elem) /\ Len(the_ld2vss) \in Nat
    BY TypeParts, LenProperties
<1>2. CASE w = 1
    <2>1. the_ld2vs' = {} /\ the_ld2vss' = <<LD2VSset(the_ld2vs)>> \o the_ld2vss /\ S = {}
        BY <1>2 DEF push
    <2> DEFINE s2 == the_ld2vss'
               v2 == the_ld2vs'
    <2>2. v2 \in SUBSET Var /\ s2 = <<LD2VSset(the_ld2vs)>> \o the_ld2vss
        BY <2>1
    <2> HIDE DEF s2, v2
    <2>3. /\ Len(s2) = Len(the_ld2vss) + 1
          /\ \A p \in 1..(Len(the_ld2vss) + 1) : EnvOf(v2, s2)[p] = EnvOf(the_ld2vs, the_ld2vss)[p]
          /\ EnvOf(v2, s2)[Len(the_ld2vss) + 2] = LD2VSset(v2)
        <3>1. Pushed(v2, s2, the_ld2vs, the_ld2vss)
            BY <2>2, <1>1 DEF Pushed
        <3> QED BY <3>1, PushView
    <2>4. Env' = EnvOf(v2, s2) /\ High' = Len(s2) + 1 /\ v2 = S
        BY <2>1 DEF Env, High, s2, v2
    <2>5. High' = High + 1 /\ High' = Len(the_ld2vss) + 2
        BY <2>3, <2>4, <1>1 DEF High
    <2> QED BY <2>3, <2>4, <2>5, <1>2 DEF Env, High
<1>3. CASE w = 2
    <2>1. the_ld2vs' = S /\ the_ld2vss' = <<LD2VSlam(lin), LD2VSset(the_ld2vs)>> \o the_ld2vss
        BY <1>3 DEF push_lam
    <2> DEFINE s2 == the_ld2vss'
               v2 == the_ld2vs'
    <2>2. v2 \in SUBSET Var /\ s2 = <<LD2VSlam(lin), LD2VSset(the_ld2vs)>> \o the_ld2vss
        BY <2>1
    <2> HIDE DEF s2, v2
    <2>3. /\ Len(s2) = Len(the_ld2vss) + 2
          /\ \A p \in 1..(Len(the_ld2vss) + 1) : EnvOf(v2, s2)[p] = EnvOf(the_ld2vs, the_ld2vss)[p]
          /\ EnvOf(v2, s2)[Len(the_ld2vss) + 2] = LD2VSlam(lin)
          /\ EnvOf(v2, s2)[Len(the_ld2vss) + 3] = LD2VSset(v2)
        <3>1. PushedLam(v2, s2, lin, the_ld2vs, the_ld2vss)
            BY <2>2, <1>1 DEF PushedLam
        <3> QED BY <3>1, PushLamView
    <2>4. Env' = EnvOf(v2, s2) /\ High' = Len(s2) + 1 /\ v2 = S
        BY <2>1 DEF Env, High, s2, v2
    <2>5. High' = High + 2 /\ High' = Len(the_ld2vss) + 3 /\ High + 1 = Len(the_ld2vss) + 2
        BY <2>3, <2>4, <1>1 DEF High
    <2> QED BY <2>3, <2>4, <2>5, <1>3 DEF Env, High
<1> QED BY <1>2, <1>3

\* w: the width of the innermost construct.
LEMMA CloseView ==
    ASSUME TypeOK, pop, EnvOK(Env, High), NEW w \in {1, 2}, High > w,
           Env[High - w].node = "set", w = 2 => Env[High - 1].node = "lam"
    PROVE  High' = High - w /\ \A p \in 1..(High - w) : Env'[p] = Env[p]
<1> DEFINE N == Len(the_ld2vss)
           ss == the_ld2vss
<1>1. the_ld2vs \in SUBSET Var /\ ss \in Seq(Elem) /\ N \in Nat /\ DOMAIN ss = 1..N
    BY TypeParts, LenProperties
<1>2. High = N + 1
    BY DEF High
<1>3. \A i \in 1..N : N + 1 - i \in 1..N /\ ss[i] = Env[N + 1 - i]
    BY <1>1, EnvReads DEF Env
<1>4. PICK k \in Sets : /\ \A j \in Sets : k <= j
                        /\ the_ld2vs' = ss[k].d2vs
                        /\ the_ld2vss' = SubSeq(ss, k + 1, N)
    BY DEF pop
<1>5. Sets = {i \in 1..N : ss[i].node = "set"}
    BY <1>1 DEF Sets
<1> DEFINE v2 == the_ld2vs'
           s2 == the_ld2vss'
<1>6. v2 = ss[k].d2vs /\ s2 = SubSeq(ss, k + 1, N)
    BY <1>4
<1>7. Env' = EnvOf(v2, s2) /\ High' = Len(s2) + 1
    BY DEF Env, High
<1> HIDE DEF v2, s2
<1>8. k = w
    <2>1. w \in 1..N /\ N + 1 - w = High - w
        BY <1>1, <1>2
    <2>2. w \in Sets
        BY <2>1, <1>3, <1>5
    <2>3. w = 2 => 1 \notin Sets
        BY <2>1, <1>2, <1>3, <1>5
    <2>4. k \in Nat /\ k >= 1 /\ k <= w
        BY <2>2, <1>1, <1>4, <1>5
    <2> QED BY <2>3, <2>4
<1>9. k \in 1..N /\ ss[k].node = "set" /\ ss[k].lin = 1
    <2>1. k \in 1..N /\ ss[k].node = "set" /\ N + 1 - k \in 1..High
        BY <1>1, <1>2, <1>5
    <2> QED BY <2>1, <1>3 DEF EnvOK
<1> HIDE DEF N
<1>10. /\ Len(s2) = N - k
       /\ \A p \in 1..(N - k + 1) : EnvOf(v2, s2)[p] = EnvOf(the_ld2vs, ss)[p]
    <2>1. Popped(v2, s2, k, the_ld2vs, ss)
        BY <1>1, <1>6, <1>9 DEF Popped, N
    <2> QED BY <2>1, PopView DEF N
<1>11. N - k + 1 = High - w /\ Len(s2) + 1 = High - w
    BY <1>1, <1>2, <1>8, <1>9, <1>10
<1> QED BY <1>7, <1>10, <1>11 DEF Env

\* The constructs after a step.
LEMMA FrameViews ==
    ASSUME TypeOK
    PROVE  /\ Depth \in Nat /\ (ctrl # <<>> => Depth # 0 /\ top = Frames[Depth])
           /\ \A f : ctrl' = <<f>> \o ctrl =>
                 /\ Depth' = Depth + 1 /\ Frames'[Depth + 1] = f
                 /\ \A d \in 1..Depth : Frames'[d] = Frames[d]
           /\ \A f : ctrl # <<>> /\ Become(f) =>
                 /\ Depth' = Depth /\ Frames'[Depth] = f
                 /\ \A d \in 1..(Depth - 1) : Frames'[d] = Frames[d]
           /\ ctrl # <<>> /\ Leave =>
                 /\ Depth' = Depth - 1
                 /\ \A d \in 1..(Depth - 1) : Frames'[d] = Frames[d]
<1>1. ctrl \in Seq(Context)
    BY TypeParts
<1>2. Depth \in Nat /\ (ctrl # <<>> => Depth # 0 /\ top = Frames[Depth])
    BY <1>1, LenProperties, FlipTail DEF Depth, Frames, top
<1>3. ASSUME NEW f, ctrl' = <<f>> \o ctrl
      PROVE  /\ Depth' = Depth + 1 /\ Frames'[Depth + 1] = f
             /\ \A d \in 1..Depth : Frames'[d] = Frames[d]
    <2>1. Begins(ctrl', f, ctrl)
        BY <1>1, <1>3 DEF Begins
    <2> QED BY <2>1, EnterView DEF Depth, Frames
<1>4. ASSUME NEW f, ctrl # <<>>, Become(f)
      PROVE  /\ Depth' = Depth /\ Frames'[Depth] = f
             /\ \A d \in 1..(Depth - 1) : Frames'[d] = Frames[d]
    <2>1. GoesOn(ctrl', f, ctrl)
        BY <1>1, <1>4 DEF GoesOn, Become
    <2> QED BY <2>1, BecomeView DEF Depth, Frames
<1>5. ASSUME ctrl # <<>>, Leave
      PROVE  /\ Depth' = Depth - 1
             /\ \A d \in 1..(Depth - 1) : Frames'[d] = Frames[d]
    BY <1>1, <1>5, LeaveView DEF Depth, Frames, Leave
<1> QED BY <1>2, <1>3, <1>4, <1>5

\* What a step has to show.
Reshaped(T) == Shape(Env', High', Frames', Depth', TopAt(T, Depth', High'))

\* ShapeStep, of the checker's state.
LEMMA Reshape ==
    ASSUME NEW T, Shaped(T), NEW m \in 0..Depth, Depth' \in {m, m + 1}, EnvOK(Env', High'),
           Alike(Env', Env, T[m]), SameFrames(Frames', Frames, m), T[m] <= High',
           Depth' = m => High' = T[m],
           \A T2 : Depth' = m + 1 /\ T2[m] = T[m] /\ T2[Depth'] = High'
                     => FrameShape(Env', Frames', T2, Depth')
    PROVE  Reshaped(T)
<1> DEFINE T2 == TopAt(T, Depth', High')
<1>1. Shape(Env, High, Frames, Depth, T)
    BY DEF Shaped
<1>2. Depth \in Nat
    BY <1>1 DEF Shape
<1>3. Depth' = m + 1 => T2[m] = T[m] /\ T2[Depth'] = High'
    BY <1>2 DEF TopAt
<1>4. T2 = TopAt(T, Depth', High')
    OBVIOUS
<1> HIDE DEF T2
<1>5. Depth' = m + 1 => FrameShape(Env', Frames', T2, Depth')
    BY <1>3
<1>6. Shape(Env', High', Frames', Depth', T2)
    BY <1>1, <1>4, <1>5, ShapeStep
<1> QED BY <1>6, <1>4 DEF Reshaped

\* The heights of the innermost construct.
LEMMA Heads ==
    ASSUME NEW T, Shaped(T)
    PROVE  /\ EnvOK(Env, High) /\ High \in Nat \ {0} /\ Depth \in Nat
           /\ \A d \in 0..Depth : T[d] \in 1..High /\ Env[T[d]].node = "set"
           /\ T[Depth] = High
           /\ Depth # 0 => /\ FrameShape(Env, Frames, T, Depth) /\ Depth - 1 \in 0..Depth
                           /\ T[Depth - 1] = High - Width(Frames[Depth].kind)
           /\ \A e : LD2VSset(e).node = "set"
<1>1. Shape(Env, High, Frames, Depth, T)
    BY DEF Shaped
<1>2. EnvOK(Env, High) /\ High \in Nat \ {0} /\ Depth \in Nat /\ T[Depth] = High
    BY <1>1 DEF Shape, EnvOK
<1>3. \A d \in 0..Depth : T[d] \in 1..High /\ Env[T[d]].node = "set"
    BY <1>1, Tops
<1>4. ASSUME Depth # 0
      PROVE  /\ FrameShape(Env, Frames, T, Depth) /\ Depth - 1 \in 0..Depth
             /\ T[Depth - 1] = High - Width(Frames[Depth].kind)
    <2>1. Depth \in 1..Depth /\ Depth - 1 \in 0..Depth
        BY <1>2, <1>4
    <2>2. FrameShape(Env, Frames, T, Depth)
        BY <1>1, <2>1 DEF Shape
    <2>3. High = T[Depth - 1] + Width(Frames[Depth].kind) /\ T[Depth - 1] \in Nat
        BY <1>2, <2>2 DEF FrameShape
    <2>4. Width(Frames[Depth].kind) \in Nat
        BY DEF Width
    <2> QED BY <2>1, <2>2, <2>3, <2>4
<1> QED BY <1>2, <1>3, <1>4 DEF LD2VSset

\* The scopes and the constructs stay, but for marks.
LEMMA ShapeStay ==
    ASSUME TypeOK, NEW T, Shaped(T), Depth' = Depth, SameFrames(Frames', Frames, Depth),
           the_ld2vs' = the_ld2vs,
           \/ the_ld2vss' = the_ld2vss
           \/ \E v \in Var : the_ld2vss' = Marked(v)
    PROVE  Reshaped(T)
<1>1. EnvOK(Env, High) /\ High \in Nat \ {0} /\ Depth \in Nat /\ T[Depth] = High
    BY Heads
<1>2. /\ High' = High
      /\ \A p \in 1..High :
            /\ Env'[p] \in Elem /\ Env'[p].node = Env[p].node /\ Env'[p].lin = Env[p].lin
            /\ Env[p].d2vs \subseteq Env'[p].d2vs
            /\ Env[p].node = "set" => Env'[p].d2vs = Env[p].d2vs
    BY MarkView
<1>3. EnvOK(Env', High')
    <2>1. High \in 1..High
        BY <1>1
    <2>2. EnvOK(Env', High)
        BY <1>1, <1>2, <2>1, EnvKept
    <2> QED BY <2>2, <1>2
<1>4. Alike(Env', Env, T[Depth])
    BY <1>1, <1>2 DEF Alike
<1> QED BY <1>1, <1>2, <1>3, <1>4, Reshape

\* A construct begins in the innermost scope.
LEMMA ShapeBegin ==
    ASSUME TypeOK, NEW T, Shaped(T), NEW kind \in {"branch", "tryup", "test"},
           NEW lsbis, DOMAIN lsbis = Local, NEW wait, NEW done,
           ctrl' = <<Frame(kind, lsbis, wait, done)>> \o ctrl, UNCHANGED envs
    PROVE  Reshaped(T)
<1>1. EnvOK(Env, High) /\ High \in Nat \ {0} /\ Depth \in Nat /\ T[Depth] = High
      /\ Env[High].node = "set"
    <2>1. Depth \in 0..Depth
        BY Heads
    <2> QED BY <2>1, Heads
<1>2. Env' = Env /\ High' = High
    BY DEF envs, Env, High
<1>3. /\ Depth' = Depth + 1 /\ Frames'[Depth + 1] = Frame(kind, lsbis, wait, done)
      /\ \A d \in 1..Depth : Frames'[d] = Frames[d]
    BY FrameViews
<1>4. Visible = InScope(Env, High) /\ Local = LocalAt(Env, High)
    BY <1>1, Views
<1>5. ASSUME NEW T2, T2[Depth] = T[Depth], T2[Depth'] = High'
      PROVE  FrameShape(Env', Frames', T2, Depth')
    <2>1. Depth' - 1 = Depth
        BY <1>1, <1>3
    <2>2. /\ Frames'[Depth'].kind = kind /\ Frames'[Depth'].lsbis = lsbis
          /\ Frames'[Depth'].outer = Visible
        BY <1>3 DEF Frame
    <2>3. Width(kind) = 0 /\ ~Bare(kind)
        BY DEF Width, Bare
    <2> QED BY <2>1, <2>2, <2>3, <1>1, <1>2, <1>4, <1>5 DEF FrameShape
<1>6. Alike(Env', Env, T[Depth]) /\ SameFrames(Frames', Frames, Depth)
    BY <1>2, <1>3 DEF Alike, SameFrames
<1>7. Depth \in 0..Depth /\ Depth' \in {Depth, Depth + 1} /\ Depth' # Depth /\ T[Depth] <= High'
    BY <1>1, <1>2, <1>3
<1>8. EnvOK(Env', High')
    BY <1>1, <1>2
<1> QED BY <1>5, <1>6, <1>7, <1>8, Reshape

\* A construct begins with a scope of its own.
Opens(kind, S) ==
    /\ S \in SUBSET Var /\ \A v \in S : kind = "lam" /\ v \notin Visible /\ S = {v}
    /\ IF kind = "let" THEN push ELSE push_lam(IF kind = "llam" THEN 1 ELSE 0, S)

\* A construct begins that opens a scope of its own.
LEMMA ShapeOpen ==
    ASSUME TypeOK, NEW T, Shaped(T), NEW kind \in {"let", "lam", "llam", "trydn"},
           NEW lsbis, NEW wait, NEW done,
           ctrl' = <<Frame(kind, lsbis, wait, done)>> \o ctrl, NEW S, Opens(kind, S)
    PROVE  Reshaped(T)
<1> USE DEF Opens
<1> DEFINE w == Width(kind)
           lin == IF kind = "llam" THEN 1 ELSE 0
<1>1. EnvOK(Env, High) /\ High \in Nat \ {0} /\ Depth \in Nat /\ T[Depth] = High
    BY Heads
<1>2. w \in {1, 2} /\ (w = 1 <=> kind = "let") /\ ~Saves(kind)
    BY DEF Width, Saves
<1>3. lin \in {0, 1}
    OBVIOUS
<1>4. (w = 1 => push /\ S = {}) /\ (w = 2 => push_lam(lin, S))
    BY <1>2
<1> HIDE DEF w, lin
<1>5. /\ High' = High + w /\ \A p \in 1..High : Env'[p] = Env[p]
      /\ Env'[High'] = LD2VSset(S) /\ (w = 2 => Env'[High + 1] = LD2VSlam(lin))
    BY <1>2, <1>3, <1>4, GrowView
<1>6. /\ Depth' = Depth + 1 /\ Frames'[Depth + 1] = Frame(kind, lsbis, wait, done)
      /\ \A d \in 1..Depth : Frames'[d] = Frames[d]
    BY FrameViews
<1>7. Visible = InScope(Env, High)
    BY <1>1, Views
<1>8. EnvOK(Env', High')
    <2>1. \A v \in S : v \notin InScope(Env, High) /\ S = {v}
        BY <1>7
    <2>2. High' \in {High + 1, High + 2} /\ (High' = High + 2 => w = 2)
        BY <1>1, <1>2, <1>5
    <2>3. High' = High + 2 => \E l \in {0, 1} : Env'[High + 1] = LD2VSlam(l)
        BY <2>2, <1>3, <1>5
    <2>4. Grown(Env', High', Env, High, S)
        BY <2>1, <2>2, <2>3, <1>5 DEF Grown
    <2> QED BY <2>4, <1>1, EnvGrown
<1>9. ASSUME NEW T2, T2[Depth] = T[Depth], T2[Depth'] = High'
      PROVE  FrameShape(Env', Frames', T2, Depth')
    <2>1. Depth' - 1 = Depth
        BY <1>1, <1>6
    <2>2. Frames'[Depth'].kind = kind
        BY <1>6 DEF Frame
    <2>3. w = 2 => High' - 1 = High + 1 /\ Env'[High' - 1].node = "lam" /\ Env'[High' - 1].lin = lin
        BY <1>1, <1>5 DEF LD2VSlam
    <2>4. Env'[High'].node = "set" /\ Env'[High'].d2vs = S
        BY <1>5 DEF LD2VSset
    <2>5. Bare(kind) => S = {}
        BY DEF Bare
    <2>6. kind \notin {"test", "loop"}
        OBVIOUS
    <2> QED BY <2>1, <2>2, <2>3, <2>4, <2>5, <2>6, <1>1, <1>2, <1>5, <1>9 DEF FrameShape, w, lin
<1>10. Alike(Env', Env, T[Depth]) /\ SameFrames(Frames', Frames, Depth)
    BY <1>1, <1>5, <1>6 DEF Alike, SameFrames
<1>11. Depth \in 0..Depth /\ Depth' \in {Depth, Depth + 1} /\ Depth' # Depth /\ T[Depth] <= High'
    BY <1>1, <1>2, <1>5, <1>6
<1> QED BY <1>8, <1>9, <1>10, <1>11, Reshape

\* A construct ends, and its scope with it if it has one.
LEMMA EndViews ==
    ASSUME TypeOK, NEW T, Shaped(T), ctrl # <<>>, Leave,
           IF Width(top.kind) = 0 THEN UNCHANGED envs ELSE pop
    PROVE  /\ Depth \in Nat \ {0} /\ Depth - 1 \in 0..Depth /\ Depth' = Depth - 1
           /\ \A d \in 1..(Depth - 1) : Frames'[d] = Frames[d]
           /\ High' = T[Depth - 1] /\ High' \in 1..High /\ \A p \in 1..High' : Env'[p] = Env[p]
<1> DEFINE w == Width(top.kind)
           m == Depth - 1
<1>1. Depth \in Nat \ {0} /\ top = Frames[Depth]
    BY FrameViews
<1>2. /\ EnvOK(Env, High) /\ High \in Nat \ {0} /\ FrameShape(Env, Frames, T, Depth)
      /\ m \in 0..Depth /\ T[m] = High - w /\ T[m] \in 1..High /\ Env[T[m]].node = "set"
      /\ T[Depth] = High
    BY <1>1, Heads
<1>3. w \in {0, 1, 2}
    BY DEF Width
<1>4. Depth' = m /\ \A d \in 1..m : Frames'[d] = Frames[d]
    BY FrameViews
<1>5. w = 2 => Env[High - 1].node = "lam"
    BY <1>1, <1>2 DEF FrameShape
<1>e. IF w = 0 THEN UNCHANGED envs ELSE pop
    OBVIOUS
<1> HIDE DEF w, m
<1>6. High' = High - w /\ \A p \in 1..(High - w) : Env'[p] = Env[p]
    <2>1. CASE w = 0
        BY <2>1, <1>2, <1>e DEF envs, Env, High
    <2>2. CASE w # 0
        <3>1. w \in {1, 2} /\ High > w /\ Env[High - w].node = "set"
            BY <2>2, <1>2, <1>3
        <3> QED BY <2>2, <3>1, <1>2, <1>5, <1>e, CloseView
    <2> QED BY <2>1, <2>2
<1>7. High' = T[m] /\ High' \in 1..High
    BY <1>2, <1>6
<1> QED BY <1>1, <1>2, <1>4, <1>6, <1>7 DEF m

\* A construct ends, and its scopes with it.
LEMMA ShapeEnd ==
    ASSUME TypeOK, NEW T, Shaped(T), ctrl # <<>>, Leave,
           IF Width(top.kind) = 0 THEN UNCHANGED envs ELSE pop
    PROVE  Reshaped(T)
<1> DEFINE m == Depth - 1
<1>1. /\ Depth \in Nat \ {0} /\ m \in 0..Depth /\ Depth' = m
      /\ \A d \in 1..m : Frames'[d] = Frames[d]
      /\ High' = T[m] /\ High' \in 1..High /\ \A p \in 1..High' : Env'[p] = Env[p]
    BY EndViews
<1>2. EnvOK(Env, High) /\ High \in Nat
    BY Heads
<1> HIDE DEF m
<1>3. EnvOK(Env', High')
    <2>1. \A p \in 1..High' : Env'[p] \in Elem
        BY <1>1, <1>2 DEF EnvOK
    <2> QED BY <2>1, <1>1, <1>2, EnvKept
<1>4. Alike(Env', Env, T[m]) /\ SameFrames(Frames', Frames, m)
    BY <1>1 DEF Alike, SameFrames
<1>5. T[m] <= High' /\ Depth' \in {m, m + 1} /\ Depth' # m + 1
    BY <1>1, <1>2
<1> QED BY <1>1, <1>3, <1>4, <1>5, Reshape

\* A construct goes on: its kind stays, or a loop's body follows its test, or
\* a handler what was tried.
LEMMA ShapeOn ==
    ASSUME TypeOK, NEW T, Shaped(T), ctrl # <<>>, NEW f, Become(f),
           f.lsbis = top.lsbis, f.outer = top.outer,
           \/ f.kind = top.kind /\ UNCHANGED envs
           \/ top.kind = "test" /\ f.kind = "loop" /\ UNCHANGED envs
           \/ top.kind = "trydn" /\ f.kind = "with" /\ UNCHANGED envs
           \/ top.kind = "tryup" /\ f.kind = "with" /\ push_lam(0, {})
    PROVE  Reshaped(T)
<1> DEFINE m == Depth - 1
           w == IF top.kind = "tryup" /\ f.kind = "with" THEN 2 ELSE 0
<1>1. Depth \in Nat \ {0} /\ top = Frames[Depth]
    BY FrameViews
<1>2. /\ EnvOK(Env, High) /\ High \in Nat \ {0} /\ FrameShape(Env, Frames, T, Depth)
      /\ m \in 0..Depth /\ T[m] = High - Width(top.kind) /\ T[m] \in 1..High
      /\ T[Depth] = High
    BY <1>1, Heads
<1>3. /\ Depth' = m + 1 /\ Depth = m + 1 /\ Frames'[Depth] = f
      /\ \A d \in 1..m : Frames'[d] = Frames[d]
    BY <1>1, FrameViews
<1>4. /\ w \in {0, 2} /\ (w = 0 => UNCHANGED envs) /\ (w = 2 => push_lam(0, {}))
      /\ Width(f.kind) = Width(top.kind) + w /\ (w = 2 => Width(top.kind) = 0)
      /\ Width(top.kind) \in {0, 1, 2}
    BY DEF Width
<1> HIDE DEF m, w
<1>5. /\ High' = High + w /\ \A p \in 1..High : Env'[p] = Env[p]
      /\ w = 2 => Env'[High'] = LD2VSset({}) /\ Env'[High + 1] = LD2VSlam(0)
    <2>1. CASE w = 0
        BY <2>1, <1>2, <1>4 DEF envs, Env, High
    <2>2. CASE w = 2
        BY <2>2, <1>4, GrowView
    <2> QED BY <2>1, <2>2, <1>4
<1>6. EnvOK(Env', High')
    <2>1. CASE w = 0
        <3>1. High' = High /\ Env' = Env
            BY <2>1, <1>4 DEF envs, Env, High
        <3> QED BY <3>1, <1>2
    <2>2. CASE w = 2
        <3>1. Grown(Env', High', Env, High, {})
            BY <2>2, <1>5 DEF Grown
        <3> QED BY <3>1, <1>2, EnvGrown
    <2> QED BY <2>1, <2>2, <1>4
<1>7. ASSUME NEW T2, T2[m] = T[m], T2[Depth'] = High'
      PROVE  FrameShape(Env', Frames', T2, Depth')
    <2>1. Depth' - 1 = m /\ Depth - 1 = m /\ Depth' = Depth /\ Frames'[Depth'] = f
        BY <1>1, <1>2, <1>3
    <2>2. T2[Depth'] = T2[Depth' - 1] + Width(f.kind) /\ T2[Depth' - 1] \in Nat \ {0}
        BY <2>1, <1>2, <1>4, <1>5, <1>7
    <2>3. /\ Env[High].node = "set"
          /\ Width(top.kind) = 2 =>
                /\ Env[High - 1].node = "lam"
                /\ Env[High - 1].lin = IF top.kind = "llam" THEN 1 ELSE 0
          /\ Bare(top.kind) => Env[High].d2vs = {}
          /\ Saves(top.kind) => DOMAIN top.lsbis = LocalAt(Env, High)
          /\ top.kind \in {"test", "loop"} => top.outer = InScope(Env, High)
        BY <1>1, <1>2, <2>1 DEF FrameShape
    <2>4. CASE w = 0
        <3>1. High' = High /\ Env' = Env
            BY <2>4, <1>4 DEF envs, Env, High
        <3>2. \/ f.kind = top.kind
              \/ top.kind = "test" /\ f.kind = "loop"
              \/ top.kind = "trydn" /\ f.kind = "with"
            BY <2>4 DEF w
        <3> QED BY <3>1, <3>2, <2>1, <2>2, <2>3, <1>7 DEF FrameShape, Width, Bare, Saves
    <2>5. CASE w = 2
        <3>1. f.kind = "with"
            BY <2>5 DEF w
        <3>2. /\ High' - 1 = High + 1 /\ Env'[High' - 1].node = "lam" /\ Env'[High' - 1].lin = 0
              /\ Env'[High'].node = "set" /\ Env'[High'].d2vs = {}
            BY <2>5, <1>2, <1>5 DEF LD2VSset, LD2VSlam
        <3> QED BY <3>1, <3>2, <2>1, <2>2, <1>7 DEF FrameShape, Saves
    <2> QED BY <2>4, <2>5, <1>4
<1>8. Alike(Env', Env, T[m]) /\ SameFrames(Frames', Frames, m)
    BY <1>2, <1>3, <1>5 DEF Alike, SameFrames
<1>9. T[m] <= High' /\ Depth' \in {m, m + 1} /\ Depth' # m
    BY <1>2, <1>3, <1>4, <1>5
<1> QED BY <1>2, <1>6, <1>7, <1>8, <1>9, Reshape

\* A variable is declared in the innermost scope.
LEMMA ShapeDeclare ==
    ASSUME TypeOK, NEW T, Shaped(T), In("let"), NEW v \in Var, v \notin Visible,
           the_ld2vs' = the_ld2vs \cup {v}, UNCHANGED <<the_ld2vss, ctrl>>
    PROVE  Reshaped(T)
<1> DEFINE m == Depth - 1
<1>1. Depth \in Nat \ {0} /\ top = Frames[Depth] /\ top.kind = "let"
    BY FrameViews DEF In, top
<1>2. /\ EnvOK(Env, High) /\ High \in Nat \ {0} /\ FrameShape(Env, Frames, T, Depth)
      /\ m \in 0..Depth /\ T[m] = High - Width("let") /\ T[m] \in 1..High
      /\ T[Depth] = High
    BY <1>1, Heads
<1>3. Width("let") = 1 /\ ~Bare("let") /\ ~Saves("let")
    BY DEF Width, Bare, Saves
<1>4. Depth' = Depth /\ Frames' = Frames /\ High' = High
    BY DEF Depth, Frames, High
<1>5. Visible = InScope(Env, High) /\ Env[High] = LD2VSset(the_ld2vs)
    BY <1>2, Views
<1>6. Env'[High] = LD2VSset(the_ld2vs \cup {v}) /\ \A p \in 1..High : p # High => Env'[p] = Env[p]
    <2> DEFINE v2 == the_ld2vs \cup {v}
    <2>1. /\ the_ld2vs \in SUBSET Var /\ v2 \in SUBSET Var /\ the_ld2vss \in Seq(Elem)
          /\ Len(the_ld2vss) \in Nat
        BY TypeParts, LenProperties
    <2>2. Env' = EnvOf(v2, the_ld2vss)
        BY DEF Env
    <2> HIDE DEF v2
    <2>3. /\ EnvOf(v2, the_ld2vss)[Len(the_ld2vss) + 1] = LD2VSset(v2)
          /\ \A p \in 1..Len(the_ld2vss) : EnvOf(v2, the_ld2vss)[p] = Flip(the_ld2vss)[p]
        BY <2>1, EnvTop
    <2>4. \A p \in 1..Len(the_ld2vss) : Env[p] = Flip(the_ld2vss)[p]
        BY <2>1, EnvTop DEF Env
    <2>5. \A p \in 1..High : p # High => p \in 1..Len(the_ld2vss)
        BY <2>1 DEF High
    <2> QED BY <2>2, <2>3, <2>4, <2>5 DEF High, v2
<1> HIDE DEF m
<1>7. EnvOK(Env', High')
    <2>1. the_ld2vs \in SUBSET Var /\ v \notin InScope(Env, High)
        BY <1>5, TypeParts
    <2>2. EnvOK(Env', High)
        BY <2>1, <1>2, <1>5, <1>6, EnvBound
    <2> QED BY <2>2, <1>4
<1>8. ASSUME NEW T2, T2[m] = T[m], T2[Depth'] = High'
      PROVE  FrameShape(Env', Frames', T2, Depth')
    <2>1. Env'[High].node = "set"
        BY <1>6 DEF LD2VSset
    <2>2. Depth' - 1 = m /\ T2[Depth' - 1] + 1 = High /\ T2[Depth' - 1] \in Nat \ {0}
        BY <1>2, <1>3, <1>4, <1>8 DEF m
    <2>3. "let" \notin {"test", "loop"}
        OBVIOUS
    <2> QED BY <2>1, <2>2, <2>3, <1>1, <1>3, <1>4, <1>8 DEF FrameShape
<1>9. Alike(Env', Env, T[m])
    <2>1. \A p \in 1..T[m] : p \in 1..High /\ p # High
        BY <1>2, <1>3
    <2> QED BY <2>1, <1>6 DEF Alike
<1>10. SameFrames(Frames', Frames, m)
    BY <1>4 DEF SameFrames
<1>11. T[m] <= High' /\ Depth' \in {m, m + 1} /\ Depth' # m
    BY <1>1, <1>2, <1>4 DEF m
<1> QED BY <1>2, <1>7, <1>8, <1>9, <1>10, <1>11, Reshape

\* An exception, a $break: only what the execution does after a construct
\* changes.
LEMMA DoneStays ==
    ASSUME TypeOK, NEW k, NEW x, PutDone(ctrl', ctrl, k, x)
    PROVE  Depth' = Depth /\ SameFrames(Frames', Frames, Depth)
<1>1. ctrl \in Seq(Context)
    BY TypeParts
<1>2. /\ Len(ctrl') = Len(ctrl)
      /\ \A d \in 1..Len(ctrl) :
            Flip(ctrl')[d] = IF d = Len(ctrl) + 1 - k /\ k \in 1..Len(ctrl)
                             THEN [Flip(ctrl)[d] EXCEPT !.done = x] ELSE Flip(ctrl)[d]
    BY <1>1, DoneTyped
<1>3. \A d \in 1..Len(ctrl) : Flip(ctrl)[d] \in Context
    BY <1>1, FlipReads
<1>4. ASSUME NEW d \in 1..Depth
      PROVE  /\ Frames'[d].kind = Frames[d].kind /\ Frames'[d].lsbis = Frames[d].lsbis
             /\ Frames'[d].outer = Frames[d].outer
    <2>1. \/ Frames'[d] = [Frames[d] EXCEPT !.done = x] \/ Frames'[d] = Frames[d]
        BY <1>2 DEF Frames, Depth
    <2>2. Frames[d] \in Context
        BY <1>3 DEF Frames, Depth
    <2> QED BY <2>1, <2>2 DEF Context
<1> QED BY <1>2, <1>4 DEF SameFrames, Depth

\* An exception puts the store of the execution into one frame.
LEMMA RaisePuts ==
    ASSUME TypeOK, Raise
    PROVE  PutDone(ctrl', ctrl, Nearest({"trydn", "tryup"}), run)
BY TypeParts DEF Raise, PutDone

\* So does a $break, without what the loop has bound.
LEMMA BreakPuts ==
    ASSUME TypeOK, Break
    PROVE  PutDone(ctrl', ctrl, Nearest({"loop"}),
                   Either(Without(run, Inner), ctrl[Nearest({"loop"})].done))
<1> DEFINE k == Nearest({"loop"})
           x == Either(Without(run, Inner), ctrl[k].done)
<1>1. ctrl' = [ctrl EXCEPT ![k].done = x]
    BY DEF Break
<1>2. ASSUME k \in 1..Len(ctrl) PROVE x \in Run
    <2>1. ctrl[k] \in Context
        BY <1>2, TypeParts, ElementOfSeq
    <2>2. ctrl[k].done \in Run /\ run \in Run
        BY <2>1, TypeParts DEF Context
    <2> QED BY <2>2, Stores
<1> HIDE DEF x, k
<1>3. PutDone(ctrl', ctrl, k, x)
    BY <1>1, <1>2 DEF PutDone
<1> QED BY <1>3 DEF k, x

\* Every construct keeps the shape.
LEMMA ShapeNext ==
    ASSUME TypeOK, NEW T, Shaped(T), Construct \/ Report \/ UNCHANGED vars
    PROVE  Reshaped(T)
<1>a. ctrl \in Seq(Context) /\ the_ld2vs \in SUBSET Var
    BY TypeParts
<1>b. Width("let") = 1 /\ Width("lam") = 2 /\ Width("llam") = 2 /\ Width("with") = 2
      /\ Width("branch") = 0 /\ Width("loop") = 0
    BY DEF Width
<1>c. UNCHANGED envs => the_ld2vs' = the_ld2vs /\ the_ld2vss' = the_ld2vss
    BY DEF envs
<1>d. ctrl' = ctrl => Depth' = Depth /\ SameFrames(Frames', Frames, Depth)
    BY DEF Depth, Frames, SameFrames
<1>e. DOMAIN save_lstbefitmlst = Local /\ \A R : DOMAIN lsbis1(R) = Local
    BY DEF save_lstbefitmlst, lsbis1
<1>1. CASE Let
    <2>1. ctrl' = <<Frame("let", Gone, Away, Away)>> \o ctrl /\ push
        BY <1>1 DEF Let, Enter
    <2>2. Opens("let", {})
        BY <2>1 DEF Opens
    <2> QED BY <2>1, <2>2, ShapeOpen
<1>2. CASE LetEnd
    <2>1. ctrl # <<>> /\ top.kind = "let" /\ Leave /\ pop
        BY <1>2 DEF LetEnd, ScopeEnd, In, top
    <2> QED BY <2>1, <1>b, ShapeEnd
<1>3. CASE LamEnd
    <2>1. ctrl # <<>> /\ top.kind = "lam" /\ Leave /\ pop
        BY <1>3 DEF LamEnd, ScopeEnd, In, top
    <2> QED BY <2>1, <1>b, ShapeEnd
<1>4. CASE LLamEnd
    <2>1. ctrl # <<>> /\ top.kind = "llam" /\ Leave /\ pop
        BY <1>4 DEF LLamEnd, In, top
    <2> QED BY <2>1, <1>b, ShapeEnd
<1>5. CASE Lam
    <2>1. ctrl' = <<Frame("lam", Gone, run, Away)>> \o ctrl /\ push_lam(0, {})
        BY <1>5 DEF Lam, lampush, Enter
    <2>2. Opens("lam", {})
        BY <2>1 DEF Opens
    <2> QED BY <2>1, <2>2, ShapeOpen
<1>6. CASE LLam
    <2>1. ctrl' = <<Frame("llam", Gone, run, Away)>> \o ctrl /\ push_lam(1, {})
        BY <1>6 DEF LLam, lampush, Enter
    <2>2. Opens("llam", {})
        BY <2>1 DEF Opens
    <2> QED BY <2>1, <2>2, ShapeOpen
<1>7. ASSUME NEW v \in Var, NEW t \in Type, NEW fin \in Maybe, LamArg(v, t, fin) PROVE Reshaped(T)
    <2>1. /\ ctrl' = <<Frame("lam", Gone, run, Away)>> \o ctrl /\ push_lam(0, {v})
          /\ v \notin Visible
        BY <1>7 DEF LamArg, lampush, Enter, Bind
    <2>2. {v} \in SUBSET Var /\ \A u \in {v} : u \notin Visible /\ {v} = {u}
        BY <2>1
    <2>3. Opens("lam", {v})
        BY <2>1, <2>2 DEF Opens
    <2> QED BY <2>1, <2>3, ShapeOpen
<1>8. ASSUME NEW v \in Var, NEW t \in Type, Declare(v, t) PROVE Reshaped(T)
    BY <1>8, ShapeDeclare DEF Declare, Bind
<1>9. ASSUME NEW v \in Var, NEW t, TrupVar(v, t) PROVE Reshaped(T)
    BY <1>9, <1>d, ShapeStay DEF TrupVar
<1>10. CASE Branch
    <2>1. /\ \E wait : ctrl' = <<Frame("branch", save_lstbefitmlst, wait, Away)>> \o ctrl
          /\ UNCHANGED envs
        BY <1>10 DEF Branch, Enter
    <2> QED BY <2>1, <1>e, ShapeBegin
<1>11. CASE NextBranch
    <2> DEFINE f == [top EXCEPT !.saits = <<d2var_type>>, !.wait = Away, !.done = run]
    <2>1. ctrl # <<>> /\ Become(f) /\ UNCHANGED envs
        BY <1>11 DEF NextBranch, In
    <2>2. top \in Context
        BY <2>1, Innermost
    <2>3. f.kind = top.kind /\ f.lsbis = top.lsbis /\ f.outer = top.outer
        BY <2>2 DEF Context
    <2> HIDE DEF f
    <2> QED BY <2>1, <2>3, ShapeOn
<1>12. ASSUME NEW M, Join(M) PROVE Reshaped(T)
    <2>1. ctrl # <<>> /\ top.kind = "branch" /\ Leave /\ UNCHANGED envs
        BY <1>12 DEF Join, In, top
    <2> QED BY <2>1, <1>b, ShapeEnd
<1>13. CASE TryDn
    <2>1. ctrl' = <<Frame("trydn", Gone, Away, Away)>> \o ctrl /\ push_lam(0, {})
        BY <1>13 DEF TryDn, Enter
    <2>2. Opens("trydn", {})
        BY <2>1 DEF Opens
    <2> QED BY <2>1, <2>2, ShapeOpen
<1>14. CASE TryUp
    <2>1. ctrl' = <<Frame("tryup", save_lstbefitmlst, Away, Away)>> \o ctrl /\ UNCHANGED envs
        BY <1>14 DEF TryUp, Enter
    <2> QED BY <2>1, <1>e, ShapeBegin
<1>15. CASE Raise
    <2>1. UNCHANGED envs
        BY <1>15 DEF Raise
    <2> QED BY <2>1, <1>15, <1>c, RaisePuts, DoneStays, ShapeStay
<1>16. ASSUME ctrl # <<>>, Handler,
              \/ top.kind = "trydn" /\ UNCHANGED envs
              \/ top.kind = "tryup" /\ push_lam(0, {})
       PROVE  Reshaped(T)
    <2> DEFINE f == [top EXCEPT !.kind = "with", !.wait = run, !.done = Away]
    <2>1. Become(f)
        BY <1>16 DEF Handler
    <2>2. top \in Context
        BY <1>16, Innermost
    <2>3. f.kind = "with" /\ f.lsbis = top.lsbis /\ f.outer = top.outer
        BY <2>2 DEF Context
    <2> HIDE DEF f
    <2> QED BY <2>1, <2>3, <1>16, ShapeOn
<1>17. CASE WithDn
    BY <1>17, <1>16 DEF WithDn, In, top
<1>18. CASE WithUp
    BY <1>18, <1>16 DEF WithUp, In, top
<1>19. CASE TryEnd
    <2>1. ctrl # <<>> /\ top.kind = "with" /\ Leave /\ pop
        BY <1>19 DEF TryEnd, In, top
    <2> QED BY <2>1, <1>b, ShapeEnd
<1>20. ASSUME NEW R, Loop(R) PROVE Reshaped(T)
    <2>1. ctrl' = <<Frame("test", lsbis1(R), Away, Away)>> \o ctrl /\ UNCHANGED envs
        BY <1>20 DEF Loop, Enter
    <2> QED BY <2>1, <1>e, ShapeBegin
<1>21. CASE LoopTest
    <2>1. /\ ctrl # <<>> /\ top.kind = "test" /\ UNCHANGED envs
          /\ \E f : /\ f \in {[top EXCEPT !.kind = "loop", !.done = run], [top EXCEPT !.kind = "loop"]}
                    /\ Become(f)
        BY <1>21 DEF LoopTest, In, top
    <2>2. PICK f : /\ f \in {[top EXCEPT !.kind = "loop", !.done = run], [top EXCEPT !.kind = "loop"]}
                   /\ Become(f)
        BY <2>1
    <2>3. top \in Context
        BY <2>1, Innermost
    <2>4. f.kind = "loop" /\ f.lsbis = top.lsbis /\ f.outer = top.outer
        BY <2>2, <2>3 DEF Context
    <2> QED BY <2>1, <2>2, <2>4, ShapeOn
<1>22. CASE LoopEnd
    <2>1. ctrl # <<>> /\ top.kind = "loop" /\ Leave /\ UNCHANGED envs
        BY <1>22 DEF LoopEnd, In, top
    <2> QED BY <2>1, <1>b, ShapeEnd
<1>23. CASE Break
    <2>1. UNCHANGED envs
        BY <1>23 DEF Break, loopexn
    <2> QED BY <2>1, <1>23, <1>c, BreakPuts, DoneStays, ShapeStay
<1>24. CASE Continue
    <2>1. UNCHANGED envs /\ ctrl' = ctrl
        BY <1>24 DEF Continue, loopexn
    <2> QED BY <2>1, <1>c, <1>d, ShapeStay
<1>25. CASE Report
    <2>1. UNCHANGED envs /\ ctrl' = ctrl
        BY <1>25 DEF Report
    <2> QED BY <2>1, <1>c, <1>d, ShapeStay
<1>26. CASE UNCHANGED vars
    <2>1. UNCHANGED envs /\ ctrl' = ctrl
        BY <1>26 DEF vars
    <2> QED BY <2>1, <1>c, <1>d, ShapeStay
<1> QED
    BY <1>1, <1>2, <1>3, <1>4, <1>5, <1>6, <1>7, <1>8, <1>9, <1>10, <1>11, <1>12, <1>13, <1>14,
       <1>15, <1>17, <1>18, <1>19, <1>20, <1>21, <1>22, <1>23, <1>24, <1>25, <1>26
       DEF Construct, Use, Borrow

-----------------------------------------------------------------------------
(* What lies outside is left alone.                                        *)

\* The initial state is well shaped.
LEMMA InitShaped == Init => \E T : Shaped(T)
<1> SUFFICES ASSUME Init PROVE \E T : Shaped(T)
    OBVIOUS
<1>1. /\ the_ld2vs = {} /\ the_ld2vss = <<>> /\ ctrl = <<>>
      /\ {} \in SUBSET Var /\ <<>> \in Seq(Elem) /\ Len(<<>>) = 0
    BY EmptySeq DEF Init
<1>2. High = 1 /\ Depth = 0
    BY <1>1 DEF High, Depth
<1>3. Env[1] = LD2VSset({})
    <2>1. Env = EnvOf({}, <<>>)
        BY <1>1 DEF Env
    <2>2. EnvOf({}, <<>>)[Len(<<>>) + 1] = LD2VSset({})
        BY <1>1, EnvTop
    <2> QED BY <2>1, <2>2, <1>1
<1>4. LD2VSset({}) \in Elem /\ LD2VSset({}).node = "set" /\ LD2VSset({}).lin = 1
    BY Elems DEF LD2VSset
<1>5. EnvOK(Env, High)
    BY <1>2, <1>3, <1>4 DEF EnvOK
<1> DEFINE T == [d \in 0..0 |-> 1]
<1>6. T[0] = 1 /\ T \in [0..0 -> 1..1]
    OBVIOUS
<1> HIDE DEF T
<1>7. Shape(Env, High, Frames, Depth, T)
    BY <1>2, <1>5, <1>6 DEF Shape
<1> QED BY <1>7 DEF Shaped

\* Every assignment to the types goes to variables within reach, or to new
\* ones.
LEMMA Assigned ==
    ASSUME TypeOK, NEW T, Shaped(T), Construct \/ Report, NEW v \in Visible, v \notin Local
    PROVE  d2var_type'[v] = d2var_type[v]
<1>1. d2var_type \in [Var -> Maybe] /\ v \in Var /\ the_ld2vs \subseteq Local
    BY TypeParts, Scopes DEF Store, Local
<1>2. ASSUME NEW u \in Var, NEW t, NEW fin, Bind(u, t, fin) PROVE d2var_type'[v] = d2var_type[v]
    BY <1>1, <1>2 DEF Bind
<1>3. ASSUME ScopeEnd PROVE d2var_type'[v] = d2var_type[v]
    <2>1. d2var_type' = Without(d2var_type, the_ld2vs)
        BY <1>3 DEF ScopeEnd, Forget
    <2> QED BY <2>1, <1>1 DEF Without
<1>4. ASSUME NEW u \in Var, NEW t, NEW x, TrupVar(u, t), d2var_type' = [d2var_type EXCEPT ![u] = x]
      PROVE  d2var_type'[v] = d2var_type[v]
    <2>1. u \in Local
        BY <1>4 DEF TrupVar, Usable
    <2> QED BY <2>1, <1>1, <1>4
<1>5. ASSUME NEW lsbis, DOMAIN lsbis = Local, d2var_type' = restore_type(lsbis)
      PROVE  d2var_type'[v] = d2var_type[v]
    BY <1>1, <1>5 DEF restore_type
<1>6. ASSUME ctrl # <<>>, Saves(top.kind) PROVE DOMAIN top.lsbis = Local
    <2>1. Depth \in Nat \ {0} /\ top = Frames[Depth]
        BY <1>6, FrameViews
    <2>2. FrameShape(Env, Frames, T, Depth) /\ EnvOK(Env, High) /\ T[Depth] = High
        BY <2>1, Heads
    <2>3. Local = LocalAt(Env, High)
        BY <2>2, Views
    <2> QED BY <2>1, <2>2, <2>3, <1>6 DEF FrameShape
<1>7. UNCHANGED dvars => d2var_type'[v] = d2var_type[v]
    BY DEF dvars
<1>8. CASE Let \/ Lam \/ LLam \/ Branch \/ TryDn \/ TryUp
    BY <1>7, <1>8 DEF Let, Lam, LLam, Branch, TryDn, TryUp
<1>9. CASE Raise \/ WithDn \/ WithUp \/ TryEnd \/ LoopTest \/ Break \/ Continue \/ LLamEnd
    BY <1>7, <1>9 DEF Raise, WithDn, WithUp, Handler, TryEnd, LoopTest, Break, Continue, loopexn, LLamEnd
<1>10. CASE LetEnd \/ LamEnd
    BY <1>3, <1>10 DEF LetEnd, LamEnd
<1>11. CASE NextBranch
    <2>1. ctrl # <<>> /\ top.kind = "branch" /\ d2var_type' = restore_type(top.lsbis)
        BY <1>11 DEF NextBranch, In, top
    <2> QED BY <2>1, <1>5, <1>6 DEF Saves
<1>12. ASSUME NEW M, Join(M) PROVE d2var_type'[v] = d2var_type[v]
    <2>1. /\ ctrl # <<>> /\ top.kind = "branch" /\ M \in Merges
          /\ d2var_type' = [u \in Var |-> IF u \in M THEN mastype[u] ELSE d2var_type[u]]
        BY <1>12 DEF Join, In, top
    <2>2. M \subseteq DOMAIN top.lsbis
        BY <2>1 DEF Merges
    <2>3. DOMAIN top.lsbis = Local
        BY <2>1, <1>6 DEF Saves
    <2> QED BY <2>1, <2>2, <2>3, <1>1
<1>13. ASSUME NEW R, Loop(R) PROVE d2var_type'[v] = d2var_type[v]
    <2>1. d2var_type' = restore_type(lsbis1(R)) /\ DOMAIN lsbis1(R) = Local
        BY <1>13 DEF Loop, lsbis1
    <2> QED BY <2>1, <1>5
<1>14. CASE LoopEnd
    <2>1. ctrl # <<>> /\ top.kind = "loop" /\ d2var_type' = restore_type(top.lsbis)
        BY <1>14 DEF LoopEnd, In, top
    <2> QED BY <2>1, <1>5, <1>6 DEF Saves
<1>15. ASSUME NEW u \in Var, NEW t \in Type, Declare(u, t) \/ Use(u, t)
       PROVE  d2var_type'[v] = d2var_type[v]
    BY <1>2, <1>4, <1>15 DEF Declare, Use
<1>16. ASSUME NEW u \in Var, NEW t \in Type, NEW fin \in Maybe, LamArg(u, t, fin)
       PROVE  d2var_type'[v] = d2var_type[v]
    BY <1>2, <1>16 DEF LamArg
<1>17. ASSUME NEW u \in Var, NEW t \in Type, NEW t2 \in Type, Borrow(u, t, t2)
       PROVE  d2var_type'[v] = d2var_type[v]
    BY <1>4, <1>17 DEF Borrow
<1>18. CASE Report
    BY <1>7, <1>18 DEF Report
<1> QED
    BY <1>8, <1>9, <1>10, <1>11, <1>12, <1>13, <1>14, <1>15, <1>16, <1>17, <1>18 DEF Construct

\* What lies outside of a function that is not linear, or of a try, keeps its
\* type until that ends, whatever is nested in it and however deep.
THEOREM UntouchedHolds == Spec => Untouched
<1> DEFINE IInv == TypeOK /\ \E T : Shaped(T)
<1>1. Init => IInv
    BY InitTyped, InitShaped
<1>2. IInv /\ [Next]_vars => IInv'
    <2> SUFFICES ASSUME TypeOK, NEW T, Shaped(T), [Next]_vars PROVE IInv'
        OBVIOUS
    <2>1. TypeOK'
        BY TypeStep DEF Next, Reject, vars, dvars, envs, exec, TypeOK
    <2>2. Reshaped(T)
        BY ShapeNext DEF Next, Reject
    <2>3. PICK T2 : T2 = TopAt(T, Depth', High')
        OBVIOUS
    <2>4. Shaped(T2)'
        BY <2>2, <2>3 DEF Reshaped, Shaped
    <2> QED BY <2>1, <2>4
<1>3. IInv /\ [Next]_vars => [\A v \in Sealed : d2var_type'[v] = d2var_type[v]]_vars
    <2> SUFFICES ASSUME TypeOK, NEW T, Shaped(T), Next, NEW v \in Sealed
                 PROVE  d2var_type'[v] = d2var_type[v]
        OBVIOUS
    <2>1. EnvOK(Env, High)
        BY Heads
    <2>2. v \in Outside(Env, High) /\ Local = LocalAt(Env, High) /\ Visible = InScope(Env, High)
        BY <2>1, Views
    <2>3. v \notin Local
        BY <2>1, <2>2, LocalInside
    <2>4. v \in Visible
        BY <2>2 DEF Outside, InScope
    <2> QED BY <2>3, <2>4, Assigned DEF Next, Reject
<1> QED BY <1>1, <1>2, <1>3, PTL DEF Spec, Untouched

-----------------------------------------------------------------------------
(***************************************************************************)
(* The checker is sound (LinearTypes): an execution of a program that it   *)
(* has not refused holds what the checker believes.                        *)
(*                                                                         *)
(* The invariant says of every construct around what is translated what    *)
(* the checker will believe when it comes back to it, and that an          *)
(* execution which waits there fits that.  It is stated of all variables   *)
(* that are in scope in the same function (Reach), those included that a   *)
(* search from within does not find: a handler, a linear function or the   *)
(* rest of a loop finds them again.  A step changes the types of what a    *)
(* search finds from where it is (Changes), so constructs which put up a   *)
(* marker keep the types around them; the others compare with what they    *)
(* have saved (Base, First).  Two constructs keep neither, and are cared   *)
(* for separately: a try without an expected type (Seals), whose variables *)
(* the branches within it may still change, and a linear function (Takes), *)
(* whose marker grows.                                                     *)
(***************************************************************************)

(* What executions hold.                                                   *)

\* The variables that the d-th construct and the function around it have in
\* scope.
Reach(E, F, T, d) ==
    {v \in Var : \E p \in 1..T[d] :
        v \in Scope(E, p) /\ \A c \in 1..d : F[c].kind = "lam" => T[c - 1] < p}

\* An execution with store s, if it comes here, fits the types t of variables S.
FitsRun(s, t, S) == s # Away => Fits(s, t, S)

\* The types with which a construct began, and those at the end of the first
\* branch.
Base(f, D) == [v \in Var |-> IF v \in DOMAIN f.lsbis THEN f.lsbis[v] ELSE D[v]]
First(f, D) == [v \in Var |-> IF v \in DOMAIN f.lsbis THEN f.saits[1][v] ELSE D[v]]

\* The executions that are not here fit the types that there will be when
\* the translation comes to where they go on.
Waits(E, F, T, D, d) ==
    /\ F[d].kind \in {"lam", "with"} => FitsRun(F[d].wait, D, Reach(E, F, T, d - 1))
    /\ F[d].kind = "trydn" => FitsRun(F[d].done, D, Reach(E, F, T, d - 1))
    /\ F[d].kind = "branch" =>
          /\ FitsRun(F[d].wait, Base(F[d], D), Reach(E, F, T, d))
          /\ Len(F[d].saits) <= 1 /\ (F[d].saits = <<>> => F[d].done = Away)
          /\ F[d].saits # <<>> => FitsRun(F[d].done, First(F[d], D), Reach(E, F, T, d))
    /\ F[d].kind \in {"test", "loop"} => FitsRun(F[d].done, Base(F[d], D), Reach(E, F, T, d))

\* An exception from within a try: a value x of v fits, now or when a branch
\* that has been left is joined.
Covered(F, n, D, d, v, x) ==
    \/ VarCK(x, D[v])
    \/ \E e \in (d + 1)..n : /\ F[e].kind = "branch" /\ F[e].saits # <<>>
                             /\ v \in DOMAIN F[e].lsbis /\ VarCK(x, F[e].saits[1][v])
Seals(E, F, n, T, D, d) ==
    F[d].kind = "tryup" /\ F[d].done # Away =>
       \A v \in Reach(E, F, T, d) : Covered(F, n, D, d, v, F[d].done[v])

\* A linear function: what it has not taken still fits, in all branches.
Kept(F, n, D, d, v, x) ==
    /\ VarCK(x, D[v])
    /\ \A e \in (d + 1)..n :
          F[e].kind = "branch" /\ v \in DOMAIN F[e].lsbis => VarCK(x, F[e].lsbis[v])
Takes(E, F, n, T, D, d) ==
    F[d].kind = "llam" =>
       /\ E[T[d] - 1].d2vs \subseteq LocalAt(E, T[d - 1])
       /\ F[d].wait # Away =>
             \A v \in Reach(E, F, T, d - 1) :
                v \notin E[T[d] - 1].d2vs => Kept(F, n, D, d, v, F[d].wait[v])

\* Fitting is transitive: None fits None only, and types by the subtype relation.
LEMMA Through ==
    ASSUME NEW x, NEW y, NEW z, VarCK(x, y), VarCK(y, z)
    PROVE  VarCK(x, z)
BY TypesAssumption DEF VarCK

\* What is within reach is in scope.
LEMMA ReachIn ==
    ASSUME NEW E, NEW F, NEW T, NEW d
    PROVE  Reach(E, F, T, d) \subseteq InScope(E, T[d])
BY DEF Reach, InScope

\* What a search finds is within reach.
LEMMA LocalReach ==
    ASSUME NEW E, NEW L, NEW F, NEW n, NEW T, Shape(E, L, F, n, T), NEW d \in 0..n
    PROVE  LocalAt(E, T[d]) \subseteq Reach(E, F, T, d)
<1> SUFFICES ASSUME NEW v \in LocalAt(E, T[d]) PROVE v \in Reach(E, F, T, d)
    OBVIOUS
<1>1. PICK p \in 1..T[d] : v \in Scope(E, p) /\ \A q \in p..T[d] : E[q].lin # 0
    BY DEF LocalAt
<1>2. ASSUME NEW c \in 1..d, F[c].kind = "lam" PROVE T[c - 1] < p
    <2>1. /\ c \in 1..n /\ c \in 0..n /\ c - 1 \in 0..n /\ n \in Nat
          /\ T[c] \in Nat /\ T[c - 1] \in Nat /\ T[d] \in Nat /\ T[c] <= T[d]
        BY DEF Shape
    <2>2. T[c] = T[c - 1] + 2 /\ E[T[c] - 1].lin = 0
        <3>1. FrameShape(E, F, T, c)
            BY <2>1 DEF Shape
        <3> QED BY <3>1, <1>2 DEF FrameShape, Width
    <2>3. ASSUME ~(T[c - 1] < p) PROVE T[c] - 1 \in p..T[d]
        BY <2>1, <2>2, <2>3
    <2> QED BY <2>2, <2>3, <1>1
<1> QED BY <1>1, <1>2 DEF Reach, LocalAt

\* Reach grows inwards as long as no function begins.
LEMMA ReachGrows ==
    ASSUME NEW E, NEW L, NEW F, NEW n, NEW T, Shape(E, L, F, n, T),
           NEW d \in 0..n, NEW e \in 0..n, d <= e,
           \A c \in (d + 1)..e : F[c].kind # "lam"
    PROVE  Reach(E, F, T, d) \subseteq Reach(E, F, T, e)
<1>1. n \in Nat /\ T[d] \in Nat /\ T[e] \in Nat /\ T[d] <= T[e]
    BY DEF Shape
<1>2. \A p \in 1..T[d] : p \in 1..T[e]
    BY <1>1
<1>3. \A c \in 1..e : c \in 1..d \/ c \in (d + 1)..e
    BY <1>1
<1> QED BY <1>2, <1>3 DEF Reach

\* A search from within finds what a search from around it finds.
LEMMA LocalDown ==
    ASSUME NEW E, NEW L, EnvOK(E, L), NEW g \in 1..L, NEW h \in 1..L, g <= h,
           NEW v \in InScope(E, g), v \in LocalAt(E, h)
    PROVE  v \in LocalAt(E, g)
<1>1. PICK p \in 1..h : v \in Scope(E, p) /\ \A q \in p..h : E[q].lin # 0
    BY DEF LocalAt
<1>2. PICK p2 \in 1..g : v \in Scope(E, p2)
    BY DEF InScope
<1>3. L \in Nat /\ p \in 1..L /\ p2 \in 1..L
    BY DEF EnvOK
<1>4. p2 = p
    BY <1>1, <1>2, <1>3 DEF EnvOK
<1>5. \A q \in p..g : q \in p..h
    BY <1>3
<1> QED BY <1>1, <1>2, <1>4, <1>5 DEF LocalAt, InScope

\* A search from within a function or a try finds nothing around it.
LEMMA Barrier ==
    ASSUME NEW E, NEW L, NEW F, NEW n, NEW T, Shape(E, L, F, n, T), NEW d \in 1..n,
           F[d].kind \in {"lam", "trydn", "with"}, NEW v \in InScope(E, T[d - 1])
    PROVE  v \in InScope(E, T[d]) /\ v \notin LocalAt(E, T[d])
<1>1. /\ EnvOK(E, L) /\ d \in 0..n /\ d - 1 \in 0..n /\ L \in Nat
      /\ T[d] \in 1..L /\ T[d - 1] \in 1..L
    BY DEF Shape, EnvOK
<1>2. T[d] = T[d - 1] + 2 /\ E[T[d] - 1].lin = 0
    <2>1. FrameShape(E, F, T, d)
        BY DEF Shape
    <2> QED BY <2>1 DEF FrameShape, Width
<1>3. PICK p \in 1..T[d - 1] : v \in Scope(E, p)
    BY DEF InScope
<1>4. p \in 1..T[d] /\ p \in 1..L /\ T[d] - 1 \in p..T[d]
    BY <1>1, <1>2
<1>5. ASSUME NEW p2 \in 1..T[d], v \in Scope(E, p2) PROVE p2 = p
    <2>1. p2 \in 1..L
        BY <1>1
    <2> QED BY <2>1, <1>1, <1>3, <1>4, <1>5 DEF EnvOK
<1>6. v \notin LocalAt(E, T[d])
    BY <1>2, <1>4, <1>5 DEF LocalAt
<1> QED BY <1>3, <1>4, <1>6 DEF InScope

\* The first m constructs and their scopes are as they were, but for marks.
Same(E2, F2, T2, E, F, T, m) ==
    Alike(E2, E, T[m]) /\ (\A d \in 1..m : F2[d] = F[d]) /\ (\A d \in 0..m : T2[d] = T[d])

\* What keeps its constructs and scopes keeps what it has within reach.
LEMMA ReachSame ==
    ASSUME NEW E, NEW L, NEW F, NEW n, NEW T, Shape(E, L, F, n, T),
           NEW E2, NEW F2, NEW T2, NEW m \in 0..n, Same(E2, F2, T2, E, F, T, m), NEW d \in 0..m
    PROVE  /\ Reach(E2, F2, T2, d) = Reach(E, F, T, d) /\ T2[d] = T[d]
           /\ LocalAt(E2, T2[d]) = LocalAt(E, T[d]) /\ InScope(E2, T2[d]) = InScope(E, T[d])
<1>1. /\ n \in Nat /\ d \in 0..n /\ T[m] \in Nat /\ T[d] \in 0..T[m]
      /\ \A c \in 1..d : c \in 1..m /\ c - 1 \in 0..m
    BY DEF Shape
<1>2. /\ \A p \in 1..T[d] : Scope(E2, p) = Scope(E, p)
      /\ LocalAt(E2, T[d]) = LocalAt(E, T[d]) /\ InScope(E2, T[d]) = InScope(E, T[d])
    BY <1>1, AlikeScopes DEF Same
<1>3. T2[d] = T[d] /\ \A c \in 1..d : F2[c] = F[c] /\ T2[c - 1] = T[c - 1]
    BY <1>1 DEF Same
<1>4. Reach(E2, F2, T2, d) = Reach(E, F, T, d)
    BY <1>2, <1>3 DEF Reach
<1> QED BY <1>2, <1>3, <1>4

\* The types that a step changes are those of variables within reach.
Changes(E, T, m, D, D2) ==
    \A d \in 0..m : \A v \in InScope(E, T[d]) : v \notin LocalAt(E, T[d]) => D2[v] = D[v]

\* The checker changes the types of what a search finds, and nothing else.
LEMMA StepChanges ==
    ASSUME TypeOK, NEW T, Shaped(T), Construct \/ Report
    PROVE  Changes(Env, T, Depth, d2var_type, d2var_type')
<1> SUFFICES ASSUME NEW d \in 0..Depth, NEW v \in InScope(Env, T[d]), v \notin LocalAt(Env, T[d])
             PROVE  d2var_type'[v] = d2var_type[v]
    BY DEF Changes
<1>1. EnvOK(Env, High) /\ T[Depth] = High /\ Depth \in Nat /\ High \in Nat /\ T[d] \in 1..High
    BY Heads
<1>2. Visible = InScope(Env, High) /\ Local = LocalAt(Env, High)
    BY <1>1, Views
<1>3. v \in Visible
    <2>1. \A p \in 1..T[d] : p \in 1..High
        BY <1>1
    <2> QED BY <2>1, <1>2 DEF InScope
<1>4. v \notin Local
    <2>1. High \in 1..High /\ T[d] <= High
        BY <1>1
    <2> QED BY <2>1, <1>1, <1>2, LocalDown
<1> QED BY <1>3, <1>4, Assigned

\* An execution that waits at a construct which a step keeps still fits.
LEMMA WaitsOn ==
    ASSUME NEW E, NEW L, NEW F, NEW n, NEW T, Shape(E, L, F, n, T),
           NEW E2, NEW F2, NEW T2, NEW m \in 0..n, Same(E2, F2, T2, E, F, T, m),
           NEW D, NEW D2, Changes(E, T, n, D, D2),
           NEW d \in 1..m, Waits(E, F, T, D, d)
    PROVE  Waits(E2, F2, T2, D2, d)
<1>1. n \in Nat /\ d \in 1..n /\ d \in 0..n /\ d - 1 \in 0..n /\ d \in 0..m /\ d - 1 \in 0..m
    BY DEF Shape
<1>2. /\ Reach(E2, F2, T2, d) = Reach(E, F, T, d)
      /\ Reach(E2, F2, T2, d - 1) = Reach(E, F, T, d - 1)
    BY <1>1, ReachSame
<1>3. F2[d] = F[d]
    BY DEF Same
<1>4. ASSUME F[d].kind \in {"lam", "trydn", "with"}, NEW v \in Reach(E, F, T, d - 1)
      PROVE  D2[v] = D[v]
    <2>1. v \in InScope(E, T[d - 1])
        BY ReachIn
    <2>2. v \in InScope(E, T[d]) /\ v \notin LocalAt(E, T[d])
        BY <2>1, <1>1, <1>4, Barrier
    <2> QED BY <2>2, <1>1 DEF Changes
<1>5. ASSUME Saves(F[d].kind), NEW v \in Reach(E, F, T, d)
      PROVE  Base(F[d], D2)[v] = Base(F[d], D)[v] /\ First(F[d], D2)[v] = First(F[d], D)[v]
    <2>1. v \in InScope(E, T[d]) /\ v \in Var
        BY ReachIn DEF InScope
    <2>2. DOMAIN F[d].lsbis = LocalAt(E, T[d])
        BY <1>1, <1>5 DEF Shape, FrameShape
    <2>3. v \notin DOMAIN F[d].lsbis => D2[v] = D[v]
        BY <2>1, <2>2, <1>1 DEF Changes
    <2> QED BY <2>1, <2>3 DEF Base, First
<1>6. CASE F[d].kind \in {"lam", "trydn", "with"}
    BY <1>2, <1>3, <1>4, <1>6 DEF Waits, FitsRun, Fits
<1>7. CASE F[d].kind \in {"branch", "test", "loop"}
    <2>1. \A v \in Reach(E, F, T, d) :
             Base(F[d], D2)[v] = Base(F[d], D)[v] /\ First(F[d], D2)[v] = First(F[d], D)[v]
        BY <1>5, <1>7 DEF Saves
    <2>2. \A s : FitsRun(s, Base(F[d], D), Reach(E, F, T, d)) => FitsRun(s, Base(F[d], D2), Reach(E, F, T, d))
        BY <2>1 DEF FitsRun, Fits
    <2>3. \A s : FitsRun(s, First(F[d], D), Reach(E, F, T, d)) => FitsRun(s, First(F[d], D2), Reach(E, F, T, d))
        BY <2>1 DEF FitsRun, Fits
    <2> QED BY <2>2, <2>3, <1>2, <1>3, <1>7 DEF Waits
<1>8. CASE F[d].kind \notin {"lam", "trydn", "with", "branch", "test", "loop"}
    BY <1>3, <1>8 DEF Waits
<1> QED BY <1>6, <1>7, <1>8

\* A try or a linear function around what a step does.
LEMMA SealsOn ==
    ASSUME NEW E, NEW L, NEW F, NEW n, NEW T, Shape(E, L, F, n, T),
           NEW E2, NEW F2, NEW n2, NEW T2, NEW m \in 0..n, Same(E2, F2, T2, E, F, T, m),
           NEW D, NEW D2, NEW d \in 1..m, Seals(E, F, n, T, D, d),
           F[d].kind = "tryup" =>
              \A v \in InScope(E, T[d]) :
                 Covered(F, n, D, d, v, F[d].done[v]) => Covered(F2, n2, D2, d, v, F[d].done[v])
    PROVE  Seals(E2, F2, n2, T2, D2, d)
<1>1. n \in Nat /\ d \in 0..m
    BY DEF Shape
<1>2. Reach(E2, F2, T2, d) = Reach(E, F, T, d) /\ F2[d] = F[d]
    BY <1>1, ReachSame DEF Same
<1>3. Reach(E, F, T, d) \subseteq InScope(E, T[d])
    BY ReachIn
<1> QED BY <1>2, <1>3 DEF Seals

\* A linear function around what a step does.
LEMMA TakesOn ==
    ASSUME NEW E, NEW L, NEW F, NEW n, NEW T, Shape(E, L, F, n, T),
           NEW E2, NEW F2, NEW n2, NEW T2, NEW m \in 0..n, Same(E2, F2, T2, E, F, T, m),
           NEW D, NEW D2, NEW d \in 1..m, Takes(E, F, n, T, D, d),
           F[d].kind = "llam" =>
              /\ E[T[d] - 1].d2vs \subseteq E2[T[d] - 1].d2vs
              /\ \A v \in E2[T[d] - 1].d2vs :
                    v \in E[T[d] - 1].d2vs \/ v \in LocalAt(E, T[d - 1])
              /\ \A v \in InScope(E, T[d - 1]) :
                    /\ v \notin E2[T[d] - 1].d2vs /\ Kept(F, n, D, d, v, F[d].wait[v])
                    => Kept(F2, n2, D2, d, v, F[d].wait[v])
    PROVE  Takes(E2, F2, n2, T2, D2, d)
<1>1. n \in Nat /\ d \in 0..m /\ d - 1 \in 0..m
    BY DEF Shape
<1>2. /\ Reach(E2, F2, T2, d - 1) = Reach(E, F, T, d - 1) /\ F2[d] = F[d]
      /\ LocalAt(E2, T2[d - 1]) = LocalAt(E, T[d - 1]) /\ T2[d] = T[d]
    BY <1>1, ReachSame DEF Same
<1>3. Reach(E, F, T, d - 1) \subseteq InScope(E, T[d - 1])
    BY ReachIn
<1> QED BY <1>2, <1>3 DEF Takes

\* What all constructs around what is translated expect.
Fact(E, F, n, T, D, d) ==
    Waits(E, F, T, D, d) /\ Seals(E, F, n, T, D, d) /\ Takes(E, F, n, T, D, d)

\* The branches are as they were, but for one that begins.
Branches(F, n, F2, n2, D) ==
    /\ \A e \in 1..n : F[e].kind = "branch" => e \in 1..n2 /\ F2[e] = F[e]
    /\ \A e \in 1..n2 : F2[e].kind = "branch" =>
          \/ e \in 1..n /\ F2[e] = F[e]
          \/ \A v \in DOMAIN F2[e].lsbis : F2[e].lsbis[v] = D[v]

\* A type gives way to one that it fits.
LEMMA RiseCovered ==
    ASSUME NEW F, NEW n \in Nat, NEW F2, NEW n2 \in Nat, NEW D, Branches(F, n, F2, n2, D),
           NEW D2, NEW v, VarCK(D[v], D2[v]), NEW d \in Nat, NEW x, Covered(F, n, D, d, v, x)
    PROVE  Covered(F2, n2, D2, d, v, x)
<1>1. VarCK(x, D[v]) => VarCK(x, D2[v])
    BY Through
<1>2. ASSUME NEW e \in (d + 1)..n, F[e].kind = "branch" PROVE e \in (d + 1)..n2 /\ F2[e] = F[e]
    <2>1. e \in 1..n2 /\ F2[e] = F[e]
        BY <1>2 DEF Branches
    <2> QED BY <2>1
<1> QED BY <1>1, <1>2 DEF Covered

\* The same of what a linear function has not taken.
LEMMA RiseKept ==
    ASSUME NEW F, NEW n \in Nat, NEW F2, NEW n2 \in Nat, NEW D, Branches(F, n, F2, n2, D),
           NEW D2, NEW v, VarCK(D[v], D2[v]), NEW d \in Nat, NEW x, Kept(F, n, D, d, v, x)
    PROVE  Kept(F2, n2, D2, d, v, x)
<1>1. VarCK(x, D[v]) /\ VarCK(x, D2[v])
    BY Through DEF Kept
<1>2. ASSUME NEW e \in (d + 1)..n2, F2[e].kind = "branch"
      PROVE  \/ e \in (d + 1)..n /\ F2[e] = F[e]
             \/ \A u \in DOMAIN F2[e].lsbis : F2[e].lsbis[u] = D[u]
    <2>1. e \in 1..n2 /\ (e \in 1..n => e \in (d + 1)..n)
        OBVIOUS
    <2> QED BY <2>1, <1>2 DEF Branches
<1> QED BY <1>1, <1>2 DEF Kept

\* The heights after a step.
LEMMA HeightsKept ==
    ASSUME TypeOK, NEW T, Shaped(T), NEW T2, T2 = TopAt(T, Depth', High'), NEW m \in 0..Depth,
           Depth' = m + 1 \/ (Depth' = m /\ High' = T[m])
    PROVE  /\ \A d \in 0..m : T2[d] = T[d]
           /\ T2[Depth'] = High' /\ Depth' \in Nat
<1>1. Depth \in Nat
    BY Heads
<1> QED BY <1>1 DEF TopAt

\* A step that keeps the first m constructs with their scopes.
Stays(T, T2, m) ==
    /\ m \in 0..Depth /\ Depth \in {m, m + 1} /\ Depth' \in {m, m + 1}
    /\ \A p \in 1..T[m] : Env'[p] = Env[p]
    /\ \A d \in 1..m : Frames'[d] = Frames[d]
    /\ \A d \in 0..m : T2[d] = T[d]

\* The types of variables around at most rise, and no branch ends.
Plain(T, T2, m) ==
    /\ Stays(T, T2, m)
    /\ Depth = m + 1 => Frames[Depth].kind # "branch"
    /\ Depth' = m + 1 /\ Frames'[Depth'].kind = "branch" =>
          \A v \in DOMAIN Frames'[Depth'].lsbis : Frames'[Depth'].lsbis[v] = d2var_type[v]
    /\ \A v \in InScope(Env, T[m]) : VarCK(d2var_type[v], d2var_type'[v])

\* A plain step keeps what the constructs around it expect.
LEMMA PlainStep ==
    ASSUME TypeOK, NEW T, Shaped(T), Construct \/ Report, NEW T2, NEW m, Plain(T, T2, m),
           NEW d \in 1..m, Fact(Env, Frames, Depth, T, d2var_type, d)
    PROVE  Fact(Env', Frames', Depth', T2, d2var_type', d)
<1> DEFINE E == Env
           F == Frames
           n == Depth
           D == d2var_type
           E2 == Env'
           F2 == Frames'
           n2 == Depth'
           D2 == d2var_type'
<1>1. Shape(E, High, F, n, T) /\ Changes(E, T, n, D, D2)
    BY StepChanges DEF Shaped
<1>2. Plain(T, T2, m) /\ Fact(E, F, n, T, D, d)
    OBVIOUS
<1>3. n \in Nat /\ n2 \in Nat /\ m \in 0..n
    BY Heads DEF Plain, Stays
<1>4. /\ n \in {m, m + 1} /\ n2 \in {m, m + 1}
      /\ n = m + 1 => F[n].kind # "branch"
      /\ n2 = m + 1 /\ F2[n2].kind = "branch" => \A v \in DOMAIN F2[n2].lsbis : F2[n2].lsbis[v] = D[v]
      /\ \A p \in 1..T[m] : E2[p] = E[p]
      /\ \A c \in 1..m : F2[c] = F[c]
      /\ \A c \in 0..m : T2[c] = T[c]
      /\ \A v \in InScope(E, T[m]) : VarCK(D[v], D2[v])
    BY DEF Plain, Stays
<1> HIDE DEF E, F, n, D, E2, F2, n2, D2
<1>5. Same(E2, F2, T2, E, F, T, m)
    BY <1>4 DEF Same, Alike
<1>6. Branches(F, n, F2, n2, D)
    <2>1. \A e \in 1..n : F[e].kind = "branch" => e \in 1..m
        BY <1>3, <1>4
    <2>2. \A e \in 1..n2 : e \in 1..m \/ (e = n2 /\ n2 = m + 1)
        BY <1>3, <1>4
    <2>3. \A e \in 1..m : e \in 1..n /\ e \in 1..n2
        BY <1>3, <1>4
    <2> QED BY <2>1, <2>2, <2>3, <1>4 DEF Branches
<1>7. /\ d \in 0..m /\ d - 1 \in 0..m /\ d \in 0..n /\ d - 1 \in 0..n /\ d \in Nat /\ d \in 1..n
      /\ T[d] \in Nat /\ T[d - 1] \in Nat /\ T[m] \in Nat /\ T[d] <= T[m] /\ T[d - 1] <= T[m]
    BY <1>1, <1>3 DEF Shape
<1>8. \A v : v \in InScope(E, T[d]) \/ v \in InScope(E, T[d - 1]) => VarCK(D[v], D2[v])
    <2>1. \A p : p \in 1..T[d] \/ p \in 1..T[d - 1] => p \in 1..T[m]
        BY <1>7
    <2> QED BY <2>1, <1>4 DEF InScope
<1>9. Waits(E2, F2, T2, D2, d)
    BY <1>1, <1>2, <1>3, <1>5, WaitsOn DEF Fact
<1>10. Seals(E2, F2, n2, T2, D2, d)
    <2>1. \A v \in InScope(E, T[d]) :
             Covered(F, n, D, d, v, F[d].done[v]) => Covered(F2, n2, D2, d, v, F[d].done[v])
        BY <1>3, <1>6, <1>7, <1>8, RiseCovered
    <2> QED BY <2>1, <1>1, <1>2, <1>3, <1>5, SealsOn DEF Fact
<1>11. Takes(E2, F2, n2, T2, D2, d)
    <2>1. ASSUME NEW v \in InScope(E, T[d - 1])
          PROVE  Kept(F, n, D, d, v, F[d].wait[v]) => Kept(F2, n2, D2, d, v, F[d].wait[v])
        <3>1. VarCK(D[v], D2[v])
            BY <1>8
        <3> QED BY <3>1, <1>3, <1>6, <1>7, RiseKept
    <2>2. F[d].kind = "llam" => E2[T[d] - 1] = E[T[d] - 1]
        <3>1. ASSUME F[d].kind = "llam" PROVE T[d] - 1 \in 1..T[m]
            <4>1. T[d] = T[d - 1] + 2
                BY <3>1, <1>1, <1>7 DEF Shape, FrameShape, Width
            <4> QED BY <4>1, <1>1, <1>7 DEF Shape, FrameShape
        <3> QED BY <3>1, <1>4
    <2> QED BY <2>1, <2>2, <1>1, <1>2, <1>3, <1>5, TakesOn DEF Fact
<1> QED BY <1>9, <1>10, <1>11 DEF Fact, E2, F2, n2, D2

\* Going inwards, a construct adds its own scope; a function hides the rest.
LEMMA ReachTop ==
    ASSUME NEW E, NEW L, NEW F, NEW n, NEW T, Shape(E, L, F, n, T), n # 0
    PROVE  Reach(E, F, T, n) =
              (IF F[n].kind = "lam" THEN {} ELSE Reach(E, F, T, n - 1))
                 \cup (IF Width(F[n].kind) = 0 THEN {} ELSE Scope(E, L))
<1>1. /\ n \in Nat \ {0} /\ T[n] = L /\ L \in Nat \ {0} /\ FrameShape(E, F, T, n)
      /\ T[n - 1] \in Nat \ {0} /\ n - 1 \in 0..n /\ EnvOK(E, L)
    <2>1. n \in Nat \ {0} /\ T[n] = L /\ EnvOK(E, L)
        BY DEF Shape
    <2>2. n \in 1..n /\ n - 1 \in 0..n
        BY <2>1
    <2>3. FrameShape(E, F, T, n)
        BY <2>2 DEF Shape
    <2>4. T[n - 1] \in Nat \ {0} /\ L \in Nat \ {0}
        BY <2>1, <2>3 DEF FrameShape, EnvOK
    <2> QED BY <2>1, <2>2, <2>3, <2>4
<1>2. /\ L = T[n - 1] + Width(F[n].kind) /\ Width(F[n].kind) \in {0, 1, 2}
      /\ Width(F[n].kind) = 2 => E[L - 1].node = "lam"
      /\ F[n].kind = "lam" => Width(F[n].kind) = 2
    BY <1>1 DEF FrameShape, Width
<1> DEFINE w == Width(F[n].kind)
<1> HIDE DEF w
<1>3. \A c \in 1..n : T[c - 1] \in Nat /\ T[c - 1] <= T[n - 1]
    <2>1. \A c \in 1..n : c - 1 \in 0..n /\ c - 1 <= n - 1
        BY <1>1
    <2> QED BY <2>1, <1>1 DEF Shape
<1>4. Scope(E, L) \subseteq Var
    BY <1>1 DEF EnvOK, Scope, Elem
<1>5. w = 2 => Scope(E, L - 1) = {}
    BY <1>2 DEF Scope, w
<1>6. \A p \in 1..L : p \in 1..T[n - 1] \/ (w # 0 /\ p = L) \/ (w = 2 /\ p = L - 1)
    BY <1>1, <1>2 DEF w
<1>7. \A p \in 1..T[n - 1] : p \in 1..L
    BY <1>1, <1>2
<1>8. \A c \in 1..n : c \in 1..(n - 1) \/ c = n
    BY <1>1
<1>9. \A c \in 1..(n - 1) : c \in 1..n
    BY <1>1
<1>10. ASSUME NEW v \in Reach(E, F, T, n)
       PROVE  \/ F[n].kind # "lam" /\ v \in Reach(E, F, T, n - 1)
              \/ w # 0 /\ v \in Scope(E, L)
    <2>1. PICK p \in 1..L : v \in Scope(E, p) /\ \A c \in 1..n : F[c].kind = "lam" => T[c - 1] < p
        BY <1>1 DEF Reach
    <2>2. CASE p \in 1..T[n - 1]
        <3>1. F[n].kind # "lam"
            <4>1. n \in 1..n /\ ~(T[n - 1] < p)
                BY <2>2, <1>1
            <4> QED BY <4>1, <2>1
        <3> QED BY <3>1, <2>1, <2>2, <1>9 DEF Reach
    <2>3. CASE p \notin 1..T[n - 1]
        BY <2>1, <2>3, <1>5, <1>6
    <2> QED BY <2>2, <2>3
<1>11. ASSUME NEW v \in Reach(E, F, T, n - 1), F[n].kind # "lam" PROVE v \in Reach(E, F, T, n)
    BY <1>1, <1>7, <1>8, <1>11 DEF Reach
<1>12. ASSUME NEW v \in Scope(E, L), w # 0 PROVE v \in Reach(E, F, T, n)
    <2>1. \A c \in 1..n : T[c - 1] < L
        BY <1>1, <1>2, <1>3, <1>12 DEF w
    <2>2. L \in 1..T[n]
        BY <1>1
    <2> QED BY <2>1, <2>2, <1>4 DEF Reach
<1> QED BY <1>10, <1>11, <1>12 DEF w

\* The same of the state, before and after a step.
Now(T) == Reach(Env, Frames, T, Depth)
\* What m constructs have within reach, and what a construct has of R, which is
\* within reach around it, and S, its own scope.
Around(T, m) == Reach(Env, Frames, T, m)
Adds(T, kind, R, S) == (IF kind = "lam" THEN {} ELSE R) \cup (IF Width(kind) = 0 THEN {} ELSE S)

\* What is within reach before and after a step.
LEMMA Reaches ==
    ASSUME TypeOK, TypeOK', NEW T, Shaped(T), NEW T2, Shaped(T2)', NEW m, Stays(T, T2, m)
    PROVE  /\ \A d \in 0..m : Reach(Env', Frames', T2, d) = Reach(Env, Frames, T, d)
           /\ Depth = m + 1 =>
                 Now(T) = Adds(T, Frames[Depth].kind, Around(T, m), the_ld2vs)
           /\ Depth' = m + 1 =>
                 Now(T2)' = Adds(T, Frames'[Depth'].kind, Around(T, m), the_ld2vs')
           /\ Depth' = m => Now(T2)' = Around(T, m)
           /\ Depth = m => Now(T) = Around(T, m)
           /\ Around(T, m) \subseteq InScope(Env, T[m]) /\ Around(T, m) \subseteq Var
           /\ Depth = m + 1 /\ Width(Frames[Depth].kind) # 0 => the_ld2vs \cap InScope(Env, T[m]) = {}
<1>1. Shape(Env, High, Frames, Depth, T) /\ Shape(Env', High', Frames', Depth', T2)
    BY DEF Shaped
<1>2. EnvOK(Env, High) /\ EnvOK(Env', High')
    BY <1>1 DEF Shape
<1>3. the_ld2vs = Scope(Env, High)
    BY <1>2, Views
<1>4. the_ld2vs' = Scope(Env', High')
    <2>1. TypeOK' /\ EnvOK(Env, High)'
        BY <1>2
    <2>2. (the_ld2vs = Scope(Env, High))'
        BY <2>1, Views, PTL
    <2> QED BY <2>2
<1>5. Same(Env', Frames', T2, Env, Frames, T, m) /\ m \in 0..Depth /\ Depth \in Nat
    BY <1>1 DEF Stays, Same, Alike, Shape
<1>6. \A d \in 0..m : Reach(Env', Frames', T2, d) = Reach(Env, Frames, T, d)
    BY <1>1, <1>5, ReachSame
<1>7. m \in 0..m /\ m + 1 - 1 = m /\ m + 1 # 0
    BY <1>5
<1>8. Depth = m + 1 => Now(T) = Adds(T, Frames[Depth].kind, Around(T, m), the_ld2vs)
    <2> SUFFICES ASSUME Depth = m + 1
                 PROVE  Now(T) = Adds(T, Frames[Depth].kind, Around(T, m), the_ld2vs)
        OBVIOUS
    <2>1. Depth # 0 /\ Depth - 1 = m
        BY <1>5
    <2>2. Reach(Env, Frames, T, Depth) =
            (IF Frames[Depth].kind = "lam" THEN {} ELSE Reach(Env, Frames, T, Depth - 1))
              \cup (IF Width(Frames[Depth].kind) = 0 THEN {} ELSE Scope(Env, High))
        BY <1>1, <2>1, ReachTop
    <2> QED BY <2>1, <2>2, <1>3 DEF Now, Adds, Around
<1>9. Depth' = m + 1 => Now(T2)' = Adds(T, Frames'[Depth'].kind, Around(T, m), the_ld2vs')
    <2> SUFFICES ASSUME Depth' = m + 1
                 PROVE  Now(T2)' = Adds(T, Frames'[Depth'].kind, Around(T, m), the_ld2vs')
        OBVIOUS
    <2>1. Depth' # 0 /\ Depth' - 1 = m
        BY <1>5
    <2>2. Reach(Env', Frames', T2, Depth') =
            (IF Frames'[Depth'].kind = "lam" THEN {} ELSE Reach(Env', Frames', T2, Depth' - 1))
              \cup (IF Width(Frames'[Depth'].kind) = 0 THEN {} ELSE Scope(Env', High'))
        BY <1>1, <2>1, ReachTop
    <2>3. Reach(Env', Frames', T2, Depth' - 1) = Around(T, m)
        BY <2>1, <1>6, <1>7 DEF Around
    <2> QED BY <2>2, <2>3, <1>4 DEF Now, Adds
<1>10. (Depth' = m => Now(T2)' = Around(T, m)) /\ (Depth = m => Now(T) = Around(T, m))
    BY <1>6, <1>7 DEF Now, Around
<1>11. Around(T, m) \subseteq InScope(Env, T[m]) /\ Around(T, m) \subseteq Var
    BY ReachIn DEF Around, Reach
<1>12. Depth = m + 1 /\ Width(Frames[Depth].kind) # 0 => the_ld2vs \cap InScope(Env, T[m]) = {}
    <2> SUFFICES ASSUME Depth = m + 1, Width(Frames[Depth].kind) # 0,
                        NEW v \in InScope(Env, T[m])
                 PROVE  v \notin Scope(Env, High)
        BY <1>3
    <2>1. /\ Depth # 0 /\ Depth - 1 = m /\ High \in Nat \ {0} /\ T[m] \in 1..High
          /\ T[m] = High - Width(Frames[Depth].kind)
        BY <1>5, Heads
    <2>2. Width(Frames[Depth].kind) \in {1, 2}
        BY DEF Width
    <2>3. PICK p \in 1..T[m] : v \in Scope(Env, p)
        BY DEF InScope
    <2>4. p \in 1..High /\ p # High /\ High \in 1..High
        BY <2>1, <2>2
    <2> QED BY <2>3, <2>4, <1>2 DEF EnvOK
<1> QED BY <1>6, <1>8, <1>9, <1>10, <1>11, <1>12

-----------------------------------------------------------------------------
(* The invariant.                                                          *)

\* The execution fits, where it is and where it will go on.
Fitting(T) ==
    /\ FitsRun(run, d2var_type, Now(T))
    /\ \A d \in 1..Depth : Fact(Env, Frames, Depth, T, d2var_type, d)
    /\ ~bad

\* What is known of a step from heights T to heights T2.
Ready(T, T2) ==
    /\ TypeOK /\ TypeOK' /\ Shaped(T) /\ Shaped(T2)' /\ Fitting(T)
    /\ T2 = TopAt(T, Depth', High')
    /\ Construct \/ Report

\* A plain step has to care for what is translated, and for what begins.
LEMMA PlainFits ==
    ASSUME NEW T, NEW T2, Ready(T, T2), NEW m, Plain(T, T2, m), ~bad',
           FitsRun(run', d2var_type', Now(T2)'),
           Depth' = m + 1 => Fact(Env', Frames', Depth', T2, d2var_type', Depth')
    PROVE  Fitting(T2)'
<1>1. TypeOK /\ Shaped(T) /\ (Construct \/ Report) /\ Fitting(T)
    BY DEF Ready
<1>2. m \in 0..Depth /\ Depth' \in {m, m + 1} /\ Depth \in Nat
    BY <1>1, Heads DEF Plain, Stays
<1>3. ASSUME NEW d \in 1..Depth' PROVE Fact(Env', Frames', Depth', T2, d2var_type', d)
    <2>1. CASE d \in 1..m
        <3>1. d \in 1..Depth
            BY <2>1, <1>2
        <3>2. Fact(Env, Frames, Depth, T, d2var_type, d)
            BY <3>1, <1>1 DEF Fitting
        <3> QED BY <2>1, <3>2, <1>1, PlainStep
    <2>2. CASE d \notin 1..m
        <3>1. d = Depth' /\ Depth' = m + 1
            BY <2>2, <1>2
        <3> QED BY <3>1
    <2> QED BY <2>1, <2>2
<1> QED BY <1>3 DEF Fitting

\* The scopes after a step that does not close one.
Grows(w, lin, S) ==
    /\ w \in {1, 2} /\ lin \in {0, 1} /\ S \in SUBSET Var
    /\ w = 1 => push /\ S = {}
    /\ w = 2 => push_lam(lin, S)

\* A scope that opens leaves the others alone.
LEMMA EnvGrows ==
    ASSUME TypeOK, UNCHANGED envs \/ \E w, lin, S : Grows(w, lin, S)
    PROVE  \A p \in 1..High : Env'[p] = Env[p]
<1>1. CASE UNCHANGED envs
    BY <1>1 DEF envs, Env
<1>2. ASSUME NEW w, NEW lin, NEW S, Grows(w, lin, S) PROVE \A p \in 1..High : Env'[p] = Env[p]
    <2>1. /\ w \in {1, 2} /\ lin \in {0, 1} /\ S \in SUBSET Var
          /\ (w = 1 => push /\ S = {}) /\ (w = 2 => push_lam(lin, S))
        BY <1>2 DEF Grows
    <2> QED BY <2>1, GrowView
<1> QED BY <1>1, <1>2

\* A construct begins.
LEMMA Opening ==
    ASSUME NEW T, NEW T2, Ready(T, T2), NEW f, ctrl' = <<f>> \o ctrl,
           UNCHANGED envs \/ \E w, lin, S : Grows(w, lin, S)
    PROVE  /\ Stays(T, T2, Depth) /\ Depth' = Depth + 1 /\ Frames'[Depth'] = f
           /\ Now(T2)' = Adds(T, f.kind, Now(T), the_ld2vs')
           /\ Reach(Env', Frames', T2, Depth) = Now(T)
           /\ Now(T) \subseteq Visible /\ Now(T) \subseteq Var /\ Local \subseteq Now(T)
           /\ Visible = InScope(Env, T[Depth]) /\ Depth \in Nat
<1>1. TypeOK /\ TypeOK' /\ Shaped(T) /\ Shaped(T2)' /\ T2 = TopAt(T, Depth', High')
    BY DEF Ready
<1>2. /\ Depth \in Nat /\ Depth' = Depth + 1 /\ Frames'[Depth + 1] = f
      /\ \A d \in 1..Depth : Frames'[d] = Frames[d]
    BY <1>1, FrameViews
<1>3. T[Depth] = High /\ EnvOK(Env, High)
    BY <1>1, Heads
<1>4. \A p \in 1..High : Env'[p] = Env[p]
    BY <1>1, EnvGrows
<1>5. \A d \in 0..Depth : T2[d] = T[d]
    <2>1. Depth \in 0..Depth
        BY <1>2
    <2> QED BY <2>1, <1>1, <1>2, HeightsKept
<1>6. Stays(T, T2, Depth)
    BY <1>2, <1>3, <1>4, <1>5 DEF Stays
<1>7. /\ \A d \in 0..Depth : Reach(Env', Frames', T2, d) = Reach(Env, Frames, T, d)
      /\ Now(T2)' = Adds(T, Frames'[Depth'].kind, Around(T, Depth), the_ld2vs')
      /\ Now(T) = Around(T, Depth)
      /\ Around(T, Depth) \subseteq InScope(Env, T[Depth]) /\ Around(T, Depth) \subseteq Var
    BY <1>1, <1>2, <1>6, Reaches
<1>8. Visible = InScope(Env, High) /\ Local = LocalAt(Env, High)
    BY <1>1, <1>3, Views
<1>9. Local \subseteq Now(T)
    <2>1. Depth \in 0..Depth /\ Shape(Env, High, Frames, Depth, T)
        BY <1>1, <1>2 DEF Shaped
    <2> QED BY <2>1, <1>3, <1>8, LocalReach DEF Now
<1>10. Reach(Env', Frames', T2, Depth) = Now(T)
    <2>1. Depth \in 0..Depth
        BY <1>2
    <2> QED BY <2>1, <1>7 DEF Now
<1> QED BY <1>2, <1>3, <1>6, <1>7, <1>8, <1>9, <1>10

\* The innermost construct and what is around it, m constructs.
LEMMA Within ==
    ASSUME TypeOK, NEW T, Shaped(T), ctrl # <<>>
    PROVE  /\ Depth \in Nat \ {0} /\ Depth - 1 \in 0..Depth /\ top = Frames[Depth]
           /\ Now(T) = Adds(T, top.kind, Around(T, Depth - 1), the_ld2vs)
           /\ Around(T, Depth - 1) \subseteq InScope(Env, T[Depth - 1])
           /\ Around(T, Depth - 1) \subseteq Var /\ Around(T, Depth - 1) \subseteq Visible
           /\ Width(top.kind) # 0 => the_ld2vs \cap InScope(Env, T[Depth - 1]) = {}
           /\ Local \subseteq Now(T) /\ Now(T) \subseteq Visible /\ Now(T) \subseteq Var
           /\ Saves(top.kind) => DOMAIN top.lsbis = Local
           /\ Shape(Env, High, Frames, Depth, T)
<1> DEFINE m == Depth - 1
<1>1. /\ Depth \in Nat \ {0} /\ m \in 0..Depth /\ top = Frames[Depth]
      /\ Shape(Env, High, Frames, Depth, T) /\ Depth # 0 /\ Depth \in 0..Depth
    BY FrameViews DEF Shaped
<1>2. /\ EnvOK(Env, High) /\ T[Depth] = High /\ T[m] \in 1..High /\ High \in Nat \ {0}
      /\ FrameShape(Env, Frames, T, Depth) /\ T[m] = High - Width(top.kind)
    BY <1>1, Heads
<1>3. /\ Visible = InScope(Env, High) /\ Local = LocalAt(Env, High)
      /\ the_ld2vs = Scope(Env, High)
    BY <1>2, Views
<1>4. Now(T) = Adds(T, top.kind, Around(T, m), the_ld2vs)
    <2>1. Reach(Env, Frames, T, Depth) =
            (IF Frames[Depth].kind = "lam" THEN {} ELSE Reach(Env, Frames, T, Depth - 1))
              \cup (IF Width(Frames[Depth].kind) = 0 THEN {} ELSE Scope(Env, High))
        BY <1>1, ReachTop
    <2> QED BY <2>1, <1>1, <1>3 DEF Now, Adds, Around
<1>5. Around(T, m) \subseteq InScope(Env, T[m]) /\ Around(T, m) \subseteq Var
    BY ReachIn DEF Around, Reach
<1>6. InScope(Env, T[m]) \subseteq Visible
    <2>1. \A p \in 1..T[m] : p \in 1..High
        BY <1>2
    <2> QED BY <2>1, <1>3 DEF InScope
<1>7. Local \subseteq Now(T) /\ Now(T) \subseteq Visible /\ Now(T) \subseteq Var
    <2>1. LocalAt(Env, T[Depth]) \subseteq Reach(Env, Frames, T, Depth)
        BY <1>1, LocalReach
    <2>2. Reach(Env, Frames, T, Depth) \subseteq InScope(Env, T[Depth])
        BY ReachIn
    <2> QED BY <2>1, <2>2, <1>2, <1>3 DEF Now, InScope
<1>8. Width(top.kind) # 0 => the_ld2vs \cap InScope(Env, T[m]) = {}
    <2> SUFFICES ASSUME Width(top.kind) # 0, NEW v \in InScope(Env, T[m])
                 PROVE  v \notin Scope(Env, High)
        BY <1>3
    <2>1. Width(top.kind) \in {1, 2}
        BY DEF Width
    <2>2. PICK p \in 1..T[m] : v \in Scope(Env, p)
        BY DEF InScope
    <2>3. p \in 1..High /\ p # High /\ High \in 1..High
        BY <2>1, <1>2
    <2> QED BY <2>2, <2>3, <1>2 DEF EnvOK
<1>9. Saves(top.kind) => DOMAIN top.lsbis = Local
    BY <1>1, <1>2, <1>3 DEF FrameShape
<1> QED BY <1>1, <1>4, <1>5, <1>6, <1>7, <1>8, <1>9

\* It goes on.
LEMMA Going ==
    ASSUME NEW T, NEW T2, Ready(T, T2), ctrl # <<>>, NEW f, Become(f),
           UNCHANGED envs \/ \E w, lin, S : Grows(w, lin, S)
    PROVE  /\ Stays(T, T2, Depth - 1) /\ Depth' = Depth /\ Frames'[Depth'] = f
           /\ Now(T2)' = Adds(T, f.kind, Around(T, Depth - 1), the_ld2vs')
           /\ \A d \in 0..(Depth - 1) : Reach(Env', Frames', T2, d) = Reach(Env, Frames, T, d)
<1> DEFINE m == Depth - 1
<1>1. TypeOK /\ TypeOK' /\ Shaped(T) /\ Shaped(T2)' /\ T2 = TopAt(T, Depth', High')
    BY DEF Ready
<1>2. /\ Depth \in Nat \ {0} /\ m \in 0..Depth /\ Depth = m + 1
      /\ Depth' = Depth /\ Frames'[Depth] = f /\ \A d \in 1..m : Frames'[d] = Frames[d]
    BY <1>1, FrameViews
<1>3. T[m] \in 1..High /\ High \in Nat
    BY <1>1, <1>2, Heads
<1>4. \A p \in 1..T[m] : Env'[p] = Env[p]
    <2>1. \A p \in 1..T[m] : p \in 1..High
        BY <1>3
    <2> QED BY <2>1, <1>1, EnvGrows
<1>5. \A d \in 0..m : T2[d] = T[d]
    BY <1>1, <1>2, HeightsKept
<1> HIDE DEF m
<1>6. Stays(T, T2, m)
    BY <1>2, <1>4, <1>5 DEF Stays
<1>7. /\ \A d \in 0..m : Reach(Env', Frames', T2, d) = Reach(Env, Frames, T, d)
      /\ Now(T2)' = Adds(T, Frames'[Depth'].kind, Around(T, m), the_ld2vs')
    BY <1>1, <1>2, <1>6, Reaches
<1> QED BY <1>2, <1>6, <1>7 DEF m

\* It ends.
LEMMA Closing ==
    ASSUME NEW T, NEW T2, Ready(T, T2), ctrl # <<>>, Leave,
           IF Width(top.kind) = 0 THEN UNCHANGED envs ELSE pop
    PROVE  /\ Stays(T, T2, Depth - 1) /\ Depth' = Depth - 1
           /\ Now(T2)' = Around(T, Depth - 1)
<1> DEFINE m == Depth - 1
<1>1. TypeOK /\ TypeOK' /\ Shaped(T) /\ Shaped(T2)' /\ T2 = TopAt(T, Depth', High')
    BY DEF Ready
<1>2. /\ Depth \in Nat \ {0} /\ m \in 0..Depth /\ Depth' = m /\ Depth = m + 1
      /\ \A d \in 1..m : Frames'[d] = Frames[d]
      /\ High' = T[m] /\ \A p \in 1..T[m] : Env'[p] = Env[p]
    BY <1>1, EndViews
<1>3. \A d \in 0..m : T2[d] = T[d]
    BY <1>1, <1>2, HeightsKept
<1> HIDE DEF m
<1>4. Stays(T, T2, m)
    BY <1>2, <1>3 DEF Stays
<1>5. Now(T2)' = Around(T, m)
    BY <1>1, <1>2, <1>4, Reaches
<1> QED BY <1>2, <1>4, <1>5 DEF m

\* The constructs are as they were.
LEMMA Standing ==
    ASSUME NEW T, NEW T2, Ready(T, T2), UNCHANGED <<envs, ctrl>>
    PROVE  /\ Stays(T, T2, Depth) /\ Depth' = Depth /\ Now(T2)' = Now(T)
           /\ Now(T) = Around(T, Depth)
<1>1. TypeOK /\ TypeOK' /\ Shaped(T) /\ Shaped(T2)' /\ T2 = TopAt(T, Depth', High')
    BY DEF Ready
<1>2. /\ Depth \in Nat /\ Depth \in 0..Depth /\ T[Depth] = High
      /\ Depth' = Depth /\ Frames' = Frames /\ High' = High /\ Env' = Env
    BY <1>1, Heads DEF Depth, Frames, High, Env, envs
<1>3. \A d \in 0..Depth : T2[d] = T[d]
    BY <1>1, <1>2, HeightsKept
<1>4. Stays(T, T2, Depth)
    BY <1>2, <1>3 DEF Stays
<1> QED BY <1>1, <1>2, <1>4, Reaches

-----------------------------------------------------------------------------
(* The constructs begin.                                                   *)

\* A construct begins with frame f.
Starts(T, f) ==
    /\ ctrl' = <<f>> \o ctrl
    /\ UNCHANGED envs \/ \E w, lin, S : Grows(w, lin, S)
    /\ \A v \in Visible : VarCK(d2var_type[v], d2var_type'[v])
    /\ ~bad' /\ FitsRun(run', d2var_type', Adds(T, f.kind, Now(T), the_ld2vs'))
    /\ \/ f.kind = "let"
       \/ f.kind = "lam" /\ FitsRun(f.wait, d2var_type', Now(T))
       \/ f.kind = "llam" /\ push_lam(1, {}) /\ FitsRun(f.wait, d2var_type', Now(T))
       \/ f.kind \in {"trydn", "tryup", "test"} /\ f.done = Away
       \/ /\ f.kind = "branch" /\ f.saits = <<>> /\ f.done = Away
          /\ \A v \in DOMAIN f.lsbis : f.lsbis[v] = d2var_type[v]
          /\ d2var_type' = d2var_type /\ FitsRun(f.wait, d2var_type, Now(T))

\* A construct may begin if the execution fits, here and where it waits.
LEMMA StartFits ==
    ASSUME NEW T, NEW T2, Ready(T, T2), NEW f, Starts(T, f)
    PROVE  Fitting(T2)'
<1> DEFINE D2 == d2var_type'
<1>1. /\ Stays(T, T2, Depth) /\ Depth' = Depth + 1 /\ Frames'[Depth'] = f
      /\ Now(T2)' = Adds(T, f.kind, Now(T), the_ld2vs')
      /\ Reach(Env', Frames', T2, Depth) = Now(T) /\ Now(T) \subseteq Var
      /\ Visible = InScope(Env, T[Depth]) /\ Depth \in Nat
    BY Opening DEF Starts
<1>2. Plain(T, T2, Depth)
    <2>1. Depth # Depth + 1
        BY <1>1
    <2> QED BY <2>1, <1>1 DEF Plain, Starts
<1>3. ~bad' /\ FitsRun(run', D2, Now(T2)')
    BY <1>1 DEF Starts
<1>4. Depth' - 1 = Depth
    BY <1>1
<1> HIDE DEF D2
<1>5. Waits(Env', Frames', T2, D2, Depth')
    <2>1. CASE f.kind \in {"lam", "llam", "let"}
        BY <2>1, <1>1, <1>4 DEF Waits, Starts, D2
    <2>2. CASE f.kind \in {"trydn", "tryup", "test"}
        BY <2>2, <1>1, <1>4 DEF Waits, Starts, FitsRun
    <2>3. CASE f.kind = "branch"
        <3>1. Reach(Env', Frames', T2, Depth') = Now(T)
            BY <2>3, <1>1 DEF Adds, Width, Now
        <3>2. /\ f.saits = <<>> /\ f.done = Away /\ FitsRun(f.wait, d2var_type, Now(T))
              /\ \A v \in DOMAIN f.lsbis : f.lsbis[v] = d2var_type[v]
              /\ D2 = d2var_type
            BY <2>3 DEF Starts, D2
        <3>3. \A v \in Now(T) : Base(f, D2)[v] = d2var_type[v]
            BY <3>2, <1>1 DEF Base
        <3>4. FitsRun(f.wait, Base(f, D2), Now(T))
            BY <3>2, <3>3 DEF FitsRun, Fits
        <3>5. Len(f.saits) <= 1
            <4>1. Len(f.saits) = 0
                BY <3>2, EmptySeq
            <4> QED BY <4>1
        <3> QED BY <2>3, <3>1, <3>2, <3>4, <3>5, <1>1 DEF Waits
    <2> QED BY <2>1, <2>2, <2>3 DEF Starts
<1>6. Seals(Env', Frames', Depth', T2, D2, Depth')
    BY <1>1 DEF Seals, Starts
<1>7. Takes(Env', Frames', Depth', T2, D2, Depth')
    <2>1. CASE f.kind # "llam"
        BY <2>1, <1>1 DEF Takes
    <2>2. CASE f.kind = "llam"
        <3>1. push_lam(1, {}) /\ FitsRun(f.wait, D2, Now(T))
            BY <2>2 DEF Starts, D2
        <3>2. TypeOK /\ Shaped(T2)'
            BY DEF Ready
        <3>3. Grows(2, 1, {})
            BY <3>1 DEF Grows
        <3>4. /\ 2 \in {1, 2} /\ 1 \in {0, 1} /\ {} \in SUBSET Var
              /\ (2 = 1 => push /\ {} = {}) /\ (2 = 2 => push_lam(1, {}))
            BY <3>1
        <3>5. High' = High + 2 /\ Env'[High + 1] = LD2VSlam(1)
            BY <3>2, <3>4, GrowView
        <3>6. T2[Depth'] = High' /\ High \in Nat
            BY <3>2, TypeParts, LenProperties DEF Shaped, Shape, High
        <3>7. Env'[T2[Depth'] - 1].d2vs = {}
            <4>1. T2[Depth'] - 1 = High + 1
                BY <3>5, <3>6
            <4> QED BY <4>1, <3>5 DEF LD2VSlam
        <3>8. \A e : e \in (Depth' + 1)..Depth' => FALSE
            BY <1>1
        <3>9. ASSUME f.wait # Away, NEW v \in Now(T) PROVE Kept(Frames', Depth', D2, Depth', v, f.wait[v])
            BY <3>1, <3>8, <3>9 DEF Kept, FitsRun, Fits
        <3> QED BY <3>7, <3>9, <1>1, <1>4 DEF Takes
    <2> QED BY <2>1, <2>2
<1>8. Fact(Env', Frames', Depth', T2, D2, Depth')
    BY <1>5, <1>6, <1>7 DEF Fact
<1> QED BY <1>2, <1>3, <1>8, PlainFits DEF D2

\* What each kind of construct has within reach.
LEMMA AddsOf ==
    ASSUME NEW T, NEW R, NEW S
    PROVE  /\ \A k \in {"branch", "tryup", "test", "loop"} : Adds(T, k, R, S) = R
           /\ \A k \in {"let", "llam", "trydn", "with"} : Adds(T, k, R, S) = R \cup S
           /\ Adds(T, "lam", R, S) = S
BY DEF Adds, Width

\* What is within reach before a step, and what is known of it.
LEMMA Before ==
    ASSUME NEW T, NEW T2, Ready(T, T2)
    PROVE  /\ TypeOK /\ Shaped(T) /\ ~bad /\ FitsRun(run, d2var_type, Now(T))
           /\ Local \subseteq Now(T) /\ Now(T) \subseteq Visible /\ Now(T) \subseteq Var
           /\ d2var_type \in [Var -> Maybe] /\ (run # Away => run \in [Var -> Maybe])
<1>1. TypeOK /\ Shaped(T) /\ ~bad /\ FitsRun(run, d2var_type, Now(T))
    BY DEF Ready, Fitting
<1>2. EnvOK(Env, High) /\ T[Depth] = High /\ Depth \in 0..Depth
    BY <1>1, Heads
<1>3. Visible = InScope(Env, High) /\ Local = LocalAt(Env, High)
    BY <1>1, <1>2, Views
<1>4. Local \subseteq Now(T)
    <2>1. Shape(Env, High, Frames, Depth, T)
        BY <1>1 DEF Shaped
    <2> QED BY <2>1, <1>2, <1>3, LocalReach DEF Now
<1>5. Now(T) \subseteq Visible /\ Now(T) \subseteq Var
    BY <1>2, <1>3, ReachIn DEF Now, Reach
<1>6. d2var_type \in [Var -> Maybe] /\ (run # Away => run \in [Var -> Maybe])
    BY <1>1, TypeParts DEF Store, Run
<1> QED BY <1>1, <1>4, <1>5, <1>6

\* A let-expression begins, or a try with an expected type.
LEMMA LetFits ==
    ASSUME NEW T, NEW T2, Ready(T, T2), Let \/ TryDn
    PROVE  Fitting(T2)'
<1>1. ~bad /\ FitsRun(run, d2var_type, Now(T))
    BY Before
<1>2. ASSUME NEW k \in {"let", "trydn"}, ctrl' = <<Frame(k, Gone, Away, Away)>> \o ctrl,
             \E w : Grows(w, 0, {}), UNCHANGED <<dvars, run, bad>>, the_ld2vs' = {}
      PROVE  Starts(T, Frame(k, Gone, Away, Away))
    <2>1. Frame(k, Gone, Away, Away).kind = k /\ Frame(k, Gone, Away, Away).done = Away
        BY DEF Frame
    <2>2. d2var_type' = d2var_type /\ run' = run /\ ~bad'
        BY <1>1, <1>2 DEF dvars
    <2>3. Adds(T, k, Now(T), the_ld2vs') = Now(T)
        BY <1>2 DEF Adds
    <2> QED BY <1>1, <1>2, <2>1, <2>2, <2>3 DEF Starts, VarCK
<1>3. CASE Let
    <2>1. /\ ctrl' = <<Frame("let", Gone, Away, Away)>> \o ctrl /\ push
          /\ UNCHANGED <<dvars, run, bad>> /\ the_ld2vs' = {}
        BY <1>3 DEF Let, Enter, exec, push
    <2>2. Grows(1, 0, {})
        BY <2>1 DEF Grows
    <2> QED BY <2>1, <2>2, <1>2, StartFits
<1>4. CASE TryDn
    <2>1. /\ ctrl' = <<Frame("trydn", Gone, Away, Away)>> \o ctrl /\ push_lam(0, {})
          /\ UNCHANGED <<dvars, run, bad>> /\ the_ld2vs' = {}
        BY <1>4 DEF TryDn, Enter, exec, push_lam
    <2>2. Grows(2, 0, {})
        BY <2>1 DEF Grows
    <2> QED BY <2>1, <2>2, <1>2, StartFits
<1> QED BY <1>3, <1>4

\* A try without an expected type begins.
LEMMA TryUpFits ==
    ASSUME NEW T, NEW T2, Ready(T, T2), TryUp
    PROVE  Fitting(T2)'
<1> DEFINE f == Frame("tryup", save_lstbefitmlst, Away, Away)
<1>1. ~bad /\ FitsRun(run, d2var_type, Now(T))
    BY Before
<1>2. ctrl' = <<f>> \o ctrl /\ UNCHANGED envs /\ d2var_type' = d2var_type /\ run' = run /\ ~bad'
    BY <1>1 DEF TryUp, Enter, exec, dvars
<1>3. f.kind = "tryup" /\ f.done = Away
    BY DEF Frame
<1> HIDE DEF f
<1>4. Adds(T, "tryup", Now(T), the_ld2vs') = Now(T)
    BY AddsOf
<1>5. Starts(T, f)
    BY <1>1, <1>2, <1>3, <1>4 DEF Starts, VarCK
<1> QED BY <1>5, StartFits

\* The branches begin: the execution takes the first, or waits for the other.
LEMMA BranchFits ==
    ASSUME NEW T, NEW T2, Ready(T, T2), Branch
    PROVE  Fitting(T2)'
<1>1. ~bad /\ FitsRun(run, d2var_type, Now(T))
    BY Before
<1>2. PICK wait \in {run, Away} :
         /\ ctrl' = <<Frame("branch", save_lstbefitmlst, wait, Away)>> \o ctrl
         /\ run' \in {run, Away}
    BY DEF Branch, Enter
<1> DEFINE f == Frame("branch", save_lstbefitmlst, wait, Away)
<1>3. UNCHANGED envs /\ d2var_type' = d2var_type /\ ~bad'
    BY <1>1 DEF Branch, dvars
<1>4. /\ f.kind = "branch" /\ f.done = Away /\ f.saits = <<>> /\ f.wait = wait
      /\ f.lsbis = save_lstbefitmlst
    BY DEF Frame
<1>5. ctrl' = <<f>> \o ctrl
    BY <1>2
<1> HIDE DEF f
<1>6. \A v \in DOMAIN f.lsbis : f.lsbis[v] = d2var_type[v]
    BY <1>4 DEF save_lstbefitmlst
<1>7. Adds(T, "branch", Now(T), the_ld2vs') = Now(T)
    BY AddsOf
<1>8. FitsRun(run', d2var_type, Now(T)) /\ FitsRun(f.wait, d2var_type, Now(T))
    BY <1>1, <1>2, <1>4 DEF FitsRun
<1>9. Starts(T, f)
    BY <1>3, <1>4, <1>5, <1>6, <1>7, <1>8 DEF Starts, VarCK
<1> QED BY <1>9, StartFits

\* A function begins: within it the execution has nothing.
LEMMA LamFits ==
    ASSUME NEW T, NEW T2, Ready(T, T2), Lam
    PROVE  Fitting(T2)'
<1> DEFINE f == Frame("lam", Gone, run, Away)
<1>1. ~bad /\ FitsRun(run, d2var_type, Now(T))
    BY Before
<1>2. /\ ctrl' = <<f>> \o ctrl /\ push_lam(0, {}) /\ the_ld2vs' = {}
      /\ d2var_type' = d2var_type /\ ~bad'
    BY <1>1 DEF Lam, lampush, Enter, dvars, push_lam
<1>3. f.kind = "lam" /\ f.wait = run
    BY DEF Frame
<1> HIDE DEF f
<1>4. Grows(2, 0, {})
    BY <1>2 DEF Grows
<1>5. Adds(T, "lam", Now(T), the_ld2vs') = {}
    BY <1>2, AddsOf
<1>6. FitsRun(run', d2var_type', {})
    BY DEF FitsRun, Fits
<1>7. Starts(T, f)
    BY <1>1, <1>2, <1>3, <1>4, <1>5, <1>6 DEF Starts, VarCK
<1> QED BY <1>7, StartFits

\* The execution goes on with a value of a type.
LEMMA GivenFits ==
    ASSUME NEW s, s # Away => s \in [Var -> Maybe], NEW v \in Var, NEW t, Given(s, v, t)
    PROVE  run' # Away => /\ s # Away /\ VarCK(run'[v], t)
                          /\ \A u \in Var : u # v => run'[u] = s[u]
<1>1. CASE s = Away
    BY <1>1 DEF Given
<1>2. CASE s # Away
    <2>1. PICK x \in Type : <<x, t>> \in Sub /\ run' = [s EXCEPT ![v] = x]
        BY <1>2 DEF Given
    <2>2. run'[v] = x /\ \A u \in Var : u # v => run'[u] = s[u]
        BY <2>1, <1>2
    <2> QED BY <2>1, <2>2, <1>2 DEF VarCK
<1> QED BY <1>1, <1>2

\* A function with a parameter begins: its caller gives it a value that fits.
LEMMA LamArgFits ==
    ASSUME NEW T, NEW T2, Ready(T, T2), NEW v \in Var, NEW t \in Type, NEW fin \in Maybe,
           LamArg(v, t, fin)
    PROVE  Fitting(T2)'
<1> DEFINE f == Frame("lam", Gone, run, Away)
<1>1. /\ ~bad /\ FitsRun(run, d2var_type, Now(T)) /\ Now(T) \subseteq Visible
      /\ d2var_type \in [Var -> Maybe] /\ Visible \subseteq Var /\ TypeOK
    <2>1. TypeOK
        BY Before
    <2> QED BY <2>1, Before, Scopes
<1>2. /\ ctrl' = <<f>> \o ctrl /\ push_lam(0, {v}) /\ the_ld2vs' = {v}
      /\ v \notin Visible /\ d2var_type' = [d2var_type EXCEPT ![v] = t] /\ ~bad'
      /\ Given(Called, v, t)
    BY <1>1 DEF LamArg, lampush, Enter, Bind, push_lam
<1>3. f.kind = "lam" /\ f.wait = run
    BY DEF Frame
<1> HIDE DEF f
<1>4. Grows(2, 0, {v})
    BY <1>2 DEF Grows
<1>5. d2var_type'[v] = t /\ \A u \in Visible : d2var_type'[u] = d2var_type[u]
    BY <1>1, <1>2
<1>6. FitsRun(run', d2var_type', {v})
    <2>1. Called # Away => Called \in [Var -> Maybe]
        BY DEF Called, Nothing, Maybe
    <2>2. run' # Away => VarCK(run'[v], t)
        BY <2>1, <1>2, GivenFits
    <2> QED BY <2>2, <1>5 DEF FitsRun, Fits
<1>7. Adds(T, "lam", Now(T), the_ld2vs') = {v}
    BY <1>2, AddsOf
<1>8. FitsRun(f.wait, d2var_type', Now(T))
    BY <1>1, <1>3, <1>5 DEF FitsRun, Fits
<1>9. Starts(T, f)
    BY <1>2, <1>3, <1>4, <1>5, <1>6, <1>7, <1>8 DEF Starts, VarCK
<1> QED BY <1>9, StartFits

\* A linear function begins: the execution goes on in it with what it had.
LEMMA LLamFits ==
    ASSUME NEW T, NEW T2, Ready(T, T2), LLam
    PROVE  Fitting(T2)'
<1> DEFINE f == Frame("llam", Gone, run, Away)
<1>1. ~bad /\ FitsRun(run, d2var_type, Now(T))
    BY Before
<1>2. /\ ctrl' = <<f>> \o ctrl /\ push_lam(1, {}) /\ the_ld2vs' = {}
      /\ d2var_type' = d2var_type /\ run' = run /\ ~bad'
    BY <1>1 DEF LLam, lampush, Enter, dvars, push_lam
<1>3. f.kind = "llam" /\ f.wait = run
    BY DEF Frame
<1> HIDE DEF f
<1>4. Grows(2, 1, {})
    BY <1>2 DEF Grows
<1>5. Adds(T, "llam", Now(T), the_ld2vs') = Now(T)
    BY <1>2 DEF Adds
<1>6. Starts(T, f)
    BY <1>1, <1>2, <1>3, <1>4, <1>5 DEF Starts, VarCK
<1> QED BY <1>6, StartFits

\* A loop begins: its iterations start with what fits the types at its head.
LEMMA LoopFits ==
    ASSUME NEW T, NEW T2, Ready(T, T2), NEW R, Loop(R)
    PROVE  Fitting(T2)'
<1> DEFINE l == lsbis1(R)
           f == Frame("test", l, Away, Away)
<1>1. /\ ~bad /\ FitsRun(run, d2var_type, Now(T)) /\ Local \subseteq Now(T) /\ Now(T) \subseteq Var
      /\ Visible \subseteq Var /\ TypeOK
    <2>1. TypeOK
        BY Before
    <2> QED BY <2>1, Before, Scopes
<1>2. /\ ctrl' = <<f>> \o ctrl /\ UNCHANGED envs /\ d2var_type' = restore_type(l)
      /\ Fits(d2var_type, l, Local) /\ Iteration(l) /\ bad' = (bad \/ ~RunFits(l, Local))
    BY DEF Loop, Enter, Entered
<1>3. f.kind = "test" /\ f.done = Away /\ DOMAIN l = Local
    BY DEF Frame, lsbis1
<1> HIDE DEF f, l
<1>4. \A v \in Var : d2var_type'[v] = IF v \in Local THEN l[v] ELSE d2var_type[v]
    BY <1>2, <1>3 DEF restore_type
<1>5. \A v \in Visible : VarCK(d2var_type[v], d2var_type'[v])
    BY <1>1, <1>2, <1>4 DEF Fits, VarCK
<1>6. ~bad'
    <2>1. ASSUME run # Away, NEW v \in Local PROVE VarCK(run[v], l[v])
        <3>1. VarCK(run[v], d2var_type[v]) /\ VarCK(d2var_type[v], l[v])
            BY <2>1, <1>1, <1>2 DEF FitsRun, Fits
        <3> QED BY <3>1, Through
    <2> QED BY <2>1, <1>1, <1>2 DEF RunFits, Fits
<1>7. FitsRun(run', d2var_type', Now(T))
    <2>1. CASE run = Away
        BY <2>1, <1>2 DEF Iteration, FitsRun
    <2>2. CASE run # Away
        <3>1. PICK s \in [DOMAIN l -> Maybe] :
                 /\ Fits(s, l, DOMAIN l)
                 /\ run' = [v \in Var |-> IF v \in DOMAIN l THEN s[v] ELSE run[v]]
            BY <2>2, <1>2 DEF Iteration
        <3>2. ASSUME NEW v \in Now(T) PROVE VarCK(run'[v], d2var_type'[v])
            <4>1. run'[v] = IF v \in Local THEN s[v] ELSE run[v]
                BY <3>1, <1>1, <1>3
            <4>2. CASE v \in Local
                BY <4>1, <4>2, <3>1, <1>1, <1>3, <1>4 DEF Fits
            <4>3. CASE v \notin Local
                BY <4>1, <4>3, <2>2, <1>1, <1>4 DEF FitsRun, Fits
            <4> QED BY <4>2, <4>3
        <3> QED BY <3>2 DEF FitsRun, Fits
    <2> QED BY <2>1, <2>2
<1>8. Adds(T, "test", Now(T), the_ld2vs') = Now(T)
    BY AddsOf
<1>9. Starts(T, f)
    BY <1>2, <1>3, <1>5, <1>6, <1>7, <1>8 DEF Starts
<1> QED BY <1>9, StartFits

-----------------------------------------------------------------------------
(* The constructs end.                                                     *)

\* A construct other than branches ends.
Ends(T) ==
    /\ ctrl # <<>> /\ Leave /\ IF Width(top.kind) = 0 THEN UNCHANGED envs ELSE pop
    /\ top.kind # "branch"
    /\ \A v \in InScope(Env, T[Depth - 1]) : VarCK(d2var_type[v], d2var_type'[v])
    /\ ~bad' /\ FitsRun(run', d2var_type', Around(T, Depth - 1))

\* A construct, other than branches, may end if the execution fits around it.
LEMMA EndFits ==
    ASSUME NEW T, NEW T2, Ready(T, T2), Ends(T)
    PROVE  Fitting(T2)'
<1>1. TypeOK /\ Shaped(T)
    BY DEF Ready
<1>2. ctrl # <<>> /\ Leave /\ IF Width(top.kind) = 0 THEN UNCHANGED envs ELSE pop
    BY DEF Ends
<1>3. /\ Stays(T, T2, Depth - 1) /\ Depth' = Depth - 1
      /\ Now(T2)' = Around(T, Depth - 1)
    BY <1>2, Closing
<1>4. Depth \in Nat \ {0} /\ top = Frames[Depth]
    BY <1>1, <1>2, Within
<1>5. Depth' # (Depth - 1) + 1
    BY <1>3, <1>4
<1>6. Plain(T, T2, Depth - 1)
    BY <1>3, <1>4, <1>5 DEF Plain, Ends
<1>7. ~bad' /\ FitsRun(run', d2var_type', Now(T2)')
    BY <1>3 DEF Ends
<1> QED BY <1>5, <1>6, <1>7, PlainFits

\* What the innermost construct waits for.
LEMMA TopFact ==
    ASSUME NEW T, NEW T2, Ready(T, T2), ctrl # <<>>
    PROVE  LET R == Around(T, Depth - 1) IN
           /\ Now(T) = Adds(T, top.kind, R, the_ld2vs) /\ R \subseteq Visible /\ R \subseteq Var
           /\ R \subseteq InScope(Env, T[Depth - 1])
           /\ Width(top.kind) # 0 => \A v \in InScope(Env, T[Depth - 1]) : v \notin the_ld2vs
           /\ top.kind \in {"lam", "with"} => FitsRun(top.wait, d2var_type, R)
           /\ top.kind = "trydn" => FitsRun(top.done, d2var_type, R)
           /\ top.kind \in {"test", "loop"} => FitsRun(top.done, Base(top, d2var_type), R)
           /\ top.kind = "tryup" => FitsRun(top.done, d2var_type, R)
           /\ Saves(top.kind) => DOMAIN top.lsbis = Local
           /\ Fact(Env, Frames, Depth, T, d2var_type, Depth)
<1> DEFINE R == Around(T, Depth - 1)
<1>1. TypeOK /\ Shaped(T) /\ Fitting(T)
    BY DEF Ready
<1>2. /\ Depth \in Nat \ {0} /\ top = Frames[Depth]
      /\ Now(T) = Adds(T, top.kind, R, the_ld2vs) /\ R \subseteq Visible /\ R \subseteq Var
      /\ R \subseteq InScope(Env, T[Depth - 1])
      /\ Width(top.kind) # 0 => the_ld2vs \cap InScope(Env, T[Depth - 1]) = {}
      /\ Saves(top.kind) => DOMAIN top.lsbis = Local
    BY <1>1, Within
<1>3. Fact(Env, Frames, Depth, T, d2var_type, Depth)
    BY <1>1, <1>2 DEF Fitting
<1>4. Reach(Env, Frames, T, Depth - 1) = R /\ Reach(Env, Frames, T, Depth) = Now(T)
    BY DEF Around, Now
<1> HIDE DEF R
<1>5. /\ top.kind \in {"lam", "with"} => FitsRun(top.wait, d2var_type, R)
      /\ top.kind = "trydn" => FitsRun(top.done, d2var_type, R)
    BY <1>2, <1>3, <1>4 DEF Fact, Waits
<1>6. top.kind \in {"test", "loop", "tryup"} => Now(T) = R
    BY <1>2, AddsOf
<1>7. top.kind \in {"test", "loop"} => FitsRun(top.done, Base(top, d2var_type), R)
    BY <1>2, <1>3, <1>4, <1>6 DEF Fact, Waits
<1>8. top.kind = "tryup" => FitsRun(top.done, d2var_type, R)
    <2> SUFFICES ASSUME top.kind = "tryup", top.done # Away, NEW v \in R
                 PROVE  VarCK(top.done[v], d2var_type[v])
        BY DEF FitsRun, Fits
    <2>1. Covered(Frames, Depth, d2var_type, Depth, v, top.done[v])
        BY <1>2, <1>3, <1>4, <1>6 DEF Fact, Seals
    <2>2. \A e : e \in (Depth + 1)..Depth => FALSE
        BY <1>2
    <2> QED BY <2>1, <2>2 DEF Covered
<1> QED BY <1>2, <1>3, <1>5, <1>7, <1>8 DEF R

\* The variables of a scope are forgotten at its end.
LEMMA Forgotten ==
    ASSUME TypeOK, NEW T, Shaped(T), ctrl # <<>>, Width(top.kind) # 0, Forget(the_ld2vs),
           NEW v \in InScope(Env, T[Depth - 1])
    PROVE  d2var_type'[v] = d2var_type[v]
<1>1. v \notin the_ld2vs
    BY Within
<1>2. v \in Var /\ d2var_type \in [Var -> Maybe]
    BY TypeParts DEF InScope, Store
<1> QED BY <1>1, <1>2 DEF Forget, Without

\* A scope ends: what was bound in it has been consumed or given back.
LEMMA ScopeFits ==
    ASSUME NEW T, NEW T2, Ready(T, T2), LetEnd \/ LamEnd
    PROVE  Fitting(T2)'
<1> DEFINE R == Around(T, Depth - 1)
<1>1. /\ TypeOK /\ Shaped(T) /\ ~bad /\ FitsRun(run, d2var_type, Now(T))
      /\ Local \subseteq Now(T) /\ Now(T) \subseteq Var /\ the_ld2vs \subseteq Local
      /\ (run # Away => run \in [Var -> Maybe])
    <2>1. TypeOK
        BY Before
    <2> QED BY <2>1, Before DEF Local
<1>2. /\ ctrl # <<>> /\ top.kind \in {"let", "lam"} /\ Leave /\ pop /\ Forget(the_ld2vs)
      /\ Fits(d2var_type, finknd, the_ld2vs) /\ bad' = (bad \/ ~RunFits(finknd, the_ld2vs))
      /\ top.kind = "let" => run' = Without(run, the_ld2vs)
      /\ top.kind = "lam" => run' = top.wait
    BY DEF LetEnd, LamEnd, ScopeEnd, In, top, Checked
<1>3. Width(top.kind) # 0 /\ top.kind # "branch"
    BY <1>2 DEF Width
<1>4. \A v \in InScope(Env, T[Depth - 1]) : d2var_type'[v] = d2var_type[v] /\ v \notin the_ld2vs
    BY <1>1, <1>2, <1>3, Forgotten, TopFact
<1>5. ~bad'
    <2>1. ASSUME run # Away, NEW v \in the_ld2vs PROVE VarCK(run[v], finknd[v])
        <3>1. VarCK(run[v], d2var_type[v]) /\ VarCK(d2var_type[v], finknd[v])
            BY <2>1, <1>1, <1>2 DEF FitsRun, Fits
        <3> QED BY <3>1, Through
    <2> QED BY <2>1, <1>1, <1>2 DEF RunFits, Fits
<1>6. FitsRun(run', d2var_type', R)
    <2>1. /\ R \subseteq InScope(Env, T[Depth - 1]) /\ R \subseteq Var
          /\ Now(T) = Adds(T, top.kind, R, the_ld2vs)
          /\ top.kind = "lam" => FitsRun(top.wait, d2var_type, R)
        BY <1>2, TopFact
    <2>2. CASE top.kind = "lam"
        BY <2>1, <2>2, <1>2, <1>4 DEF FitsRun, Fits
    <2>3. CASE top.kind = "let"
        <3>1. Now(T) = R \cup the_ld2vs
            BY <2>1, <2>3, AddsOf
        <3>2. ASSUME run # Away, NEW v \in R PROVE run'[v] = run[v]
            BY <3>2, <2>1, <2>3, <1>2, <1>4 DEF Without
        <3>3. run' # Away => run # Away
            BY <2>3, <1>2 DEF Without
        <3> QED BY <3>1, <3>2, <3>3, <2>1, <1>1, <1>4 DEF FitsRun, Fits
    <2> QED BY <2>2, <2>3, <1>2
<1>7. Ends(T)
    BY <1>2, <1>3, <1>4, <1>5, <1>6 DEF Ends, VarCK
<1> QED BY <1>7, EndFits

\* A linear function ends: what it has taken is consumed, the rest still fits.
LEMMA LLamEndFits ==
    ASSUME NEW T, NEW T2, Ready(T, T2), LLamEnd
    PROVE  Fitting(T2)'
<1> DEFINE R == Around(T, Depth - 1)
           M == llamd2vs
<1>1. /\ TypeOK /\ Shaped(T) /\ ~bad /\ FitsRun(run, d2var_type, Now(T)) /\ Now(T) \subseteq Var
      /\ (run # Away => run \in [Var -> Maybe])
    BY Before
<1>2. /\ ctrl # <<>> /\ top.kind = "llam" /\ Leave /\ pop /\ UNCHANGED dvars
      /\ (\A v \in M : d2var_type[v] = None) /\ bad' = (bad \/ ~RunFits(Nothing, M))
      /\ run' = Without(top.wait, M)
    BY DEF LLamEnd, In, top, LLamChecked
<1>3. Width("llam") = 2
    BY DEF Width
<1>4. /\ Now(T) = R \cup the_ld2vs /\ R \subseteq InScope(Env, T[Depth - 1]) /\ R \subseteq Var
      /\ Takes(Env, Frames, Depth, T, d2var_type, Depth)
    <2>1. /\ Now(T) = Adds(T, top.kind, R, the_ld2vs)
          /\ R \subseteq InScope(Env, T[Depth - 1]) /\ R \subseteq Var
          /\ Fact(Env, Frames, Depth, T, d2var_type, Depth)
        BY <1>2, TopFact
    <2> QED BY <2>1, <1>2, AddsOf DEF Fact
<1>5. /\ Depth \in Nat \ {0} /\ Depth - 1 \in 0..Depth /\ top = Frames[Depth]
      /\ Shape(Env, High, Frames, Depth, T)
    BY <1>1, <1>2, Within
<1>6. Env[T[Depth] - 1].d2vs = M
    <2>1. /\ the_ld2vs \in SUBSET Var /\ the_ld2vss \in Seq(Elem) /\ Len(the_ld2vss) \in Nat
        BY <1>1, TypeParts, LenProperties
    <2>2. \A p \in 1..Len(the_ld2vss) : Env[p] = the_ld2vss[Len(the_ld2vss) + 1 - p]
        BY <2>1, EnvReads DEF Env
    <2>3. T[Depth] = High /\ T[Depth - 1] \in 1..High /\ T[Depth - 1] = High - Width(Frames[Depth].kind)
        BY <1>1, <1>5, Heads
    <2>4. T[Depth] - 1 = Len(the_ld2vss) /\ Len(the_ld2vss) \in 1..Len(the_ld2vss)
          /\ Len(the_ld2vss) + 1 - Len(the_ld2vss) = 1
        BY <2>1, <2>3, <1>2, <1>3, <1>5 DEF High
    <2> QED BY <2>2, <2>4 DEF llamd2vs
<1> HIDE DEF M
<1>7. M \subseteq R /\ (top.wait # Away => \A v \in R : v \notin M => VarCK(top.wait[v], d2var_type[v]))
    <2>1. /\ M \subseteq LocalAt(Env, T[Depth - 1])
          /\ top.wait # Away => \A v \in R : v \notin M => Kept(Frames, Depth, d2var_type, Depth, v, top.wait[v])
        BY <1>2, <1>4, <1>5, <1>6 DEF Takes, Around
    <2>2. LocalAt(Env, T[Depth - 1]) \subseteq R
        BY <1>5, LocalReach DEF Around
    <2> QED BY <2>1, <2>2 DEF Kept
<1> HIDE DEF R
<1>8. d2var_type' = d2var_type
    BY <1>2 DEF dvars
<1>9. ~bad'
    <2>1. ASSUME run # Away, NEW v \in M PROVE VarCK(run[v], Nothing[v])
        <3>1. v \in Now(T) /\ v \in Var
            BY <1>1, <1>4, <1>7, <2>1
        <3>2. VarCK(run[v], d2var_type[v]) /\ d2var_type[v] = None
            BY <3>1, <2>1, <1>1, <1>2 DEF FitsRun, Fits
        <3> QED BY <3>1, <3>2 DEF Nothing
    <2> QED BY <2>1, <1>1, <1>2 DEF RunFits, Fits
<1>10. FitsRun(run', d2var_type', R)
    <2>1. run' # Away => top.wait # Away
        BY <1>2 DEF Without
    <2>2. ASSUME top.wait # Away, NEW v \in R PROVE run'[v] = IF v \in M THEN None ELSE top.wait[v]
        BY <2>2, <1>2, <1>4 DEF Without
    <2>3. ASSUME run' # Away, NEW v \in R PROVE VarCK(run'[v], d2var_type[v])
        <3>1. CASE v \in M
            BY <3>1, <2>1, <2>2, <2>3, <1>2 DEF VarCK
        <3>2. CASE v \notin M
            BY <3>2, <2>1, <2>2, <2>3, <1>7
        <3> QED BY <3>1, <3>2
    <2> QED BY <2>3, <1>8 DEF FitsRun, Fits
<1>11. Ends(T)
    BY <1>2, <1>3, <1>8, <1>9, <1>10 DEF Ends, VarCK, R
<1> QED BY <1>11, EndFits

\* A try ends: the tried expression or the handler has given the store.
LEMMA TryEndFits ==
    ASSUME NEW T, NEW T2, Ready(T, T2), TryEnd
    PROVE  Fitting(T2)'
<1> DEFINE R == Around(T, Depth - 1)
<1>1. ~bad /\ FitsRun(run, d2var_type, Now(T))
    BY Before
<1>2. /\ ctrl # <<>> /\ top.kind = "with" /\ Leave /\ pop /\ d2var_type' = d2var_type
      /\ run' = Either(run, top.wait) /\ bad' = bad
    BY DEF TryEnd, In, top, dvars
<1>3. Width("with") # 0
    BY DEF Width
<1>4. Now(T) = R \cup the_ld2vs /\ FitsRun(top.wait, d2var_type, R)
    <2>1. /\ Now(T) = Adds(T, top.kind, R, the_ld2vs)
          /\ top.kind \in {"lam", "with"} => FitsRun(top.wait, d2var_type, R)
        BY <1>2, TopFact
    <2> QED BY <2>1, <1>2, AddsOf
<1> HIDE DEF R
<1>5. FitsRun(run', d2var_type', R)
    BY <1>1, <1>2, <1>4 DEF FitsRun, Fits, Either
<1>6. Ends(T)
    BY <1>1, <1>2, <1>3, <1>5 DEF Ends, VarCK, R
<1> QED BY <1>6, EndFits

\* A loop ends: the execution goes on from its test or from a $break.
LEMMA LoopEndFits ==
    ASSUME NEW T, NEW T2, Ready(T, T2), LoopEnd
    PROVE  Fitting(T2)'
<1> DEFINE R == Around(T, Depth - 1)
           l == top.lsbis
<1>1. ~bad /\ FitsRun(run, d2var_type, Now(T)) /\ Local \subseteq Now(T)
    BY Before
<1>2. /\ ctrl # <<>> /\ top.kind = "loop" /\ Leave /\ UNCHANGED envs
      /\ Fits(d2var_type, l, Local \cap DOMAIN l)
      /\ d2var_type' = restore_type(l) /\ run' = top.done
      /\ bad' = (bad \/ ~RunFits(l, DOMAIN l))
    BY DEF LoopEnd, In, top, LoopChecked
<1>3. Width("loop") = 0 /\ Saves("loop")
    BY DEF Width, Saves
<1>4. DOMAIN l = Local /\ R \subseteq Var /\ FitsRun(top.done, Base(top, d2var_type), R)
    BY <1>2, <1>3, TopFact
<1>5. \A v \in Var : d2var_type'[v] = Base(top, d2var_type)[v]
    BY <1>2 DEF restore_type, Base
<1>6. \A v \in Var : VarCK(d2var_type[v], d2var_type'[v])
    <2>1. \A v \in Var : v \in Local => VarCK(d2var_type[v], l[v])
        BY <1>2, <1>4 DEF Fits
    <2> QED BY <2>1, <1>4, <1>5 DEF Base, VarCK
<1> HIDE DEF l, R
<1>7. ~bad'
    <2>1. ASSUME run # Away, NEW v \in DOMAIN l PROVE VarCK(run[v], l[v])
        <3>1. VarCK(run[v], d2var_type[v]) /\ VarCK(d2var_type[v], l[v])
            BY <2>1, <1>1, <1>2, <1>4 DEF FitsRun, Fits
        <3> QED BY <3>1, Through
    <2> QED BY <2>1, <1>1, <1>2 DEF RunFits, Fits
<1>8. FitsRun(run', d2var_type', R)
    BY <1>2, <1>4, <1>5 DEF FitsRun, Fits
<1>9. Ends(T)
    BY <1>2, <1>3, <1>6, <1>7, <1>8 DEF Ends, InScope, R
<1> QED BY <1>9, EndFits

-----------------------------------------------------------------------------
(* The constructs go on.                                                   *)

\* A construct goes on, with frame f.
Continues(T, f) ==
    /\ ctrl # <<>> /\ Become(f)
    /\ UNCHANGED envs \/ \E w, lin, S : Grows(w, lin, S)
    /\ d2var_type' = d2var_type /\ ~bad'
    /\ FitsRun(run', d2var_type, Adds(T, f.kind, Around(T, Depth - 1), the_ld2vs'))
    /\ \/ top.kind \in {"trydn", "tryup"} /\ f.kind = "with"
          /\ FitsRun(f.wait, d2var_type, Around(T, Depth - 1))
       \/ top.kind = "test" /\ f.kind = "loop"
          /\ FitsRun(f.done, Base(f, d2var_type), Around(T, Depth - 1))

\* A construct may go on as another one if the execution fits.
LEMMA ContinueFits ==
    ASSUME NEW T, NEW T2, Ready(T, T2), NEW f, Continues(T, f)
    PROVE  Fitting(T2)'
<1> DEFINE R == Around(T, Depth - 1)
<1>1. TypeOK /\ Shaped(T)
    BY DEF Ready
<1>2. ctrl # <<>> /\ Become(f) /\ (UNCHANGED envs \/ \E w, lin, S : Grows(w, lin, S))
    BY DEF Continues
<1>3. /\ Stays(T, T2, Depth - 1) /\ Depth' = Depth /\ Frames'[Depth'] = f
      /\ Now(T2)' = Adds(T, f.kind, R, the_ld2vs')
      /\ \A d \in 0..(Depth - 1) : Reach(Env', Frames', T2, d) = Reach(Env, Frames, T, d)
    BY <1>2, Going
<1>4. Depth \in Nat \ {0} /\ top = Frames[Depth]
    BY <1>1, <1>2, Within
<1>5. Plain(T, T2, Depth - 1)
    BY <1>3, <1>4 DEF Plain, Continues, VarCK
<1>6. Reach(Env', Frames', T2, Depth' - 1) = R
    <2>1. Depth - 1 \in 0..(Depth - 1) /\ Depth' - 1 = Depth - 1
        BY <1>3, <1>4
    <2> QED BY <2>1, <1>3 DEF Around
<1>7. f.kind = "loop" => Reach(Env', Frames', T2, Depth') = R
    BY <1>3, AddsOf DEF Now
<1> HIDE DEF R
<1>8. Fact(Env', Frames', Depth', T2, d2var_type', Depth')
    <2>1. d2var_type' = d2var_type
        BY DEF Continues
    <2>2. CASE f.kind = "with" /\ FitsRun(f.wait, d2var_type, R)
        BY <2>1, <2>2, <1>3, <1>6 DEF Fact, Waits, Seals, Takes
    <2>3. CASE f.kind = "loop" /\ FitsRun(f.done, Base(f, d2var_type), R)
        BY <2>1, <2>3, <1>3, <1>7 DEF Fact, Waits, Seals, Takes
    <2> QED BY <2>2, <2>3 DEF Continues, R
<1>9. ~bad' /\ FitsRun(run', d2var_type', Now(T2)')
    BY <1>3 DEF Continues, R
<1> QED BY <1>5, <1>8, <1>9, PlainFits

\* The handlers begin: what the exception left behind is as it was.
LEMMA WithFits ==
    ASSUME NEW T, NEW T2, Ready(T, T2), WithDn \/ WithUp
    PROVE  Fitting(T2)'
<1> DEFINE R == Around(T, Depth - 1)
           f == [top EXCEPT !.kind = "with", !.wait = run, !.done = Away]
<1>1. TypeOK /\ Shaped(T) /\ ~bad /\ FitsRun(run, d2var_type, Now(T))
    BY Before
<1>2. /\ ctrl # <<>> /\ top.kind \in {"trydn", "tryup"} /\ Become(f)
      /\ d2var_type' = d2var_type /\ run' = Without(top.done, Var \ Visible) /\ bad' = bad
    BY DEF WithDn, WithUp, Handler, In, top, dvars
<1>3. top \in Context
    BY <1>1, <1>2, Innermost
<1>4. f.kind = "with" /\ f.wait = run
    BY <1>3 DEF Context
<1> HIDE DEF f
<1>5. UNCHANGED envs \/ \E w, lin, S : Grows(w, lin, S)
    <2>1. push_lam(0, {}) => Grows(2, 0, {})
        BY DEF Grows
    <2> QED BY <2>1 DEF WithDn, WithUp
<1>6. /\ Now(T) = Adds(T, top.kind, R, the_ld2vs) /\ R \subseteq Visible /\ R \subseteq Var
      /\ FitsRun(top.done, d2var_type, R)
    BY <1>2, TopFact
<1>7. R \subseteq Now(T)
    BY <1>2, <1>6 DEF Adds
<1>8. Adds(T, "with", R, the_ld2vs') = R
    <2>1. the_ld2vs' = {}
        <3>1. CASE WithUp
            BY <3>1 DEF WithUp, push_lam
        <3>2. CASE WithDn
            <4>1. top.kind = "trydn" /\ the_ld2vs' = the_ld2vs
                BY <3>2 DEF WithDn, In, top, envs
            <4>2. FrameShape(Env, Frames, T, Depth) /\ T[Depth] = High /\ Depth \in Nat \ {0}
                  /\ top = Frames[Depth] /\ EnvOK(Env, High)
                BY <1>1, <1>2, Heads, FrameViews
            <4>3. Env[High].d2vs = {}
                BY <4>1, <4>2 DEF FrameShape, Bare
            <4>4. Env[High] = LD2VSset(the_ld2vs)
                BY <4>2, <1>1, Views
            <4> QED BY <4>1, <4>3, <4>4 DEF LD2VSset
        <3> QED BY <3>1, <3>2
    <2> QED BY <2>1 DEF Adds
<1> HIDE DEF R
<1>9. FitsRun(run', d2var_type, R)
    <2>1. run' # Away => top.done # Away
        BY <1>2 DEF Without
    <2>2. ASSUME top.done # Away, NEW v \in R PROVE run'[v] = top.done[v]
        BY <2>2, <1>2, <1>6 DEF Without
    <2> QED BY <2>1, <2>2, <1>6 DEF FitsRun, Fits
<1>10. FitsRun(f.wait, d2var_type, R)
    BY <1>1, <1>4, <1>7 DEF FitsRun, Fits
<1>11. Continues(T, f)
    BY <1>1, <1>2, <1>4, <1>5, <1>8, <1>9, <1>10 DEF Continues, R
<1> QED BY <1>11, ContinueFits

\* The test of a loop ends: it was the last, or the body begins.
LEMMA LoopTestFits ==
    ASSUME NEW T, NEW T2, Ready(T, T2), LoopTest
    PROVE  Fitting(T2)'
<1> DEFINE R == Around(T, Depth - 1)
<1>1. /\ TypeOK /\ ~bad /\ FitsRun(run, d2var_type, Now(T))
      /\ Local \subseteq Now(T)
    BY Before
<1>2. /\ ctrl # <<>> /\ top.kind = "test" /\ Fits(d2var_type, top.lsbis, Local \cap DOMAIN top.lsbis)
      /\ UNCHANGED envs /\ d2var_type' = d2var_type /\ bad' = bad
    BY DEF LoopTest, In, top, dvars, LoopChecked
<1>3. PICK done \in {run, top.done} :
         /\ Become([top EXCEPT !.kind = "loop", !.done = done]) /\ run' \in {run, Away}
    <2>1. top \in Context
        BY <1>1, <1>2, Innermost
    <2>2. [top EXCEPT !.kind = "loop"] = [top EXCEPT !.kind = "loop", !.done = top.done]
        BY <2>1 DEF Context
    <2> QED BY <2>2 DEF LoopTest
<1> DEFINE f == [top EXCEPT !.kind = "loop", !.done = done]
<1>4. f.kind = "loop" /\ f.done = done /\ f.lsbis = top.lsbis
    <2>1. top \in Context
        BY <1>1, <1>2, Innermost
    <2> QED BY <2>1 DEF Context
<1>5. Become(f)
    BY <1>3
<1> HIDE DEF f
<1>6. /\ Now(T) = R /\ R \subseteq Var /\ DOMAIN top.lsbis = Local
      /\ FitsRun(top.done, Base(top, d2var_type), R)
    BY <1>2, TopFact, AddsOf DEF Saves
<1>7. Adds(T, "loop", R, the_ld2vs') = R
    BY AddsOf
<1> HIDE DEF R
<1>8. FitsRun(run', d2var_type, R)
    BY <1>1, <1>3, <1>6 DEF FitsRun
<1>9. Base(f, d2var_type) = Base(top, d2var_type)
    BY <1>4 DEF Base
<1>10. FitsRun(run, Base(top, d2var_type), R)
    <2> SUFFICES ASSUME run # Away, NEW v \in R PROVE VarCK(run[v], Base(top, d2var_type)[v])
        BY DEF FitsRun, Fits
    <2>1. VarCK(run[v], d2var_type[v]) /\ v \in Var
        BY <1>1, <1>6 DEF FitsRun, Fits
    <2>2. CASE v \in Local
        <3>1. VarCK(d2var_type[v], top.lsbis[v])
            BY <2>2, <1>2, <1>6 DEF Fits
        <3>2. Base(top, d2var_type)[v] = top.lsbis[v]
            BY <2>1, <2>2, <1>6 DEF Base
        <3> QED BY <2>1, <3>1, <3>2, Through
    <2>3. CASE v \notin Local
        BY <2>1, <2>3, <1>6 DEF Base
    <2> QED BY <2>2, <2>3
<1>11. FitsRun(f.done, Base(f, d2var_type), R)
    BY <1>3, <1>4, <1>6, <1>9, <1>10
<1>12. Continues(T, f)
    BY <1>1, <1>2, <1>4, <1>5, <1>7, <1>8, <1>11 DEF Continues, R
<1> QED BY <1>12, ContinueFits

\* A variable is declared.
LEMMA DeclareFits ==
    ASSUME NEW T, NEW T2, Ready(T, T2), NEW v \in Var, NEW t \in Type, Declare(v, t)
    PROVE  Fitting(T2)'
<1> DEFINE m == Depth - 1
           R == Around(T, m)
<1>1. /\ TypeOK /\ Shaped(T) /\ ~bad /\ FitsRun(run, d2var_type, Now(T)) /\ Now(T) \subseteq Visible
      /\ Now(T) \subseteq Var /\ d2var_type \in [Var -> Maybe] /\ (run # Away => run \in [Var -> Maybe])
    BY Before
<1>2. /\ ctrl # <<>> /\ top.kind = "let" /\ v \notin Visible
      /\ d2var_type' = [d2var_type EXCEPT ![v] = t] /\ Given(run, v, t)
      /\ the_ld2vs' = the_ld2vs \cup {v} /\ UNCHANGED <<the_ld2vss, ctrl, bad>>
    BY DEF Declare, In, top, Bind
<1>3. TypeOK /\ TypeOK' /\ Shaped(T) /\ Shaped(T2)' /\ T2 = TopAt(T, Depth', High')
    BY DEF Ready
<1>4. /\ Depth \in Nat \ {0} /\ m \in 0..Depth /\ Depth = m + 1 /\ top = Frames[Depth]
      /\ Depth' = Depth /\ Frames' = Frames /\ High' = High
    BY <1>1, <1>2, Within DEF Depth, Frames, High
<1>5. T[m] = High - 1 /\ T[m] \in 1..High /\ High \in Nat
    BY <1>1, <1>2, <1>4, Heads DEF Width
<1>6. \A p \in 1..T[m] : Env'[p] = Env[p]
    <2>1. /\ the_ld2vs \in SUBSET Var /\ the_ld2vs \cup {v} \in SUBSET Var
          /\ the_ld2vss \in Seq(Elem) /\ Len(the_ld2vss) \in Nat
        BY <1>1, TypeParts, LenProperties
    <2>2. T[m] = Len(the_ld2vss)
        BY <2>1, <1>5 DEF High
    <2> DEFINE w2 == the_ld2vs \cup {v}
    <2>3. Env' = EnvOf(w2, the_ld2vss) /\ Env = EnvOf(the_ld2vs, the_ld2vss)
        BY <1>2 DEF Env
    <2>4. w2 \in SUBSET Var
        BY <2>1
    <2> HIDE DEF w2
    <2>5. \A p \in 1..Len(the_ld2vss) : EnvOf(w2, the_ld2vss)[p] = Flip(the_ld2vss)[p]
        BY <2>1, <2>4, EnvTop
    <2>6. \A p \in 1..Len(the_ld2vss) : EnvOf(the_ld2vs, the_ld2vss)[p] = Flip(the_ld2vss)[p]
        BY <2>1, EnvTop
    <2> QED BY <2>2, <2>3, <2>5, <2>6
<1>7. \A d \in 0..m : T2[d] = T[d]
    BY <1>3, <1>4, HeightsKept
<1> HIDE DEF m
<1>8. Stays(T, T2, m)
    BY <1>4, <1>6, <1>7 DEF Stays
<1>9. /\ Now(T2)' = Adds(T, "let", R, the_ld2vs') /\ Now(T) = Adds(T, "let", R, the_ld2vs)
      /\ R \subseteq InScope(Env, T[m]) /\ R \subseteq Var
    <2>1. Frames'[Depth'].kind = "let" /\ Frames[Depth].kind = "let" /\ Depth' = m + 1
        BY <1>2, <1>4
    <2>2. Around(T, m) \subseteq InScope(Env, T[m]) /\ Around(T, m) \subseteq Var
        BY <1>3, <1>8, Reaches
    <2>3. Depth = m + 1 => Now(T) = Adds(T, Frames[Depth].kind, Around(T, m), the_ld2vs)
        BY <1>3, <1>8, Reaches
    <2>4. Depth' = m + 1 => Now(T2)' = Adds(T, Frames'[Depth'].kind, Around(T, m), the_ld2vs')
        BY <1>3, <1>8, Reaches
    <2> QED BY <2>1, <2>2, <2>3, <2>4, <1>4
<1>10. Now(T2)' = Now(T) \cup {v}
    <2>1. Now(T2)' = R \cup the_ld2vs' /\ Now(T) = R \cup the_ld2vs
        BY <1>9, AddsOf
    <2> QED BY <2>1, <1>2
<1>11. \A u \in Visible : u # v /\ (u \in Var => d2var_type'[u] = d2var_type[u])
    BY <1>1, <1>2
<1>12. FitsRun(run', d2var_type', Now(T2)')
    <2>1. run' # Away => run # Away /\ VarCK(run'[v], t) /\ \A u \in Var : u # v => run'[u] = run[u]
        BY <1>1, <1>2, GivenFits
    <2>2. d2var_type'[v] = t
        BY <1>1, <1>2
    <2>3. ASSUME run' # Away, NEW u \in Now(T) PROVE VarCK(run'[u], d2var_type'[u])
        <3>1. run'[u] = run[u] /\ d2var_type'[u] = d2var_type[u]
            BY <2>1, <2>3, <1>1, <1>11
        <3> QED BY <3>1, <2>1, <2>3, <1>1 DEF FitsRun, Fits
    <2> QED BY <2>1, <2>2, <2>3, <1>10 DEF FitsRun, Fits
<1>13. Plain(T, T2, m)
    <2>1. InScope(Env, T[m]) \subseteq Visible
        <3>1. Visible = InScope(Env, High)
            BY <1>1, Heads, Views
        <3>2. \A p \in 1..T[m] : p \in 1..High
            BY <1>5
        <3> QED BY <3>1, <3>2 DEF InScope
    <2>2. \A u \in InScope(Env, T[m]) : VarCK(d2var_type[u], d2var_type'[u])
        BY <2>1, <1>11 DEF VarCK, InScope
    <2> QED BY <2>2, <1>2, <1>4, <1>8 DEF Plain
<1>14. Fact(Env', Frames', Depth', T2, d2var_type', Depth')
    <2>1. Frames'[Depth'].kind = "let"
        BY <1>2, <1>4
    <2> QED BY <2>1 DEF Fact, Waits, Seals, Takes
<1> QED BY <1>1, <1>2, <1>12, <1>13, <1>14, PlainFits

\* The checker refuses the program.
LEMMA ReportFits ==
    ASSUME NEW T, NEW T2, Ready(T, T2), Report
    PROVE  Fitting(T2)'
<1>1. ~bad /\ FitsRun(run, d2var_type, Now(T)) /\ TypeOK /\ Shaped(T)
    BY Before
<1>2. UNCHANGED <<envs, ctrl>> /\ d2var_type' = d2var_type /\ run' = run /\ bad' = bad
    BY DEF Report, dvars, exec
<1>3. Stays(T, T2, Depth) /\ Depth' = Depth /\ Now(T2)' = Now(T)
    BY <1>2, Standing
<1>4. Depth \in Nat /\ Depth' # Depth + 1
    BY <1>1, <1>3, Heads
<1>5. Plain(T, T2, Depth)
    BY <1>2, <1>3, <1>4 DEF Plain, VarCK
<1> QED BY <1>1, <1>2, <1>3, <1>4, <1>5, PlainFits

-----------------------------------------------------------------------------
(* The next branch, and the join.                                          *)

\* The first of two branches ends.
Switch(F, F2, n, D, D2) ==
    /\ F[n].kind = "branch" /\ F[n].saits = <<>>
    /\ F2[n].kind = "branch" /\ F2[n].lsbis = F[n].lsbis /\ F2[n].saits = <<D>>
    /\ \A e \in 1..(n - 1) : F2[e] = F[e]
    /\ \A v \in Var : D2[v] = Base(F[n], D)[v]

\* What an exception has left still fits, now or at the join.
LEMMA SwitchCovered ==
    ASSUME NEW F, NEW n \in Nat \ {0}, NEW F2, NEW D, NEW D2, Switch(F, F2, n, D, D2),
           NEW d \in 0..(n - 1), NEW v \in Var, NEW x, Covered(F, n, D, d, v, x)
    PROVE  Covered(F2, n, D2, d, v, x)
<1>1. n \in (d + 1)..n
    OBVIOUS
<1>2. CASE VarCK(x, D[v])
    <2>1. CASE v \in DOMAIN F[n].lsbis
        <3>1. F2[n].saits[1][v] = D[v] /\ F2[n].saits # <<>> /\ v \in DOMAIN F2[n].lsbis
            BY <2>1 DEF Switch
        <3> QED BY <3>1, <1>1, <1>2 DEF Covered, Switch
    <2>2. CASE v \notin DOMAIN F[n].lsbis
        BY <2>2, <1>2 DEF Covered, Switch, Base
    <2> QED BY <2>1, <2>2
<1>3. ASSUME NEW e \in (d + 1)..n, F[e].kind = "branch", F[e].saits # <<>>,
             v \in DOMAIN F[e].lsbis, VarCK(x, F[e].saits[1][v])
      PROVE  Covered(F2, n, D2, d, v, x)
    <2>1. e # n
        BY <1>3 DEF Switch
    <2>2. e \in 1..(n - 1)
        BY <2>1
    <2>3. F2[e] = F[e]
        BY <2>2 DEF Switch
    <2> QED BY <2>3, <1>3 DEF Covered
<1> QED BY <1>2, <1>3 DEF Covered

\* What a linear function has not taken still fits in the other branch.
LEMMA SwitchKept ==
    ASSUME NEW F, NEW n \in Nat \ {0}, NEW F2, NEW D, NEW D2, Switch(F, F2, n, D, D2),
           NEW d \in 0..(n - 1), NEW v \in Var, NEW x, Kept(F, n, D, d, v, x)
    PROVE  Kept(F2, n, D2, d, v, x)
<1>1. n \in (d + 1)..n
    OBVIOUS
<1>2. VarCK(x, D2[v])
    BY <1>1 DEF Switch, Kept, Base
<1>3. ASSUME NEW e \in (d + 1)..n, F2[e].kind = "branch", v \in DOMAIN F2[e].lsbis
      PROVE  VarCK(x, F2[e].lsbis[v])
    <2>1. e = n \/ e \in 1..(n - 1)
        OBVIOUS
    <2>2. F[e].kind = "branch" /\ F2[e].lsbis = F[e].lsbis
        BY <2>1, <1>3 DEF Switch
    <2> QED BY <2>2, <1>3 DEF Kept
<1> QED BY <1>2, <1>3 DEF Kept

\* A construct around the branches.
LEMMA SwitchFact ==
    ASSUME NEW E, NEW L, NEW F, NEW n, NEW T, Shape(E, L, F, n, T), n # 0,
           NEW E2, NEW F2, NEW T2, Same(E2, F2, T2, E, F, T, n - 1),
           \A p \in 1..T[n - 1] : E2[p] = E[p],
           NEW D, NEW D2, Changes(E, T, n, D, D2), Switch(F, F2, n, D, D2),
           NEW d \in 1..(n - 1), Fact(E, F, n, T, D, d)
    PROVE  Fact(E2, F2, n, T2, D2, d)
<1> DEFINE m == n - 1
<1>1. /\ n \in Nat \ {0} /\ m \in 0..n /\ d \in 0..m /\ d - 1 \in 0..m /\ d \in 1..n
      /\ T[d] \in Nat /\ T[d - 1] \in Nat /\ T[m] \in Nat /\ T[d] <= T[m]
    BY DEF Shape
<1>2. Same(E2, F2, T2, E, F, T, m) /\ d \in 1..m
    OBVIOUS
<1>3. m = n - 1
    OBVIOUS
<1> HIDE DEF m
<1>4. Waits(E2, F2, T2, D2, d)
    BY <1>1, <1>2, WaitsOn DEF Fact
<1>5. Seals(E2, F2, n, T2, D2, d)
    <2>1. ASSUME NEW v \in InScope(E, T[d]), Covered(F, n, D, d, v, F[d].done[v])
          PROVE  Covered(F2, n, D2, d, v, F[d].done[v])
        <3>1. v \in Var /\ d \in 0..(n - 1)
            BY <1>1, <1>3 DEF InScope
        <3> QED BY <3>1, <2>1, <1>1, SwitchCovered
    <2> QED BY <2>1, <1>1, <1>2, SealsOn DEF Fact
<1>6. Takes(E2, F2, n, T2, D2, d)
    <2>1. ASSUME NEW v \in InScope(E, T[d - 1]), Kept(F, n, D, d, v, F[d].wait[v])
          PROVE  Kept(F2, n, D2, d, v, F[d].wait[v])
        <3>1. v \in Var /\ d \in 0..(n - 1)
            BY <1>1, <1>3 DEF InScope
        <3> QED BY <3>1, <2>1, <1>1, SwitchKept
    <2>2. F[d].kind = "llam" => E2[T[d] - 1] = E[T[d] - 1]
        <3>1. ASSUME F[d].kind = "llam" PROVE T[d] - 1 \in 1..T[m]
            <4>1. T[d] = T[d - 1] + 2 /\ T[d - 1] \in Nat \ {0}
                BY <3>1, <1>1 DEF Shape, FrameShape, Width
            <4> QED BY <4>1, <1>1
        <3> QED BY <3>1, <1>3
    <2> QED BY <2>1, <2>2, <1>1, <1>2, TakesOn DEF Fact
<1> QED BY <1>4, <1>5, <1>6 DEF Fact

\* The second branch begins, with the types before the first.
LEMMA NextBranchFits ==
    ASSUME NEW T, NEW T2, Ready(T, T2), NextBranch
    PROVE  Fitting(T2)'
<1> DEFINE D == d2var_type
           D2 == d2var_type'
           m == Depth - 1
           R == Around(T, m)
           f == [top EXCEPT !.saits = <<D>>, !.wait = Away, !.done = run]
<1>1. /\ TypeOK /\ Shaped(T) /\ ~bad /\ FitsRun(run, D, Now(T)) /\ (Construct \/ Report)
      /\ Fitting(T)
    BY DEF Ready, Fitting
<1>2. /\ ctrl # <<>> /\ top.kind = "branch" /\ top.saits = <<>> /\ Become(f)
      /\ run' = top.wait /\ D2 = restore_type(top.lsbis) /\ UNCHANGED envs /\ bad' = bad
    BY DEF NextBranch, In, top
<1>3. top \in Context
    BY <1>1, <1>2, Innermost
<1>4. /\ f.kind = "branch" /\ f.lsbis = top.lsbis /\ f.saits = <<D>> /\ f.wait = Away /\ f.done = run
      /\ f.saits # <<>> /\ Len(f.saits) <= 1 /\ f.saits[1] = D
    BY <1>2, <1>3 DEF Context
<1> HIDE DEF f
<1>5. /\ Stays(T, T2, m) /\ Depth' = Depth /\ Frames'[Depth'] = f
      /\ Now(T2)' = Adds(T, f.kind, R, the_ld2vs')
    BY <1>2, Going
<1>6. /\ Now(T) = Adds(T, top.kind, R, the_ld2vs) /\ R \subseteq Var
      /\ Fact(Env, Frames, Depth, T, D, Depth)
    BY <1>2, TopFact
<1>7. Now(T) = R /\ Now(T2)' = R
    BY <1>2, <1>4, <1>5, <1>6, AddsOf
<1>8. Depth \in Nat \ {0} /\ top = Frames[Depth] /\ Shape(Env, High, Frames, Depth, T)
    BY <1>1, <1>2, Within
<1>9. \A v \in Var : D2[v] = Base(top, D)[v]
    BY <1>2 DEF restore_type, Base
<1>10. FitsRun(run', D2, R)
    <2>1. FitsRun(top.wait, Base(top, D), R)
        BY <1>2, <1>6, <1>7, <1>8 DEF Fact, Waits, Now
    <2> QED BY <2>1, <1>2, <1>6, <1>9 DEF FitsRun, Fits
<1>11. Fact(Env', Frames', Depth', T2, D2, Depth')
    <2>1. Reach(Env', Frames', T2, Depth') = R
        BY <1>7 DEF Now
    <2>2. \A v \in R : First(f, D2)[v] = D[v]
        BY <1>4, <1>6, <1>9 DEF First, Base
    <2>3. FitsRun(f.done, First(f, D2), R)
        BY <2>2, <1>1, <1>4, <1>7 DEF FitsRun, Fits
    <2>4. FitsRun(f.wait, Base(f, D2), R)
        BY <1>4 DEF FitsRun
    <2> QED BY <2>1, <2>3, <2>4, <1>4, <1>5 DEF Fact, Waits, Seals, Takes
<1>12. Switch(Frames, Frames', Depth, D, D2)
    BY <1>2, <1>4, <1>5, <1>8, <1>9 DEF Switch, Stays
<1>13. ASSUME NEW d \in 1..(Depth - 1) PROVE Fact(Env', Frames', Depth', T2, D2, d)
    <2>1. Changes(Env, T, Depth, D, D2)
        BY <1>1, StepChanges
    <2>2. Same(Env', Frames', T2, Env, Frames, T, Depth - 1) /\ \A p \in 1..T[Depth - 1] : Env'[p] = Env[p]
        BY <1>5 DEF Stays, Same, Alike
    <2>3. Fact(Env, Frames, Depth, T, D, d) /\ Depth # 0
        BY <1>1, <1>8 DEF Fitting
    <2> HIDE DEF D, D2, m, R
    <2> QED BY <2>1, <2>2, <2>3, <1>5, <1>8, <1>12, SwitchFact
<1>14. \A d \in 1..Depth' : d \in 1..(Depth - 1) \/ d = Depth'
    BY <1>5, <1>8
<1> QED BY <1>1, <1>2, <1>7, <1>10, <1>11, <1>13, <1>14 DEF Fitting

\* Two branches are joined, or one ends.
Joined(F, n, D, D2) ==
    /\ F[n].kind = "branch"
    /\ \A v \in Var : VarCK(D[v], D2[v])
    /\ F[n].saits # <<>> => \A v \in DOMAIN F[n].lsbis : VarCK(F[n].saits[1][v], D2[v])

\* What an exception has left in a branch fits after the join.
LEMMA JoinCovered ==
    ASSUME NEW F, NEW n \in Nat \ {0}, NEW F2, NEW D, NEW D2, Joined(F, n, D, D2),
           \A e \in 1..(n - 1) : F2[e] = F[e],
           NEW d \in 0..(n - 1), NEW v \in Var, NEW x, Covered(F, n, D, d, v, x)
    PROVE  Covered(F2, n - 1, D2, d, v, x)
<1>1. CASE VarCK(x, D[v])
    <2>1. VarCK(D[v], D2[v])
        BY DEF Joined
    <2> QED BY <2>1, <1>1, Through DEF Covered
<1>2. ASSUME NEW e \in (d + 1)..n, F[e].kind = "branch", F[e].saits # <<>>,
             v \in DOMAIN F[e].lsbis, VarCK(x, F[e].saits[1][v])
      PROVE  Covered(F2, n - 1, D2, d, v, x)
    <2>1. CASE e = n
        <3>1. VarCK(F[n].saits[1][v], D2[v])
            BY <2>1, <1>2 DEF Joined
        <3> QED BY <3>1, <2>1, <1>2, Through DEF Covered
    <2>2. CASE e # n
        <3>1. e \in 1..(n - 1) /\ e \in (d + 1)..(n - 1)
            BY <2>2
        <3> QED BY <3>1, <1>2 DEF Covered
    <2> QED BY <2>1, <2>2
<1> QED BY <1>1, <1>2 DEF Covered

\* What a linear function has not taken fits after the join.
LEMMA JoinKept ==
    ASSUME NEW F, NEW n \in Nat \ {0}, NEW F2, NEW D, NEW D2, Joined(F, n, D, D2),
           \A e \in 1..(n - 1) : F2[e] = F[e],
           NEW d \in 0..(n - 1), NEW v \in Var, NEW x, Kept(F, n, D, d, v, x)
    PROVE  Kept(F2, n - 1, D2, d, v, x)
<1>1. VarCK(x, D2[v])
    <2>1. VarCK(x, D[v]) /\ VarCK(D[v], D2[v])
        BY DEF Joined, Kept
    <2> QED BY <2>1, Through
<1>2. ASSUME NEW e \in (d + 1)..(n - 1), F2[e].kind = "branch", v \in DOMAIN F2[e].lsbis
      PROVE  VarCK(x, F2[e].lsbis[v])
    <2>1. e \in 1..(n - 1) /\ e \in (d + 1)..n
        OBVIOUS
    <2> QED BY <2>1, <1>2 DEF Kept
<1> QED BY <1>1, <1>2 DEF Kept

\* A construct around the join.
LEMMA JoinFact ==
    ASSUME NEW E, NEW L, NEW F, NEW n, NEW T, Shape(E, L, F, n, T), n # 0,
           NEW E2, NEW F2, NEW T2, Same(E2, F2, T2, E, F, T, n - 1),
           \A p \in 1..T[n - 1] : E2[p] = E[p],
           NEW D, NEW D2, Changes(E, T, n, D, D2), Joined(F, n, D, D2),
           NEW d \in 1..(n - 1), Fact(E, F, n, T, D, d)
    PROVE  Fact(E2, F2, n - 1, T2, D2, d)
<1> DEFINE m == n - 1
<1>1. /\ n \in Nat \ {0} /\ m \in 0..n /\ d \in 0..m /\ d - 1 \in 0..m /\ d \in 1..n
      /\ T[d] \in Nat /\ T[d - 1] \in Nat /\ T[m] \in Nat /\ T[d] <= T[m]
    BY DEF Shape
<1>2. /\ Same(E2, F2, T2, E, F, T, m) /\ d \in 1..m
      /\ \A e \in 1..m : F2[e] = F[e]
    BY DEF Same
<1>3. m = n - 1
    OBVIOUS
<1> HIDE DEF m
<1>4. Waits(E2, F2, T2, D2, d)
    BY <1>1, <1>2, WaitsOn DEF Fact
<1>5. Seals(E2, F2, m, T2, D2, d)
    <2>1. ASSUME NEW v \in InScope(E, T[d]), Covered(F, n, D, d, v, F[d].done[v])
          PROVE  Covered(F2, m, D2, d, v, F[d].done[v])
        <3>1. v \in Var /\ d \in 0..(n - 1) /\ \A e \in 1..(n - 1) : F2[e] = F[e]
            BY <1>1, <1>2, <1>3 DEF InScope
        <3>2. Covered(F2, n - 1, D2, d, v, F[d].done[v])
            BY <3>1, <2>1, <1>1, JoinCovered
        <3> QED BY <3>2, <1>3
    <2> QED BY <2>1, <1>1, <1>2, SealsOn DEF Fact
<1>6. Takes(E2, F2, m, T2, D2, d)
    <2>1. ASSUME NEW v \in InScope(E, T[d - 1]), Kept(F, n, D, d, v, F[d].wait[v])
          PROVE  Kept(F2, m, D2, d, v, F[d].wait[v])
        <3>1. v \in Var /\ d \in 0..(n - 1) /\ \A e \in 1..(n - 1) : F2[e] = F[e]
            BY <1>1, <1>2, <1>3 DEF InScope
        <3>2. Kept(F2, n - 1, D2, d, v, F[d].wait[v])
            BY <3>1, <2>1, <1>1, JoinKept
        <3> QED BY <3>2, <1>3
    <2>2. F[d].kind = "llam" => E2[T[d] - 1] = E[T[d] - 1]
        <3>1. ASSUME F[d].kind = "llam" PROVE T[d] - 1 \in 1..T[m]
            <4>1. T[d] = T[d - 1] + 2 /\ T[d - 1] \in Nat \ {0}
                BY <3>1, <1>1 DEF Shape, FrameShape, Width
            <4> QED BY <4>1, <1>1
        <3> QED BY <3>1, <1>3
    <2> QED BY <2>1, <2>2, <1>1, <1>2, TakesOn DEF Fact
<1> QED BY <1>3, <1>4, <1>5, <1>6 DEF Fact

\* The types after a join are those of both branches, or declared ones.
LEMMA JoinTypes ==
    ASSUME TypeOK, NEW M, Join(M)
    PROVE  /\ \A v \in Var : VarCK(d2var_type[v], d2var_type'[v])
           /\ top.saits # <<>> =>
                 \A v \in DOMAIN top.lsbis : VarCK(top.saits[1][v], d2var_type'[v])
<1> DEFINE D == d2var_type
           l == top.lsbis
           s == top.saits
<1>1. /\ ctrl # <<>> /\ M \in Merges /\ Agree(M)
      /\ d2var_type' = [v \in Var |-> IF v \in M THEN mastype[v] ELSE D[v]]
    BY DEF Join, In
<1>2. /\ \A v \in M : v \in DOMAIN l
      /\ \A v \in DOMAIN l : D[v] # None /\ v \notin M =>
            \A i \in DOMAIN s : s[i][v] \in {None, D[v]}
    BY <1>1 DEF Merges
<1>3. s \in Seq(Store) /\ D \in Store /\ l \in Lsbis
    BY <1>1, TypeParts, Innermost
<1>4. Len(s) \in Nat /\ DOMAIN s = 1..Len(s)
    BY <1>3, LenProperties
<1>5. /\ Saits \in Seq(Store) /\ Len(Saits) = Len(s) + 1 /\ Saits[1] = D
      /\ \A i \in 1..Len(s) : Saits[i + 1] = s[i]
    BY <1>3, Cons DEF Saits
<1>6. DOMAIN Saits = 1..Len(Saits)
    BY <1>5, LenProperties
<1>7. 1 \in DOMAIN Saits /\ \A i \in 1..Len(s) : i + 1 \in DOMAIN Saits
    BY <1>4, <1>5, <1>6
<1>8. \A v \in DOMAIN l : v \in Var
    BY <1>3 DEF Lsbis
<1>9. \A i \in DOMAIN Saits, v \in DOMAIN l :
         /\ Saits[i][v] = None <=> D[v] = None
         /\ v \in M => VarCK(Saits[i][v], mastype[v])
    BY <1>1 DEF Agree
<1>10. \A v \in Var : d2var_type'[v] = IF v \in M THEN mastype[v] ELSE D[v]
    BY <1>1
<1> HIDE DEF D, l, s
<1>11. ASSUME NEW v \in Var PROVE VarCK(D[v], d2var_type'[v])
    BY <1>2, <1>5, <1>7, <1>9, <1>10 DEF VarCK
<1>12. ASSUME s # <<>>, NEW v \in DOMAIN l PROVE VarCK(s[1][v], d2var_type'[v])
    <2>1. 1 \in 1..Len(s)
        BY <1>3, <1>4, <1>12, EmptySeq
    <2>2. Saits[1 + 1] = s[1] /\ 1 + 1 \in DOMAIN Saits /\ 1 \in DOMAIN s
        BY <2>1, <1>4, <1>5, <1>7
    <2>3. (s[1][v] = None <=> D[v] = None) /\ (v \in M => VarCK(s[1][v], mastype[v]))
        BY <2>2, <1>9
    <2>4. D[v] # None /\ v \notin M => s[1][v] \in {None, D[v]}
        BY <2>2, <1>2
    <2> QED BY <2>3, <2>4, <1>8, <1>10 DEF VarCK
<1> QED BY <1>11, <1>12 DEF D, l, s

\* The branches are joined: the types fit what either of them has left.
LEMMA JoinFits ==
    ASSUME NEW T, NEW T2, Ready(T, T2), NEW M, Join(M)
    PROVE  Fitting(T2)'
<1> DEFINE D == d2var_type
           D2 == d2var_type'
           m == Depth - 1
           R == Around(T, m)
<1>1. /\ TypeOK /\ Shaped(T) /\ ~bad /\ FitsRun(run, D, Now(T)) /\ (Construct \/ Report)
      /\ Fitting(T)
    BY DEF Ready, Fitting
<1>2. /\ ctrl # <<>> /\ top.kind = "branch" /\ Leave /\ UNCHANGED envs
      /\ run' = Either(run, top.done) /\ bad' = bad
    BY DEF Join, In, top
<1>3. Width("branch") = 0
    BY DEF Width
<1>4. Stays(T, T2, m) /\ Depth' = Depth - 1 /\ Now(T2)' = R
    BY <1>2, <1>3, Closing
<1>5. /\ Now(T) = Adds(T, top.kind, R, the_ld2vs) /\ R \subseteq Var
      /\ Fact(Env, Frames, Depth, T, D, Depth)
    BY <1>2, TopFact
<1>6. Now(T) = R
    BY <1>2, <1>5, AddsOf
<1>7. Depth \in Nat \ {0} /\ top = Frames[Depth] /\ Shape(Env, High, Frames, Depth, T)
    BY <1>1, <1>2, Within
<1>8. /\ \A v \in Var : VarCK(D[v], D2[v])
      /\ top.saits # <<>> => \A v \in DOMAIN top.lsbis : VarCK(top.saits[1][v], D2[v])
    BY <1>1, JoinTypes
<1>9. Joined(Frames, Depth, D, D2)
    BY <1>2, <1>7, <1>8 DEF Joined
<1>10. FitsRun(run', D2, R)
    <2>1. FitsRun(run, D2, R)
        <3>1. ASSUME run # Away, NEW v \in R PROVE VarCK(run[v], D2[v])
            <4>1. VarCK(run[v], D[v]) /\ VarCK(D[v], D2[v])
                BY <3>1, <1>1, <1>5, <1>6, <1>8 DEF FitsRun, Fits
            <4> QED BY <4>1, Through
        <3> QED BY <3>1 DEF FitsRun, Fits
    <2>2. FitsRun(top.done, D2, R)
        <3>1. /\ top.saits = <<>> => top.done = Away
              /\ top.saits # <<>> => FitsRun(top.done, First(top, D), R)
            BY <1>2, <1>5, <1>6, <1>7 DEF Fact, Waits, Now
        <3>2. ASSUME top.done # Away, NEW v \in R PROVE VarCK(top.done[v], D2[v])
            <4>1. VarCK(top.done[v], First(top, D)[v])
                BY <3>1, <3>2 DEF FitsRun, Fits
            <4>2. VarCK(First(top, D)[v], D2[v])
                BY <3>1, <3>2, <1>5, <1>8 DEF First
            <4> QED BY <4>1, <4>2, Through
        <3> QED BY <3>2 DEF FitsRun, Fits
    <2> QED BY <2>1, <2>2, <1>2 DEF Either
<1>11. ASSUME NEW d \in 1..(Depth - 1) PROVE Fact(Env', Frames', Depth - 1, T2, D2, d)
    <2>1. Changes(Env, T, Depth, D, D2)
        BY <1>1, StepChanges
    <2>2. Same(Env', Frames', T2, Env, Frames, T, Depth - 1) /\ \A p \in 1..T[Depth - 1] : Env'[p] = Env[p]
        BY <1>4 DEF Stays, Same, Alike
    <2>3. Fact(Env, Frames, Depth, T, D, d) /\ Depth # 0
        BY <1>1, <1>7 DEF Fitting
    <2> HIDE DEF D, D2, m, R
    <2> QED BY <2>1, <2>2, <2>3, <1>7, <1>9, JoinFact
<1> QED BY <1>1, <1>2, <1>4, <1>10, <1>11 DEF Fitting

-----------------------------------------------------------------------------
(* A variable is used.                                                     *)

\* A search leaves the variable on the markers that it comes by.
Passed(E, L, p, v) == \A q \in p..L : v \notin Scope(E, q) /\ E[q].lin # 0

\* A search adds the variable to the markers that it passes, and to no other.
LEMMA Marks ==
    ASSUME TypeOK, NEW v \in Var, the_ld2vs' = the_ld2vs, the_ld2vss' = Marked(v),
           NEW p \in 1..High, Env[p].node = "lam"
    PROVE  Env'[p].d2vs = Env[p].d2vs \cup (IF Passed(Env, High, p, v) THEN {v} ELSE {})
<1> DEFINE N == Len(the_ld2vss)
           ss == the_ld2vss
           ss2 == the_ld2vss'
           i == N + 1 - p
<1>1. the_ld2vs \in SUBSET Var /\ ss \in Seq(Elem) /\ N \in Nat /\ DOMAIN ss = 1..N /\ High = N + 1
    BY TypeParts, LenProperties DEF High
<1>2. ss2 \in Seq(Elem) /\ Len(ss2) = N /\ ss2 = Marked(v)
    BY MarkedTyped
<1>3. /\ Env[N + 1] = LD2VSset(the_ld2vs)
      /\ \A q \in 1..N : Env[q] = ss[N + 1 - q]
      /\ \A j \in 1..N : N + 1 - j \in 1..N /\ ss[j] = Env[N + 1 - j]
    BY <1>1, EnvReads DEF Env
<1>4. p \in 1..N /\ i \in 1..N
    <2>1. p # N + 1
        BY <1>3 DEF LD2VSset
    <2> QED BY <2>1, <1>1
<1>5. Env'[p] = ss2[i]
    <2>1. Env' = EnvOf(the_ld2vs, ss2)
        BY DEF Env
    <2> HIDE DEF ss2
    <2>2. \A q \in 1..Len(ss2) : EnvOf(the_ld2vs, ss2)[q] = ss2[Len(ss2) + 1 - q]
        BY <1>1, <1>2, EnvReads
    <2> QED BY <2>1, <2>2, <1>2, <1>4
<1>6. ss[i] = Env[p] /\ ss[i] \in Elem
    <2>1. ss[i] = Env[p]
        BY <1>3, <1>4
    <2> QED BY <2>1, <1>1, <1>4, ElementOfSeq
<1>7. /\ Sets = {j \in 1..N : ss[j].node = "set"}
      /\ Walk = {j \in 1..N : \A k \in 1..j : ss[k].lin # 0}
    BY <1>1 DEF Sets, Walk
<1>8. Marked(v)[i] = IF /\ i \in Walk \ Sets /\ v \notin the_ld2vs
                        /\ \A j \in Sets : j < i => v \notin ss[j].d2vs
                     THEN [ss[i] EXCEPT !.d2vs = @ \cup {v}] ELSE ss[i]
    BY <1>1, <1>4 DEF Marked
<1> HIDE DEF N, ss, ss2, i
<1>9. i \notin Sets
    BY <1>6, <1>7
<1>10. \A q \in p..High : q = High \/ (N + 1 - q \in 1..i /\ q \in 1..N /\ Env[q] = ss[N + 1 - q])
    BY <1>1, <1>3, <1>4 DEF i
<1>11. \A j \in 1..i : N + 1 - j \in p..High /\ ss[j] = Env[N + 1 - j] /\ j \in 1..N
    BY SMTT(30), <1>1, <1>3, <1>4 DEF i
<1>12. High \in p..High /\ Env[High].lin = 1 /\ Scope(Env, High) = the_ld2vs
    BY <1>1, <1>3, <1>4 DEF Scope, LD2VSset
<1>13. i \in Walk <=> \A q \in p..High : Env[q].lin # 0
    <2>1. (\A q \in p..High : Env[q].lin # 0) => i \in Walk
        BY <1>4, <1>7, <1>11
    <2>2. i \in Walk => \A q \in p..High : Env[q].lin # 0
        BY <1>7, <1>10, <1>12
    <2> QED BY <2>1, <2>2
<1>14. (v \notin the_ld2vs /\ \A j \in Sets : j < i => v \notin ss[j].d2vs)
          <=> \A q \in p..High : v \notin Scope(Env, q)
    <2>1. ASSUME \A q \in p..High : v \notin Scope(Env, q), NEW j \in Sets, j < i PROVE v \notin ss[j].d2vs
        <3>1. j \in 1..i /\ ss[j].node = "set"
            BY <2>1, <1>4, <1>7
        <3>2. v \notin Scope(Env, N + 1 - j) /\ ss[j] = Env[N + 1 - j]
            BY <3>1, <2>1, <1>11
        <3> QED BY <3>1, <3>2 DEF Scope
    <2>2. ASSUME v \notin the_ld2vs, \A j \in Sets : j < i => v \notin ss[j].d2vs, NEW q \in p..High
          PROVE  v \notin Scope(Env, q)
        <3>1. CASE q = High
            BY <3>1, <2>2, <1>12
        <3>2. CASE q # High
            <4>1. N + 1 - q \in 1..i /\ Env[q] = ss[N + 1 - q]
                BY <3>2, <1>10
            <4>2. CASE N + 1 - q \in Sets
                <5>1. N + 1 - q # i
                    BY <4>2, <1>9
                <5>2. N + 1 - q < i
                    BY <4>1, <5>1, <1>4
                <5> QED BY <4>1, <4>2, <5>2, <2>2 DEF Scope
            <4>3. CASE N + 1 - q \notin Sets
                <5>1. N + 1 - q \in 1..N
                    BY <4>1, <1>1, <1>4
                <5> QED BY <4>1, <4>3, <5>1, <1>7 DEF Scope
            <4> QED BY <4>2, <4>3
        <3> QED BY <3>1, <3>2
    <2> QED BY <2>1, <2>2, <1>12
<1>15. ss2[i] = IF Passed(Env, High, p, v) THEN [Env[p] EXCEPT !.d2vs = @ \cup {v}] ELSE Env[p]
    BY <1>2, <1>6, <1>8, <1>9, <1>13, <1>14 DEF Passed
<1> QED BY <1>5, <1>6, <1>15 DEF Elem

\* The marker of a linear function around gets what the function does not
\* bind, and only that.
LEMMA MarksAt ==
    ASSUME NEW E, NEW L, NEW F, NEW n, NEW T, Shape(E, L, F, n, T),
           NEW d \in 1..n, F[d].kind = "llam", NEW v \in LocalAt(E, L)
    PROVE  /\ T[d] - 1 \in 1..L /\ E[T[d] - 1].node = "lam"
           /\ Passed(E, L, T[d] - 1, v) => v \in LocalAt(E, T[d - 1])
           /\ v \in InScope(E, T[d - 1]) => Passed(E, L, T[d] - 1, v)
<1> DEFINE p == T[d] - 1
<1>1. /\ d \in 0..n /\ d - 1 \in 0..n /\ L \in Nat /\ EnvOK(E, L)
      /\ T[d] \in 1..L /\ T[d - 1] \in 1..L
    BY DEF Shape, EnvOK
<1>2. T[d] = T[d - 1] + 2 /\ E[p].node = "lam"
    <2>1. FrameShape(E, F, T, d)
        BY DEF Shape
    <2> QED BY <2>1 DEF FrameShape, Width
<1>3. p = T[d - 1] + 1 /\ p \in 1..L
    BY <1>1, <1>2
<1>4. PICK q \in 1..L : v \in Scope(E, q) /\ \A r \in q..L : E[r].lin # 0
    BY DEF LocalAt
<1> HIDE DEF p
<1>5. ASSUME Passed(E, L, p, v) PROVE v \in LocalAt(E, T[d - 1])
    <2>1. q \notin p..L
        BY <1>4, <1>5 DEF Passed
    <2>2. q \in 1..T[d - 1]
        BY <2>1, <1>1, <1>3
    <2>3. \A r \in q..T[d - 1] : r \in q..L
        BY <1>1
    <2> QED BY <2>2, <2>3, <1>4 DEF LocalAt
<1>6. ASSUME v \in InScope(E, T[d - 1]) PROVE Passed(E, L, p, v)
    <2>1. PICK q2 \in 1..T[d - 1] : v \in Scope(E, q2)
        BY <1>6 DEF InScope
    <2>2. q2 \in 1..L /\ q2 < p
        BY <1>1, <1>3
    <2>3. q2 = q
        BY <2>1, <2>2, <1>1, <1>4 DEF EnvOK
    <2>4. ASSUME NEW r \in p..L PROVE v \notin Scope(E, r) /\ E[r].lin # 0
        <3>1. r \in 1..L /\ r # q /\ r \in q..L
            BY <2>2, <2>3, <1>1, <1>3
        <3> QED BY <3>1, <1>1, <1>4 DEF EnvOK
    <2> QED BY <2>4 DEF Passed
<1> QED BY <1>2, <1>3, <1>5, <1>6 DEF p

\* A variable is used, and has type x after that.
Uses(v, t, x) ==
    /\ TrupVar(v, t) /\ d2var_type' = [d2var_type EXCEPT ![v] = x]
    /\ run' # Away => /\ run # Away /\ VarCK(run'[v], x)
                      /\ \A u \in Var : u # v => run'[u] = run[u]

\* A use changes one variable, for which no try and no function waits.
LEMMA UsesFits ==
    ASSUME NEW T, NEW T2, Ready(T, T2), "try" \in Rules,
           NEW v \in Var, NEW t, NEW x, Uses(v, t, x)
    PROVE  Fitting(T2)'
<1> DEFINE E == Env
           F == Frames
           n == Depth
           D == d2var_type
           E2 == Env'
           D2 == d2var_type'
<1>1. /\ TypeOK /\ Shaped(T) /\ ~bad /\ FitsRun(run, D, Now(T)) /\ (Construct \/ Report)
      /\ Fitting(T) /\ Local \subseteq Now(T) /\ Now(T) \subseteq Var /\ D \in [Var -> Maybe]
    <2>1. (Construct \/ Report) /\ Fitting(T)
        BY DEF Ready
    <2> QED BY <2>1, Before
<1>2. /\ v \in Local /\ VarCK(D[v], t) /\ Sealable(v) /\ the_ld2vss' = Marked(v)
      /\ the_ld2vs' = the_ld2vs /\ ctrl' = ctrl
      /\ bad' = (bad \/ (run # Away /\ ~VarCK(run[v], t)))
    BY DEF Uses, TrupVar, Usable
<1>3. D2[v] = x /\ \A u \in Var : u # v => D2[u] = D[u]
    BY <1>1 DEF Uses
<1>4. /\ n \in Nat /\ n \in 0..n /\ T[n] = High /\ EnvOK(E, High) /\ Shape(E, High, F, n, T)
      /\ Frames' = F /\ Depth' = n /\ High \in Nat /\ High \in 1..High
    BY <1>1, <1>2, Heads DEF Shaped, Frames, Depth
<1>5. /\ High' = High
      /\ \A p \in 1..High :
            /\ E2[p].node = E[p].node /\ E2[p].lin = E[p].lin /\ E[p].d2vs \subseteq E2[p].d2vs
            /\ E[p].node = "set" => E2[p].d2vs = E[p].d2vs
    BY <1>1, <1>2, MarkView
<1>6. Local = LocalAt(E, High)
    BY <1>1, <1>4, Views
<1>7. \A p \in 1..High : E[p].node = "lam" =>
         E2[p].d2vs = E[p].d2vs \cup (IF Passed(E, High, p, v) THEN {v} ELSE {})
    BY <1>1, <1>2, Marks
<1>8. \A d \in 0..n : T2[d] = T[d]
    <2>1. TypeOK /\ Shaped(T) /\ T2 = TopAt(T, Depth', High')
        BY DEF Ready
    <2> QED BY <2>1, <1>4, <1>5, HeightsKept
<1>9. Changes(E, T, n, D, D2)
    BY <1>1, StepChanges
<1>10. \A d \in 1..n : F[d].kind = "tryup" => v \notin DOMAIN F[d].lsbis
    <2>1. ctrl \in Seq(Context)
        BY <1>1, TypeParts
    <2>2. \A d \in 1..Len(ctrl) : Len(ctrl) + 1 - d \in 1..Len(ctrl) /\ Flip(ctrl)[d] = ctrl[Len(ctrl) + 1 - d]
        BY <2>1, LenProperties DEF Flip
    <2>3. DOMAIN ctrl = 1..Len(ctrl)
        BY <2>1, LenProperties
    <2> QED BY <2>2, <2>3, <1>2 DEF Sealable, Frames, Depth
<1>11. \A d \in 1..n : Fact(E, F, n, T, D, d)
    BY <1>1 DEF Fitting
<1>12. Now(T) = Reach(E, F, T, n) /\ Now(T2)' = Reach(E2, F, T2, n)
    BY <1>4 DEF Now
<1> HIDE DEF E, F, n, D, E2, D2
<1>13. Same(E2, F, T2, E, F, T, n)
    BY <1>4, <1>5, <1>8 DEF Same, Alike
<1>14. Now(T2)' = Now(T)
    BY <1>4, <1>12, <1>13, ReachSame
<1>15. ~bad'
    <2>1. ASSUME run # Away PROVE VarCK(run[v], t)
        <3>1. VarCK(run[v], D[v])
            BY <2>1, <1>1, <1>2 DEF FitsRun, Fits
        <3> QED BY <3>1, <1>2, Through
    <2> QED BY <2>1, <1>1, <1>2
<1>16. FitsRun(run', D2, Now(T2)')
    <2>1. ASSUME run' # Away, NEW u \in Now(T) PROVE VarCK(run'[u], D2[u])
        BY <2>1, <1>1, <1>3 DEF Uses, FitsRun, Fits
    <2> QED BY <2>1, <1>14 DEF FitsRun, Fits
<1>17. ASSUME NEW d \in 1..n PROVE Fact(E2, F, n, T2, D2, d)
    <2>1. /\ d \in 0..n /\ d - 1 \in 0..n /\ T[d] \in 1..High /\ T[d - 1] \in 1..High
          /\ T[d] <= High /\ T[d - 1] <= High
        BY <1>4 DEF Shape
    <2>2. Waits(E2, F, T2, D2, d)
        BY <1>4, <1>9, <1>11, <1>13, WaitsOn DEF Fact
    <2>3. Seals(E2, F, n, T2, D2, d)
        <3>1. ASSUME F[d].kind = "tryup", NEW u \in InScope(E, T[d]), Covered(F, n, D, d, u, F[d].done[u])
              PROVE  Covered(F, n, D2, d, u, F[d].done[u])
            <4>1. DOMAIN F[d].lsbis = LocalAt(E, T[d])
                BY <3>1, <1>4 DEF Shape, FrameShape, Saves
            <4>2. u # v
                BY <3>1, <4>1, <2>1, <1>2, <1>4, <1>6, <1>10, LocalDown
            <4>3. D2[u] = D[u]
                BY <4>2, <1>3 DEF InScope
            <4> QED BY <4>3, <3>1 DEF Covered
        <3> QED BY <3>1, <1>4, <1>11, <1>13, SealsOn DEF Fact
    <2>4. Takes(E2, F, n, T2, D2, d)
        <3>1. ASSUME F[d].kind = "llam"
              PROVE  /\ E[T[d] - 1].d2vs \subseteq E2[T[d] - 1].d2vs
                     /\ \A u \in E2[T[d] - 1].d2vs :
                           u \in E[T[d] - 1].d2vs \/ u \in LocalAt(E, T[d - 1])
                     /\ \A u \in InScope(E, T[d - 1]) :
                           /\ u \notin E2[T[d] - 1].d2vs /\ Kept(F, n, D, d, u, F[d].wait[u])
                           => Kept(F, n, D2, d, u, F[d].wait[u])
            <4>1. /\ T[d] - 1 \in 1..High /\ E[T[d] - 1].node = "lam"
                  /\ Passed(E, High, T[d] - 1, v) => v \in LocalAt(E, T[d - 1])
                  /\ v \in InScope(E, T[d - 1]) => Passed(E, High, T[d] - 1, v)
                BY <3>1, <1>2, <1>4, <1>6, MarksAt
            <4>2. E2[T[d] - 1].d2vs = E[T[d] - 1].d2vs \cup (IF Passed(E, High, T[d] - 1, v) THEN {v} ELSE {})
                BY <4>1, <1>7
            <4>3. ASSUME NEW u \in InScope(E, T[d - 1]), u \notin E2[T[d] - 1].d2vs,
                         Kept(F, n, D, d, u, F[d].wait[u])
                  PROVE  Kept(F, n, D2, d, u, F[d].wait[u])
                <5>1. u # v
                    BY <4>1, <4>2, <4>3
                <5>2. D2[u] = D[u]
                    BY <5>1, <1>3 DEF InScope
                <5> QED BY <5>2, <4>3 DEF Kept
            <4> QED BY <4>1, <4>2, <4>3
        <3> QED BY <3>1, <1>4, <1>11, <1>13, TakesOn DEF Fact
    <2> QED BY <2>2, <2>3, <2>4 DEF Fact
<1> QED BY <1>4, <1>15, <1>16, <1>17 DEF Fitting, E2, D2, n, F

\* A variable is given away.
LEMMA UseFits ==
    ASSUME NEW T, NEW T2, Ready(T, T2), "try" \in Rules, NEW v \in Var, NEW t \in Type, Use(v, t)
    PROVE  Fitting(T2)'
<1>1. run # Away => run \in [Var -> Maybe]
    BY Before
<1>2. TrupVar(v, t) /\ d2var_type' = [d2var_type EXCEPT ![v] = None] /\ run' = Without(run, {v})
    BY DEF Use
<1>3. ASSUME run' # Away
      PROVE  /\ run # Away /\ VarCK(run'[v], None)
             /\ \A u \in Var : u # v => run'[u] = run[u]
    BY <1>1, <1>2, <1>3 DEF Without, VarCK
<1>4. Uses(v, t, None)
    BY <1>2, <1>3 DEF Uses
<1> QED BY <1>4, UsesFits

\* A variable is lent and comes back, perhaps with another type.
LEMMA BorrowFits ==
    ASSUME NEW T, NEW T2, Ready(T, T2), "try" \in Rules,
           NEW v \in Var, NEW t \in Type, NEW t2 \in Type, Borrow(v, t, t2)
    PROVE  Fitting(T2)'
<1>1. run # Away => run \in [Var -> Maybe]
    BY Before
<1>2. TrupVar(v, t) /\ d2var_type' = [d2var_type EXCEPT ![v] = t2] /\ Given(run, v, t2)
    BY DEF Borrow
<1>3. run' # Away => /\ run # Away /\ VarCK(run'[v], t2)
                     /\ \A u \in Var : u # v => run'[u] = run[u]
    BY <1>1, <1>2, GivenFits
<1>4. Uses(v, t, t2)
    BY <1>2, <1>3 DEF Uses
<1> QED BY <1>4, UsesFits

-----------------------------------------------------------------------------
(* The execution leaves: an exception, a $break.                           *)

\* One construct, h, keeps the store of an execution.
Stored(F2, F, n, h, x) ==
    /\ h \in 1..n /\ F[h] \in Context /\ F[h].kind \notin {"branch", "llam"}
    /\ \A d \in 1..n : F2[d] = IF d = h THEN [F[d] EXCEPT !.done = x] ELSE F[d]

\* What constructs expect when one of them keeps a store that fits.
LEMMA StoredFacts ==
    ASSUME NEW E, NEW F, NEW n \in Nat, NEW T, NEW T2, \A d \in 0..n : T2[d] = T[d],
           NEW F2, NEW h, NEW x, Stored(F2, F, n, h, x), NEW D, NEW d \in 1..n,
           Fact(E, F, n, T, D, d),
           d = h => /\ F[h].kind = "trydn" => FitsRun(x, D, Reach(E, F, T, h - 1))
                    /\ F[h].kind = "tryup" => FitsRun(x, D, Reach(E, F, T, h))
                    /\ F[h].kind \in {"test", "loop"} => FitsRun(x, Base(F[h], D), Reach(E, F, T, h))
    PROVE  Fact(E, F2, n, T2, D, d)
<1>1. ASSUME NEW c \in 1..n
      PROVE  /\ F2[c].kind = F[c].kind /\ F2[c].lsbis = F[c].lsbis /\ F2[c].saits = F[c].saits
             /\ F2[c].wait = F[c].wait /\ (c = h => F2[c].done = x) /\ (c # h => F2[c] = F[c])
    <2>1. CASE c = h
        <3>1. F2[c] = [F[c] EXCEPT !.done = x] /\ F[c] \in Context
            BY <2>1 DEF Stored
        <3> QED BY <2>1, <3>1 DEF Context
    <2>2. CASE c # h
        BY <2>2 DEF Stored
    <2> QED BY <2>1, <2>2
<1>2. ASSUME NEW c \in 0..n PROVE Reach(E, F2, T2, c) = Reach(E, F, T, c)
    <2>1. \A b \in 1..c : b \in 1..n /\ b - 1 \in 0..n
        OBVIOUS
    <2>2. T2[c] = T[c] /\ \A b \in 1..c : F2[b].kind = F[b].kind /\ T2[b - 1] = T[b - 1]
        BY <2>1, <1>1
    <2> QED BY <2>2 DEF Reach
<1>3. d \in 0..n /\ d - 1 \in 0..n /\ T2[d] = T[d] /\ T2[d - 1] = T[d - 1]
    OBVIOUS
<1>4. \A c \in (d + 1)..n : c \in 1..n
    OBVIOUS
<1>5. \A e \in (d + 1)..n : F[e].kind = "branch" => F2[e] = F[e]
    BY <1>1, <1>4 DEF Stored
<1>6. \A v, y : Covered(F, n, D, d, v, y) => Covered(F2, n, D, d, v, y)
    BY <1>1, <1>4, <1>5 DEF Covered
<1>7. \A v, y : Kept(F, n, D, d, v, y) => Kept(F2, n, D, d, v, y)
    BY <1>1, <1>4 DEF Kept
<1>8. CASE d # h
    <2>1. F2[d] = F[d]
        BY <1>1, <1>8
    <2>2. Waits(E, F2, T2, D, d)
        BY <2>1, <1>2, <1>3 DEF Fact, Waits
    <2>3. Seals(E, F2, n, T2, D, d)
        BY <2>1, <1>2, <1>3, <1>6 DEF Fact, Seals
    <2>4. Takes(E, F2, n, T2, D, d)
        BY <2>1, <1>2, <1>3, <1>7 DEF Fact, Takes
    <2> QED BY <2>2, <2>3, <2>4 DEF Fact
<1>9. CASE d = h
    <2>1. /\ F2[d].kind = F[d].kind /\ F2[d].lsbis = F[d].lsbis /\ F2[d].wait = F[d].wait
          /\ F2[d].done = x /\ F[d].kind \notin {"branch", "llam"}
        BY <1>1, <1>9 DEF Stored
    <2>2. Base(F2[d], D) = Base(F[d], D)
        BY <2>1 DEF Base
    <2>3. Waits(E, F2, T2, D, d)
        BY <2>1, <2>2, <1>2, <1>3, <1>9 DEF Fact, Waits
    <2>4. Seals(E, F2, n, T2, D, d)
        <3>1. ASSUME F[d].kind = "tryup", x # Away, NEW v \in Reach(E, F, T, d)
              PROVE  Covered(F2, n, D, d, v, x[v])
            <4>1. FitsRun(x, D, Reach(E, F, T, d))
                BY <3>1, <1>9
            <4>2. VarCK(x[v], D[v])
                BY <4>1, <3>1 DEF FitsRun, Fits
            <4> QED BY <4>2 DEF Covered
        <3> QED BY <3>1, <2>1, <1>2, <1>3 DEF Seals
    <2>5. Takes(E, F2, n, T2, D, d)
        BY <2>1 DEF Takes
    <2> QED BY <2>3, <2>4, <2>5 DEF Fact
<1> QED BY <1>8, <1>9

\* An execution that leaves may do so if it fits where it goes on.
LEMMA StoreFits ==
    ASSUME NEW T, NEW T2, Ready(T, T2), UNCHANGED <<envs, d2var_type>>, Depth' = Depth,
           NEW h, NEW x, Stored(Frames', Frames, Depth, h, x), run' = Away, ~bad',
           Frames[h].kind = "trydn" => FitsRun(x, d2var_type, Around(T, h - 1)),
           Frames[h].kind = "tryup" => FitsRun(x, d2var_type, Around(T, h)),
           Frames[h].kind \in {"test", "loop"} =>
              FitsRun(x, Base(Frames[h], d2var_type), Around(T, h))
    PROVE  Fitting(T2)'
<1>1. TypeOK /\ Shaped(T) /\ Fitting(T) /\ T2 = TopAt(T, Depth', High')
    BY DEF Ready
<1>2. Env' = Env /\ High' = High /\ d2var_type' = d2var_type
    BY DEF Env, High, envs
<1>3. Depth \in Nat /\ T[Depth] = High /\ Depth \in 0..Depth
    BY <1>1, Heads
<1>4. \A d \in 0..Depth : T2[d] = T[d]
    BY <1>1, <1>2, <1>3, HeightsKept
<1>5. ASSUME NEW d \in 1..Depth PROVE Fact(Env, Frames', Depth, T2, d2var_type, d)
    <2>1. Fact(Env, Frames, Depth, T, d2var_type, d)
        BY <1>1 DEF Fitting
    <2> QED BY <2>1, <1>3, <1>4, StoredFacts DEF Around
<1>6. FitsRun(run', d2var_type', Now(T2)')
    BY DEF FitsRun
<1> QED BY <1>2, <1>5, <1>6 DEF Fitting

\* The frame that a $break or an exception finds.
LEMMA Found ==
    ASSUME TypeOK, NEW K, Nearest(K) # 0, NEW h, h = Depth + 1 - Nearest(K)
    PROVE  /\ h \in 1..Depth /\ Depth \in Nat /\ Frames[h] = ctrl[Nearest(K)] /\ Frames[h] \in Context
           /\ Frames[h].kind \in K
           /\ \A c \in h..Depth : Frames[c].kind \notin {"lam", "llam"}
           /\ \A c \in (h + 1)..Depth : Frames[c].kind \notin K
           /\ Nearest(K) \in 1..Len(ctrl)
<1> DEFINE k == Nearest(K)
<1>1. ctrl \in Seq(Context) /\ DOMAIN ctrl = 1..Len(ctrl) /\ Len(ctrl) \in Nat
    BY TypeParts, LenProperties
<1>2. /\ k \in 1..Len(ctrl) /\ ctrl[k].kind \in K
      /\ \A j \in 1..k : ctrl[j].kind \notin {"lam", "llam"}
      /\ \A i \in 1..Len(ctrl) :
            ctrl[i].kind \in K /\ (\A j \in 1..i : ctrl[j].kind \notin {"lam", "llam"}) => k <= i
    BY <1>1, NearestFacts
<1> HIDE DEF k
<1>3. /\ \A d \in 1..Depth : Frames[d] \in Context /\ Frames[d] = ctrl[Depth + 1 - d]
      /\ \A i \in 1..Depth : Depth + 1 - i \in 1..Depth /\ ctrl[i] = Frames[Depth + 1 - i]
    BY <1>1, FlipReads DEF Frames, Depth
<1>4. h \in 1..Depth /\ Depth \in Nat /\ Frames[h] = ctrl[k]
    BY <1>1, <1>2, <1>3 DEF Depth, k
<1>5. ASSUME NEW c \in h..Depth PROVE Frames[c].kind \notin {"lam", "llam"}
    <2>1. c \in 1..Depth /\ Depth + 1 - c \in 1..k
        BY <1>2, <1>4 DEF Depth, k
    <2> QED BY <2>1, <1>2, <1>3
<1>6. ASSUME NEW c \in (h + 1)..Depth PROVE Frames[c].kind \notin K
    <2>1. c \in 1..Depth /\ Depth + 1 - c \in 1..Len(ctrl) /\ Depth + 1 - c \in 1..k
          /\ ~(k <= Depth + 1 - c)
        BY <1>2, <1>4 DEF Depth, k
    <2>2. \A j \in 1..(Depth + 1 - c) : j \in 1..k
        BY <2>1, <1>2, <1>4
    <2>3. ctrl[Depth + 1 - c].kind \notin K
        BY <2>1, <2>2, <1>2
    <2> QED BY <2>1, <2>3, <1>3
<1> QED BY <1>2, <1>3, <1>4, <1>5, <1>6 DEF k

\* It keeps the store.
LEMMA FoundStored ==
    ASSUME TypeOK, NEW K, Nearest(K) # 0, K \subseteq {"trydn", "tryup", "loop"},
           NEW x, PutDone(ctrl', ctrl, Nearest(K), x), NEW h, h = Depth + 1 - Nearest(K)
    PROVE  Stored(Frames', Frames, Depth, h, x) /\ Depth' = Depth
<1>1. ctrl \in Seq(Context)
    BY TypeParts
<1>2. /\ Len(ctrl') = Len(ctrl)
      /\ \A d \in 1..Len(ctrl) :
            Flip(ctrl')[d] = IF d = Len(ctrl) + 1 - Nearest(K) /\ Nearest(K) \in 1..Len(ctrl)
                             THEN [Flip(ctrl)[d] EXCEPT !.done = x] ELSE Flip(ctrl)[d]
    BY <1>1, DoneTyped
<1>3. /\ h \in 1..Depth /\ Frames[h] \in Context /\ Frames[h].kind \in K
      /\ Nearest(K) \in 1..Len(ctrl)
    BY Found
<1> QED BY <1>2, <1>3 DEF Stored, Frames, Depth

\* What it has within reach is within reach of what is in it.
LEMMA FoundReach ==
    ASSUME TypeOK, NEW T, Shaped(T), NEW K, Nearest(K) # 0, NEW h, h = Depth + 1 - Nearest(K)
    PROVE  Around(T, h) \subseteq Now(T) /\ Around(T, h - 1) \subseteq Now(T)
<1>1. /\ h \in 1..Depth /\ Depth \in Nat
      /\ \A c \in h..Depth : Frames[c].kind \notin {"lam", "llam"}
    BY Found
<1>2. /\ Shape(Env, High, Frames, Depth, T) /\ h \in 0..Depth /\ h - 1 \in 0..Depth
      /\ Depth \in 0..Depth /\ h <= Depth /\ h - 1 <= Depth
    BY <1>1 DEF Shaped
<1>3. /\ \A c \in (h + 1)..Depth : Frames[c].kind # "lam"
      /\ \A c \in ((h - 1) + 1)..Depth : Frames[c].kind # "lam"
    BY <1>1
<1>4. Reach(Env, Frames, T, h) \subseteq Reach(Env, Frames, T, Depth)
    BY <1>2, <1>3, ReachGrows
<1>5. Reach(Env, Frames, T, h - 1) \subseteq Reach(Env, Frames, T, Depth)
    BY <1>2, <1>3, ReachGrows
<1> QED BY <1>4, <1>5 DEF Around, Now

\* An exception: what the try has within reach is within reach here.
LEMMA RaiseFits ==
    ASSUME NEW T, NEW T2, Ready(T, T2), Raise
    PROVE  Fitting(T2)'
<1> DEFINE K == {"trydn", "tryup"}
           h == Depth + 1 - Nearest(K)
<1>1. TypeOK /\ Shaped(T) /\ ~bad /\ FitsRun(run, d2var_type, Now(T))
    BY Before
<1>2. /\ Nearest(K) # 0 /\ UNCHANGED <<envs, d2var_type>> /\ run' = Away /\ ~bad'
      /\ PutDone(ctrl', ctrl, Nearest(K), run)
    BY <1>1, RaisePuts DEF Raise, dvars
<1>3. Stored(Frames', Frames, Depth, h, run) /\ Depth' = Depth
    BY <1>1, <1>2, FoundStored
<1>4. Around(T, h) \subseteq Now(T) /\ Around(T, h - 1) \subseteq Now(T) /\ Frames[h].kind \in K
    BY <1>1, <1>2, Found, FoundReach
<1> HIDE DEF h
<1>5. FitsRun(run, d2var_type, Around(T, h)) /\ FitsRun(run, d2var_type, Around(T, h - 1))
    BY <1>1, <1>4 DEF FitsRun, Fits
<1> QED BY <1>2, <1>3, <1>4, <1>5, StoreFits

-----------------------------------------------------------------------------
(* The list of functions and loops has an entry for each of them, and the  *)
(* one that a $break finds is that of the loop which it leaves.            *)

\* An entry e of the_lamlplst for a construct f; all constructs have theirs.
Matches(f, e) ==
    /\ f.kind \in {"lam", "llam"} => e.kind = "lam"
    /\ f.kind = "loop" => e.kind = "loop1" /\ e.lsbis = f.lsbis
InList(P, F, n) == \A d \in 1..n : F[d].kind \in Listed => Matches(F[d], P[Count(F, d)])
Synced == InList(Flip(the_lamlplst), Frames, Depth)

\* A step keeps the entries of the constructs that it keeps.
LEMMA InListNext ==
    ASSUME NEW P, NEW F, NEW n \in Nat, InList(P, F, n), NEW m \in 0..n,
           NEW P2, NEW F2, NEW n2, n2 \in {m, m + 1}, SameFrames(F2, F, m),
           \A i \in 1..Count(F, m) : P2[i] = P[i],
           n2 = m + 1 /\ F2[m + 1].kind \in Listed => Matches(F2[m + 1], P2[Count(F, m) + 1])
    PROVE  InList(P2, F2, n2)
<1>1. m \in Nat /\ \A d \in 1..m : F2[d].kind = F[d].kind /\ F2[d].lsbis = F[d].lsbis
    BY DEF SameFrames
<1>2. \A d \in 0..m : Count(F2, d) = Count(F, d)
    <2> SUFFICES ASSUME NEW d \in 0..m PROVE Count(F2, d) = Count(F, d)
        OBVIOUS
    <2>1. d \in Nat /\ \A e \in 1..d : F2[e].kind \in Listed <=> F[e].kind \in Listed
        BY <1>1
    <2> QED BY <2>1, CountSame
<1>3. ASSUME NEW d \in 1..m, F2[d].kind \in Listed PROVE Matches(F2[d], P2[Count(F2, d)])
    <2>1. d \in 0..m /\ d - 1 \in Nat /\ (d - 1) + 1 = d /\ F[d].kind \in Listed /\ d \in 1..n
        BY <1>1, <1>3
    <2>2. Count(F, d) <= Count(F, m) /\ Count(F, m) \in Nat
        BY <2>1, <1>1, CountGrows, CountFacts
    <2>3. Count(F, d) = Count(F, d - 1) + 1 /\ Count(F, d - 1) \in Nat
        <3>1. Count(F, (d - 1) + 1) = Count(F, d - 1) + 1
            BY <2>1, CountNext
        <3> QED BY <3>1, <2>1, CountFacts
    <2>4. P2[Count(F, d)] = P[Count(F, d)]
        BY <2>2, <2>3
    <2>5. Matches(F[d], P[Count(F, d)])
        BY <2>1 DEF InList
    <2>6. Matches(F2[d], P[Count(F, d)])
        BY <2>5, <1>1 DEF Matches
    <2> QED BY <2>1, <2>4, <2>6, <1>2
<1>4. ASSUME n2 = m + 1, F2[m + 1].kind \in Listed
      PROVE  Matches(F2[m + 1], P2[Count(F2, m + 1)])
    <2>1. Count(F2, m + 1) = Count(F2, m) + 1
        BY <1>1, <1>4, CountNext
    <2>2. Count(F2, m) = Count(F, m)
        BY <1>1, <1>2
    <2> QED BY <2>1, <2>2, <1>4
<1>5. \A d \in 1..n2 : d \in 1..m \/ (d = m + 1 /\ n2 = m + 1)
    BY <1>1
<1> QED BY <1>3, <1>4, <1>5 DEF InList

\* The sizes of the two stacks, and the count without the innermost construct.
LEMMA CtrlFacts ==
    ASSUME TypeOK
    PROVE  /\ Depth \in Nat /\ the_lamlplst \in Seq(Entry) /\ Len(the_lamlplst) \in Nat
           /\ Len(the_lamlplst) = Count(Frames, Depth)
           /\ ctrl # <<>> => /\ Depth \in Nat \ {0} /\ Depth - 1 \in Nat /\ (Depth - 1) + 1 = Depth
                             /\ top = Frames[Depth] /\ top \in Context
                             /\ Count(Frames, Depth) =
                                  IF top.kind \in Listed THEN Count(Frames, Depth - 1) + 1
                                  ELSE Count(Frames, Depth - 1)
                             /\ Count(Frames, Depth - 1) \in Nat
<1>1. Depth \in Nat /\ the_lamlplst \in Seq(Entry) /\ Len(the_lamlplst) \in Nat
      /\ Len(the_lamlplst) = Count(Frames, Depth)
    BY TypeParts, LenProperties DEF Depth, Frames
<1>2. ASSUME ctrl # <<>>
      PROVE  /\ Depth \in Nat \ {0} /\ Depth - 1 \in Nat /\ (Depth - 1) + 1 = Depth
             /\ top = Frames[Depth] /\ top \in Context
    BY <1>1, <1>2, FrameViews, Innermost
<1>3. ASSUME ctrl # <<>>
      PROVE  Count(Frames, (Depth - 1) + 1) =
                 IF Frames[(Depth - 1) + 1].kind \in Listed THEN Count(Frames, Depth - 1) + 1
                 ELSE Count(Frames, Depth - 1)
    BY <1>2, <1>3, CountNext
<1>4. ctrl # <<>> => Count(Frames, Depth - 1) \in Nat
    BY <1>2, CountFacts
<1> QED BY <1>1, <1>2, <1>3, <1>4

\* No entry is made.
LEMMA SyncStay ==
    ASSUME TypeOK, Synced, the_lamlplst' = the_lamlplst,
           NEW m \in 0..Depth, Depth' \in {m, m + 1}, SameFrames(Frames', Frames, m),
           Depth' = m + 1 => Frames'[m + 1].kind \notin Listed
    PROVE  Synced'
<1>1. Depth \in Nat
    BY CtrlFacts
<1>2. Flip(the_lamlplst)' = Flip(the_lamlplst)
    OBVIOUS
<1> QED BY <1>1, <1>2, InListNext DEF Synced

\* An entry is made.
LEMMA SyncPush ==
    ASSUME TypeOK, Synced, NEW e \in Entry, the_lamlplst' = <<e>> \o the_lamlplst,
           NEW m \in 0..Depth, Depth' = m + 1, SameFrames(Frames', Frames, m),
           Count(Frames, m) = Len(the_lamlplst), Matches(Frames'[m + 1], e)
    PROVE  Synced'
<1>1. Depth \in Nat /\ the_lamlplst \in Seq(Entry)
    BY CtrlFacts
<1>2. /\ \A i \in 1..Len(the_lamlplst) : Flip(<<e>> \o the_lamlplst)[i] = Flip(the_lamlplst)[i]
      /\ Flip(<<e>> \o the_lamlplst)[Len(the_lamlplst) + 1] = e
    BY <1>1, FlipCons
<1>3. Flip(the_lamlplst)' = Flip(<<e>> \o the_lamlplst)
    OBVIOUS
<1> QED BY <1>1, <1>2, <1>3, InListNext DEF Synced

\* An entry is taken away.
LEMMA SyncPop ==
    ASSUME TypeOK, Synced, ctrl # <<>>, top.kind \in Listed, Leave,
           the_lamlplst' = Tail(the_lamlplst)
    PROVE  Synced'
<1>1. /\ Depth \in Nat /\ Depth - 1 \in 0..Depth /\ the_lamlplst \in Seq(Entry)
      /\ Len(the_lamlplst) = Count(Frames, Depth - 1) + 1 /\ Count(Frames, Depth - 1) \in Nat
    BY CtrlFacts
<1>2. the_lamlplst # <<>>
    BY <1>1, EmptySeq
<1>3. \A i \in 1..(Len(the_lamlplst) - 1) : Flip(Tail(the_lamlplst))[i] = Flip(the_lamlplst)[i]
    BY <1>1, <1>2, FlipTail
<1>4. Flip(the_lamlplst)' = Flip(Tail(the_lamlplst))
    OBVIOUS
<1>5. Depth' = Depth - 1 /\ SameFrames(Frames', Frames, Depth - 1)
    BY FrameViews DEF SameFrames
<1>6. \A i \in 1..Count(Frames, Depth - 1) : Flip(the_lamlplst)'[i] = Flip(the_lamlplst)[i]
    BY <1>1, <1>3, <1>4
<1>7. ~(Depth' = (Depth - 1) + 1)
    BY <1>1, <1>5
<1> QED BY <1>1, <1>5, <1>6, <1>7, InListNext DEF Synced

\* Every construct keeps the entries.
LEMMA SyncNext ==
    ASSUME TypeOK, Synced, Construct \/ Report \/ UNCHANGED vars
    PROVE  Synced'
<1>1. Depth \in Nat /\ Depth \in 0..Depth /\ Len(the_lamlplst) = Count(Frames, Depth)
    BY CtrlFacts
<1>2. ASSUME NEW f, ctrl' = <<f>> \o ctrl
      PROVE  Depth' = Depth + 1 /\ Frames'[Depth + 1] = f /\ SameFrames(Frames', Frames, Depth)
    BY <1>2, FrameViews DEF SameFrames
<1>3. ASSUME ctrl' = ctrl PROVE Depth' = Depth /\ SameFrames(Frames', Frames, Depth)
    BY <1>3 DEF Depth, Frames, SameFrames
<1>4. ASSUME ctrl' = ctrl, the_lamlplst' = the_lamlplst PROVE Synced'
    <2>1. Depth' # Depth + 1
        BY <1>1, <1>3, <1>4
    <2> QED BY <2>1, <1>1, <1>3, <1>4, SyncStay
<1>5. ASSUME NEW f, ctrl' = <<f>> \o ctrl, f.kind \notin Listed, the_lamlplst' = the_lamlplst
      PROVE  Synced'
    BY <1>1, <1>2, <1>5, SyncStay
<1>6. ASSUME NEW f, ctrl # <<>>, Become(f), f.kind \notin Listed, the_lamlplst' = the_lamlplst
      PROVE  Synced'
    <2>1. Depth - 1 \in 0..Depth /\ (Depth - 1) + 1 = Depth
        BY <1>6, CtrlFacts
    <2>2. Depth' = Depth /\ Frames'[Depth] = f /\ SameFrames(Frames', Frames, Depth - 1)
        BY <1>6, FrameViews DEF SameFrames
    <2> QED BY <2>1, <2>2, <1>6, SyncStay
<1>7. ASSUME ctrl # <<>>, Leave, the_lamlplst' = the_lamlplst PROVE Synced'
    <2>1. Depth - 1 \in 0..Depth /\ (Depth - 1) + 1 = Depth
        BY <1>7, CtrlFacts
    <2>2. Depth' = Depth - 1 /\ SameFrames(Frames', Frames, Depth - 1)
        BY <1>7, FrameViews DEF SameFrames
    <2>3. Depth' # (Depth - 1) + 1
        BY <2>1, <2>2
    <2> QED BY <2>1, <2>2, <2>3, <1>7, SyncStay
<1>8. ASSUME NEW kind \in {"lam", "llam"}, NEW wait,
             ctrl' = <<Frame(kind, Gone, wait, Away)>> \o ctrl,
             the_lamlplst' = <<[kind |-> "lam", lsbis |-> Gone]>> \o the_lamlplst
      PROVE  Synced'
    <2> DEFINE f == Frame(kind, Gone, wait, Away)
               e == [kind |-> "lam", lsbis |-> Gone]
    <2>1. f.kind = kind
        BY DEF Frame
    <2>2. e \in Entry
        BY Stores DEF Entry
    <2>3. Matches(f, e)
        BY <2>1, <1>8 DEF Matches
    <2> HIDE DEF f, e
    <2>4. Depth' = Depth + 1 /\ Frames'[Depth + 1] = f /\ SameFrames(Frames', Frames, Depth)
        BY <1>8, <1>2 DEF f
    <2> QED BY <2>2, <2>3, <2>4, <1>1, <1>8, SyncPush DEF e
<1>9. CASE Lam \/ LLam \/ \E v, t, fin : LamArg(v, t, fin)
    <2>1. /\ \E kind \in {"lam", "llam"} : ctrl' = <<Frame(kind, Gone, run, Away)>> \o ctrl
          /\ the_lamlplst' = <<[kind |-> "lam", lsbis |-> Gone]>> \o the_lamlplst
        BY <1>9 DEF Lam, LLam, LamArg, lampush, Enter
    <2> QED BY <2>1, <1>8
<1>10. ASSUME NEW kind, kind \notin Listed, NEW lsbis, NEW wait, NEW done,
              Enter(kind, lsbis, wait, done), the_lamlplst' = the_lamlplst
       PROVE  Synced'
    <2>1. Frame(kind, lsbis, wait, done).kind = kind
        BY DEF Frame
    <2> QED BY <2>1, <1>5, <1>10 DEF Enter
<1>11. CASE Let \/ TryDn \/ TryUp \/ Branch \/ \E R : Loop(R)
    <2>1. "let" \notin Listed /\ "trydn" \notin Listed /\ "tryup" \notin Listed
          /\ "branch" \notin Listed /\ "test" \notin Listed
        BY DEF Listed
    <2>2. the_lamlplst' = the_lamlplst
        BY <1>11 DEF Let, TryDn, TryUp, Branch, Loop, envs
    <2> QED BY <2>1, <2>2, <1>10, <1>11 DEF Let, TryDn, TryUp, Branch, Loop
<1>12. CASE LetEnd \/ TryEnd \/ \E M : Join(M)
    <2>1. ctrl # <<>> /\ Leave /\ the_lamlplst' = the_lamlplst
        BY <1>12 DEF LetEnd, ScopeEnd, TryEnd, Join, In
    <2> QED BY <2>1, <1>7
<1>13. CASE LamEnd \/ LLamEnd \/ LoopEnd
    <2>1. ctrl # <<>> /\ Leave /\ the_lamlplst' = Tail(the_lamlplst) /\ top.kind \in Listed
        BY <1>13 DEF LamEnd, ScopeEnd, LLamEnd, LoopEnd, In, Listed, top
    <2> QED BY <2>1, SyncPop
<1>14. CASE NextBranch
    <2> DEFINE f == [top EXCEPT !.saits = <<d2var_type>>, !.wait = Away, !.done = run]
    <2>1. ctrl # <<>> /\ Become(f) /\ the_lamlplst' = the_lamlplst /\ top.kind = "branch"
        BY <1>14 DEF NextBranch, In, top
    <2>2. f.kind \notin Listed
        BY <2>1, CtrlFacts DEF Context, Listed
    <2> HIDE DEF f
    <2> QED BY <2>1, <2>2, <1>6
<1>15. CASE WithDn \/ WithUp
    <2> DEFINE f == [top EXCEPT !.kind = "with", !.wait = run, !.done = Away]
    <2>1. ctrl # <<>> /\ Become(f) /\ the_lamlplst' = the_lamlplst
        BY <1>15 DEF WithDn, WithUp, Handler, In
    <2>2. f.kind \notin Listed
        BY <2>1, CtrlFacts DEF Context, Listed
    <2> HIDE DEF f
    <2> QED BY <2>1, <2>2, <1>6
<1>16. CASE LoopTest
    <2>1. /\ ctrl # <<>> /\ top.kind = "test"
          /\ the_lamlplst' = <<[kind |-> "loop1", lsbis |-> top.lsbis]>> \o the_lamlplst
          /\ \E f : /\ f \in {[top EXCEPT !.kind = "loop", !.done = run], [top EXCEPT !.kind = "loop"]}
                    /\ Become(f)
        BY <1>16 DEF LoopTest, In, top
    <2>2. PICK f : /\ f \in {[top EXCEPT !.kind = "loop", !.done = run], [top EXCEPT !.kind = "loop"]}
                   /\ Become(f)
        BY <2>1
    <2>3. top \in Context /\ top.kind \notin Listed
        BY <2>1, CtrlFacts DEF Listed
    <2>4. f.kind = "loop" /\ f.lsbis = top.lsbis
        BY <2>2, <2>3 DEF Context
    <2> DEFINE e == [kind |-> "loop1", lsbis |-> top.lsbis]
    <2>5. e \in Entry /\ Matches(f, e)
        BY <2>3, <2>4 DEF Context, Entry, Matches
    <2>6. the_lamlplst' = <<e>> \o the_lamlplst
        BY <2>1
    <2> HIDE DEF e
    <2>7. /\ Depth - 1 \in 0..Depth /\ (Depth - 1) + 1 = Depth
          /\ Count(Frames, Depth - 1) = Len(the_lamlplst)
        BY <2>1, <2>3, CtrlFacts
    <2>8. Depth' = Depth /\ Frames'[Depth] = f /\ SameFrames(Frames', Frames, Depth - 1)
        BY <2>1, <2>2, FrameViews DEF SameFrames
    <2> QED BY <2>5, <2>6, <2>7, <2>8, SyncPush
<1>17. CASE Raise \/ Break
    <2>1. the_lamlplst' = the_lamlplst
        BY <1>17 DEF Raise, Break, loopexn
    <2>2. Depth' = Depth /\ SameFrames(Frames', Frames, Depth)
        BY <1>17, RaisePuts, BreakPuts, DoneStays
    <2>3. Depth' # Depth + 1
        BY <2>2, <1>1
    <2> QED BY <2>1, <2>2, <2>3, <1>1, SyncStay
<1>18. CASE Continue \/ Report \/ UNCHANGED vars
    BY <1>18, <1>4 DEF Continue, loopexn, Report, vars
<1>19. ASSUME NEW v, NEW t, NEW t2, Declare(v, t) \/ Use(v, t) \/ Borrow(v, t, t2) PROVE Synced'
    BY <1>19, <1>4 DEF Declare, Use, Borrow, TrupVar
<1> QED
    BY <1>9, <1>11, <1>12, <1>13, <1>14, <1>15, <1>16, <1>17, <1>18, <1>19 DEF Construct

\* The loop that a $break or $continue leaves.
LEMMA InnermostLoop ==
    ASSUME TypeOK, Synced, InLoop, NEW h, h = Depth + 1 - Nearest({"loop"})
    PROVE  Nearest({"loop"}) # 0 /\ lsbis0 = Frames[h].lsbis
<1>1. /\ ctrl \in Seq(Context) /\ DOMAIN ctrl = 1..Depth /\ Depth \in Nat
      /\ the_lamlplst \in Seq(Entry) /\ Len(the_lamlplst) \in Nat
      /\ Len(the_lamlplst) = Count(Frames, Depth) /\ the_lamlplst # <<>>
    BY TypeParts, CtrlFacts, LenProperties DEF Depth, InLoop
<1>2. Flip(the_lamlplst)[Count(Frames, Depth)] = Head(the_lamlplst) /\ Len(the_lamlplst) # 0
    BY <1>1, FlipTail
<1>3. /\ \A d \in 1..Depth : Depth + 1 - d \in 1..Depth /\ Frames[d] = ctrl[Depth + 1 - d]
      /\ \A i \in 1..Depth : Depth + 1 - i \in 1..Depth /\ ctrl[i] = Frames[Depth + 1 - i]
    BY <1>1, FlipReads DEF Frames, Depth
<1> DEFINE A == {i \in 1..Depth : ctrl[i].kind \in Listed}
<1>4. A # {} /\ A \subseteq Nat
    <2>1. IsFiniteSet(Held(Frames, Depth)) /\ Cardinality(Held(Frames, Depth)) # 0
        BY <1>1, <1>2, CountFacts DEF Count
    <2>2. Held(Frames, Depth) # {}
        BY <2>1, FS_EmptySet
    <2>3. PICK d \in 1..Depth : Frames[d].kind \in Listed
        BY <2>2 DEF Held
    <2> QED BY <2>3, <1>3
<1>5. \E k \in A : \A i \in A : k <= i
    BY <1>4, HasLeast
<1>6. PICK k \in 1..Depth : ctrl[k].kind \in Listed /\ \A i \in 1..Depth : ctrl[i].kind \in Listed => k <= i
    BY <1>5
<1> HIDE DEF A
<1> DEFINE g == Depth + 1 - k
<1>7. g \in 1..Depth /\ Frames[g] = ctrl[k] /\ g \in Nat
    BY <1>3, <1>6
<1>8. \A d \in 1..Depth : Frames[d].kind \in Listed => d <= g
    <2> SUFFICES ASSUME NEW d \in 1..Depth, Frames[d].kind \in Listed PROVE d <= g
        OBVIOUS
    <2>1. Depth + 1 - d \in 1..Depth /\ ctrl[Depth + 1 - d].kind \in Listed
        BY <1>3
    <2>2. k <= Depth + 1 - d
        BY <2>1, <1>6
    <2> QED BY <2>2, <1>1, <1>6
<1> HIDE DEF g
<1>9. Count(Frames, Depth) = Count(Frames, g)
    <2>1. Held(Frames, Depth) = Held(Frames, g)
        BY <1>1, <1>7, <1>8 DEF Held
    <2> QED BY <2>1 DEF Count
<1>10. Matches(Frames[g], Head(the_lamlplst))
    <2>1. Matches(Frames[g], Flip(the_lamlplst)[Count(Frames, g)])
        BY <1>6, <1>7 DEF Synced, InList
    <2> QED BY <2>1, <1>2, <1>9
<1>11. Frames[g].kind = "loop" /\ lsbis0 = Frames[g].lsbis
    BY <1>6, <1>7, <1>10 DEF Matches, Listed, InLoop, lsbis0
<1>12. \A j \in 1..k : ctrl[j].kind \notin {"lam", "llam"}
    <2> SUFFICES ASSUME NEW j \in 1..k, ctrl[j].kind \in {"lam", "llam"} PROVE FALSE
        OBVIOUS
    <2>1. j \in 1..Depth /\ ctrl[j].kind \in Listed
        BY <1>1, <1>6 DEF Listed
    <2>2. j = k
        BY <2>1, <1>6
    <2> QED BY <2>2, <1>7, <1>11
<1>13. Nearest({"loop"}) # 0 /\ Nearest({"loop"}) = k
    <2> DEFINE q == Nearest({"loop"})
    <2>1. ctrl[k].kind \in {"loop"} /\ k \in DOMAIN ctrl /\ DOMAIN ctrl \subseteq Nat
        BY <1>1, <1>6, <1>7, <1>11
    <2>2. q \in DOMAIN ctrl /\ ctrl[q].kind \in {"loop"} /\ q <= k
        BY <2>1, <1>12, NearestFacts
    <2> HIDE DEF q
    <2>3. q \in 1..Depth /\ k <= q
        BY <2>2, <1>1, <1>6 DEF Listed
    <2> QED BY <2>2, <2>3, <1>1, <1>6 DEF q
<1> QED BY <1>11, <1>13 DEF g

\* What the loop has bound is within reach, and nothing is lost with it; what
\* is outside is as at the loop's head.
LEMMA Escaping ==
    ASSUME NEW T, NEW T2, Ready(T, T2), Synced, "break" \in Rules, loopexn,
           NEW h, h = Depth + 1 - Nearest({"loop"})
    PROVE  /\ Nearest({"loop"}) # 0 /\ lsbis0 = Frames[h].lsbis
           /\ Frames[h].kind = "loop" /\ h \in 1..Depth /\ Frames[h] = ctrl[Nearest({"loop"})]
           /\ RunFits(Nothing, Inner) /\ Inner \cap Around(T, h) = {}
           /\ FitsRun(run, Base(Frames[h], d2var_type), Around(T, h))
           /\ DOMAIN lsbis0 \subseteq Around(T, h)
<1> DEFINE D == d2var_type
<1>1. /\ TypeOK /\ Shaped(T) /\ FitsRun(run, D, Now(T)) /\ Now(T) \subseteq Var
      /\ D \in [Var -> Maybe]
    BY Before
<1>2. InLoop /\ Escapes /\ LoopChecked(lsbis0)
    BY DEF loopexn
<1>3. Nearest({"loop"}) # 0 /\ lsbis0 = Frames[h].lsbis
    BY <1>1, <1>2, InnermostLoop
<1>4. /\ h \in 1..Depth /\ Depth \in Nat /\ Frames[h] = ctrl[Nearest({"loop"})]
      /\ Frames[h].kind \in {"loop"} /\ \A c \in h..Depth : Frames[c].kind \notin {"lam", "llam"}
    BY <1>1, <1>3, Found
<1>5. Shape(Env, High, Frames, Depth, T) /\ FrameShape(Env, Frames, T, h)
    BY <1>1, <1>4 DEF Shaped, Shape
<1>6. Frames[h].outer = InScope(Env, T[h]) /\ DOMAIN lsbis0 = LocalAt(Env, T[h])
    BY <1>3, <1>4, <1>5 DEF FrameShape, Saves
<1>7. Inner = Visible \ InScope(Env, T[h])
    BY <1>4, <1>6 DEF Inner
<1>8. EnvOK(Env, High) /\ T[Depth] = High /\ High \in Nat /\ T[h] \in 1..High
    BY <1>1, <1>4, Heads
<1>9. Visible = InScope(Env, High)
    BY <1>1, <1>8, Views
<1>10. Inner \subseteq Now(T)
    <2> SUFFICES ASSUME NEW v \in Inner PROVE v \in Now(T)
        OBVIOUS
    <2>1. PICK p \in 1..High : v \in Scope(Env, p)
        BY <1>7, <1>9 DEF InScope
    <2>2. v \in Var /\ v \notin InScope(Env, T[h])
        BY <1>7, <1>9 DEF InScope
    <2>3. T[h] < p
        BY <2>1, <2>2, <1>8 DEF InScope
    <2>4. ASSUME NEW c \in 1..Depth, Frames[c].kind = "lam" PROVE T[c - 1] < p
        <3>1. c - 1 \in 0..Depth /\ h \in 0..Depth /\ c - 1 <= h
            BY <2>4, <1>4
        <3>2. T[c - 1] \in Nat /\ T[c - 1] <= T[h]
            BY <3>1, <1>5, <1>8 DEF Shape
        <3> QED BY <3>2, <2>3, <1>8
    <2> QED BY <2>1, <2>2, <2>4, <1>8 DEF Now, Reach
<1>11. RunFits(Nothing, Inner)
    <2> SUFFICES ASSUME run # Away, NEW v \in Inner PROVE VarCK(run[v], Nothing[v])
        BY DEF RunFits, Fits
    <2>1. VarCK(run[v], D[v]) /\ v \in Var
        BY <1>1, <1>10 DEF FitsRun, Fits
    <2>2. D[v] = None /\ Nothing[v] = None
        BY <2>1, <1>2 DEF Escapes, Nothing
    <2> QED BY <2>1, <2>2
<1>12. Around(T, h) \subseteq Now(T) /\ Around(T, h) \subseteq InScope(Env, T[h])
    BY <1>1, <1>3, FoundReach, ReachIn DEF Around
<1>13. ASSUME run # Away, NEW v \in Around(T, h)
       PROVE  VarCK(run[v], Base(Frames[h], D)[v])
    <2>1. VarCK(run[v], D[v]) /\ v \in Var
        BY <1>1, <1>12, <1>13 DEF FitsRun, Fits
    <2>2. CASE v \in DOMAIN lsbis0
        <3>1. VarCK(D[v], lsbis0[v])
            BY <2>2, <1>2 DEF Escapes, LoopChecked, Fits
        <3>2. Base(Frames[h], D)[v] = lsbis0[v]
            BY <2>1, <2>2, <1>3 DEF Base
        <3>3. VarCK(run[v], lsbis0[v])
            BY <2>1, <3>1, Through
        <3> QED BY <3>2, <3>3
    <2>3. CASE v \notin DOMAIN lsbis0
        BY <2>1, <2>3, <1>3 DEF Base
    <2> QED BY <2>2, <2>3
<1>14. FitsRun(run, Base(Frames[h], D), Around(T, h))
    BY <1>13 DEF FitsRun, Fits
<1>15. DOMAIN lsbis0 \subseteq Around(T, h)
    <2>1. h \in 0..Depth
        BY <1>4
    <2> QED BY <2>1, <1>5, <1>6, LocalReach DEF Around
<1> QED BY <1>3, <1>4, <1>7, <1>11, <1>12, <1>14, <1>15

\* A $break: the execution waits at the loop, without what the loop has bound.
LEMMA BreakFits ==
    ASSUME NEW T, NEW T2, Ready(T, T2), Synced, "break" \in Rules, Break
    PROVE  Fitting(T2)'
<1> DEFINE K == {"loop"}
           h == Depth + 1 - Nearest(K)
           D == d2var_type
           x == Either(Without(run, Inner), ctrl[Nearest(K)].done)
<1>1. TypeOK /\ Shaped(T) /\ ~bad /\ Fitting(T) /\ (run # Away => run \in [Var -> Maybe])
    BY Before DEF Ready
<1>2. /\ loopexn /\ UNCHANGED <<envs, d2var_type>> /\ run' = Away
      /\ PutDone(ctrl', ctrl, Nearest(K), x)
      /\ bad' = (bad \/ ~RunFits(Nothing, Inner))
    BY <1>1, BreakPuts DEF Break, loopexn, dvars
<1>3. /\ Nearest(K) # 0 /\ Frames[h].kind = "loop" /\ h \in 1..Depth
      /\ Frames[h] = ctrl[Nearest(K)] /\ RunFits(Nothing, Inner)
      /\ Inner \cap Around(T, h) = {}
      /\ FitsRun(run, Base(Frames[h], D), Around(T, h))
    BY <1>2, Escaping
<1> HIDE DEF x
<1>4. Stored(Frames', Frames, Depth, h, x) /\ Depth' = Depth
    BY <1>1, <1>2, <1>3, FoundStored
<1> HIDE DEF h, K
<1>5. FitsRun(Frames[h].done, Base(Frames[h], D), Around(T, h))
    <2>1. Fact(Env, Frames, Depth, T, D, h)
        BY <1>1, <1>3 DEF Fitting
    <2> QED BY <2>1, <1>3 DEF Fact, Waits, Around
<1>6. Around(T, h) \subseteq Var
    BY DEF Around, Reach
<1>7. FitsRun(x, Base(Frames[h], D), Around(T, h))
    <2> SUFFICES ASSUME x # Away, NEW v \in Around(T, h)
                 PROVE  VarCK(x[v], Base(Frames[h], D)[v])
        BY DEF FitsRun, Fits
    <2>1. CASE x = Frames[h].done
        BY <2>1, <1>5 DEF FitsRun, Fits
    <2>2. CASE x # Frames[h].done
        <3>1. x = Without(run, Inner) /\ run # Away
            BY <2>2, <1>3 DEF x, Either, Without
        <3>2. x[v] = run[v]
            BY <3>1, <1>3, <1>6 DEF Without
        <3>3. VarCK(run[v], Base(Frames[h], D)[v])
            BY <3>1, <1>3 DEF FitsRun, Fits
        <3> QED BY <3>2, <3>3
    <2> QED BY <2>1, <2>2
<1> QED BY <1>1, <1>2, <1>3, <1>4, <1>7, StoreFits

\* A $continue: the execution goes back to the loop's head, which it fits.
LEMMA LoopAgainFits ==
    ASSUME NEW T, NEW T2, Ready(T, T2), Synced, "break" \in Rules, Continue
    PROVE  Fitting(T2)'
<1> DEFINE h == Depth + 1 - Nearest({"loop"})
           D == d2var_type
<1>1. ~bad /\ Depth \in Nat
    BY Before, Heads
<1>2. /\ loopexn /\ UNCHANGED <<envs, ctrl, d2var_type>> /\ run' = Away
      /\ bad' = (bad \/ ~RunFits(Nothing, Inner) \/ ~RunFits(lsbis0, DOMAIN lsbis0))
    BY DEF Continue, loopexn, dvars
<1>3. /\ RunFits(Nothing, Inner) /\ lsbis0 = Frames[h].lsbis
      /\ FitsRun(run, Base(Frames[h], D), Around(T, h)) /\ DOMAIN lsbis0 \subseteq Around(T, h)
    BY <1>2, Escaping
<1> HIDE DEF h
<1>4. Around(T, h) \subseteq Var
    BY DEF Around, Reach
<1>5. RunFits(lsbis0, DOMAIN lsbis0)
    <2>1. \A v \in DOMAIN lsbis0 : v \in Around(T, h) /\ Base(Frames[h], D)[v] = lsbis0[v]
        BY <1>3, <1>4 DEF Base
    <2> QED BY <2>1, <1>3 DEF RunFits, FitsRun, Fits
<1>6. Stays(T, T2, Depth) /\ Depth' = Depth
    BY <1>2, Standing
<1>7. Depth # Depth + 1
    BY <1>1
<1>8. Plain(T, T2, Depth)
    BY <1>2, <1>6, <1>7 DEF Plain, VarCK
<1>9. ~bad' /\ FitsRun(run', d2var_type', Now(T2)')
    BY <1>1, <1>2, <1>3, <1>5 DEF FitsRun
<1> QED BY <1>6, <1>7, <1>8, <1>9, PlainFits

-----------------------------------------------------------------------------
(* Soundness.                                                              *)

\* Every construct keeps what is expected.
LEMMA FittingNext ==
    ASSUME NEW T, NEW T2, Ready(T, T2), Synced, "try" \in Rules, "break" \in Rules
    PROVE  Fitting(T2)'
<1>1. CASE Let \/ Lam \/ LLam \/ Branch \/ TryDn \/ TryUp \/ \E R \in SUBSET Var : Loop(R)
    BY <1>1, LetFits, LamFits, LLamFits, BranchFits, TryUpFits, LoopFits
<1>2. CASE LetEnd \/ LamEnd \/ LLamEnd \/ TryEnd \/ LoopEnd \/ \E M \in SUBSET Var : Join(M)
    BY <1>2, ScopeFits, LLamEndFits, TryEndFits, LoopEndFits, JoinFits
<1>3. CASE NextBranch \/ WithDn \/ WithUp \/ LoopTest
    BY <1>3, NextBranchFits, WithFits, LoopTestFits
<1>4. CASE Raise \/ Break \/ Continue \/ Report
    BY <1>4, RaiseFits, BreakFits, LoopAgainFits, ReportFits
<1>5. ASSUME NEW v \in Var, NEW t \in Type, Declare(v, t) \/ Use(v, t) PROVE Fitting(T2)'
    BY <1>5, DeclareFits, UseFits
<1>6. ASSUME NEW v \in Var, NEW t \in Type, NEW fin \in Maybe, LamArg(v, t, fin)
      PROVE  Fitting(T2)'
    BY <1>6, LamArgFits
<1>7. ASSUME NEW v \in Var, NEW t \in Type, NEW t2 \in Type, Borrow(v, t, t2)
      PROVE  Fitting(T2)'
    BY <1>7, BorrowFits
<1>8. Construct \/ Report
    BY DEF Ready
<1> QED BY <1>1, <1>2, <1>3, <1>4, <1>5, <1>6, <1>7, <1>8 DEF Construct

\* Nothing is held, and nothing is expected.
LEMMA InitFits ==
    ASSUME Init
    PROVE  Synced /\ \A T : Fitting(T)
<1>1. Depth = 0 /\ ~bad /\ run = Nothing /\ d2var_type = Nothing
    BY EmptySeq DEF Init, Depth
<1>2. \A S : FitsRun(run, d2var_type, S)
    BY <1>1 DEF FitsRun, Fits, VarCK
<1> QED BY <1>1, <1>2 DEF Synced, InList, Fitting

\* In a program that keeps the two rules, and that the checker does not
\* refuse, the execution holds what the checker believes that it holds: it
\* uses what it has, as what it is, and loses nothing.
THEOREM SoundHolds ==
    ASSUME "try" \in Rules, "break" \in Rules
    PROVE  Spec => []Sound
<1> DEFINE IInv == TypeOK /\ Synced /\ \E T : Shaped(T) /\ Fitting(T)
<1>1. Init => IInv
    <2> SUFFICES ASSUME Init PROVE IInv
        OBVIOUS
    <2>1. PICK T : Shaped(T)
        BY InitShaped
    <2> QED BY <2>1, InitTyped, InitFits
<1>2. IInv /\ [Next]_vars => IInv'
    <2> SUFFICES ASSUME TypeOK, Synced, NEW T, Shaped(T), Fitting(T), [Next]_vars
                 PROVE  IInv'
        OBVIOUS
    <2>1. TypeOK'
        BY TypeStep DEF Next, Reject, vars, dvars, envs, exec, TypeOK
    <2>2. Synced'
        BY SyncNext DEF Next, Reject
    <2>3. CASE Construct \/ Report
        <3>1. Reshaped(T)
            BY <2>3, ShapeNext
        <3>2. PICK T2 : T2 = TopAt(T, Depth', High')
            OBVIOUS
        <3>3. Shaped(T2)'
            BY <3>1, <3>2 DEF Reshaped, Shaped
        <3>4. Ready(T, T2)
            BY <2>1, <2>3, <3>2, <3>3 DEF Ready
        <3>5. Fitting(T2)'
            BY <3>4, FittingNext
        <3> QED BY <2>1, <2>2, <3>3, <3>5
    <2>4. CASE UNCHANGED vars
        <3>1. /\ Env' = Env /\ High' = High /\ Frames' = Frames /\ Depth' = Depth
              /\ run' = run /\ d2var_type' = d2var_type /\ bad' = bad
            BY <2>4 DEF vars, dvars, envs, exec, Env, High, Frames, Depth
        <3>2. Shaped(T)'
            BY <3>1 DEF Shaped
        <3>3. Fitting(T)'
            BY <3>1 DEF Fitting, Now
        <3> QED BY <2>1, <2>2, <3>2, <3>3
    <2> QED BY <2>3, <2>4 DEF Next, Reject
<1>3. IInv => Sound
    <2> SUFFICES ASSUME TypeOK, NEW T, Shaped(T), Fitting(T) PROVE Sound
        OBVIOUS
    <2>1. EnvOK(Env, High) /\ T[Depth] = High /\ Depth \in 0..Depth
        BY Heads
    <2>2. Local = LocalAt(Env, High)
        BY <2>1, Views
    <2>3. Local \subseteq Now(T)
        <3>1. Shape(Env, High, Frames, Depth, T)
            BY DEF Shaped
        <3> QED BY <3>1, <2>1, <2>2, LocalReach DEF Now
    <2> QED BY <2>3 DEF Fitting, Sound, FitsRun, RunFits, Fits
<1> QED BY <1>1, <1>2, <1>3, PTL DEF Spec
=============================================================================
