--------------------------- MODULE Trans2EnvProofs ---------------------------
(***************************************************************************)
(* The components of MCTrans2Env, for every value of its constants:        *)
(*  - the scopes of Trans2Env: every use of a name sees the binding that   *)
(*    LexicalScope gives it;                                               *)
(*  - the files of Trans1Files: the pile of files and the table of loaded  *)
(*    ones agree with the calls in progress, and a cycle is refused;       *)
(*  - the frames of Trywith (TrywithProofs) as MCTrans2Env uses them.      *)
(***************************************************************************)
EXTENDS MCTrans2Env, SequenceTheorems, FiniteSetTheorems, WellFoundedInduction,
        TLAPS

-----------------------------------------------------------------------------
(* Search: the first map that binds the name decides.                      *)

\* What symmap_joinwth and the filter of opened files do to a map.
LEMMA MapFacts ==
  /\ NoItem \in Maybe
  /\ Nil \in Map
  /\ \A m \in Map, n \in Name : m[n] \in Maybe
  /\ \A m2, m0 \in Map : Join(m2, m0) \in Map
  /\ \A m \in Map : Public(m) \in Map
  /\ \A m \in Map : Join(m, Nil) = m
<1>1. \A m \in Map : Join(m, Nil) = m
  BY DEF Map, Nil, Join
<1>2. QED
  BY <1>1 DEF Maybe, Map, Nil, Join, Public

\* Nothing is found where nothing is bound.
LEMMA SearchMiss ==
  ASSUME NEW ms, NEW n, \A k \in DOMAIN ms : ms[k][n] = NoItem
  PROVE  Search(ms, n) = NoItem
BY DEF Search

\* The first hit is found.
LEMMA SearchHit ==
  ASSUME NEW ms, NEW n, DOMAIN ms \subseteq Nat,
         NEW k \in DOMAIN ms, ms[k][n] # NoItem,
         \A j \in DOMAIN ms : j < k => ms[j][n] = NoItem
  PROVE  Search(ms, n) = ms[k][n]
<1> DEFINE hits == {j \in DOMAIN ms : ms[j][n] # NoItem}
<1>1. k \in hits /\ \A j \in hits : k <= j
  OBVIOUS
<1>2. \A i \in hits : (\A j \in hits : i <= j) => i = k
  BY <1>1
<1> HIDE DEF hits
<1>3. (CHOOSE i \in hits : \A j \in hits : i <= j) = k
  BY <1>1, <1>2
<1>4. QED
  BY <1>1, <1>3 DEF Search, hits

\* Either nothing is bound or there is a first hit.
LEMMA SearchCases ==
  ASSUME NEW ms, NEW n, DOMAIN ms \subseteq Nat
  PROVE  \/ \A k \in DOMAIN ms : ms[k][n] = NoItem
         \/ \E k \in DOMAIN ms :
              /\ ms[k][n] # NoItem
              /\ \A j \in DOMAIN ms : j < k => ms[j][n] = NoItem
<1> DEFINE hits == {j \in DOMAIN ms : ms[j][n] # NoItem}
<1>1. hits \subseteq Nat
  OBVIOUS
<1>2. CASE hits = {}
  BY <1>2
<1>3. CASE hits # {}
  <2> DEFINE Less == OpToRel(<, Nat)
  <2>0. PICK k \in hits : \A j \in hits : ~ (<<j, k>> \in Less)
    <3> HIDE DEF hits
    <3> QED BY <1>1, <1>3, NatLessThanWellFounded, WFMin
  <2>1. \A j \in hits : k <= j
    <3>1. TAKE j \in hits
    <3>2. j \in Nat /\ k \in Nat
      BY <1>1
    <3>3. j < k => <<j, k>> \in Less
      BY <3>2 DEF OpToRel
    <3>4. ~ (<<j, k>> \in Less)
      BY <2>0
    <3>5. ~ (j < k)
      BY <3>3, <3>4
    <3> QED BY <3>2, <3>5
  <2>2. \A j \in DOMAIN ms : j < k => ms[j][n] = NoItem
    BY <2>1
  <2>3. QED
    BY <2>1, <2>2
<1>4. QED
  BY <1>2, <1>3

\* The same for a list: no map of it binds n, or map k is the first that does.
Unbound(ms, n) == \A k \in DOMAIN ms : ms[k][n] = NoItem
FirstHit(ms, n, k) ==
    ms[k][n] # NoItem /\ \A j \in DOMAIN ms : j < k => ms[j][n] = NoItem

LEMMA FirstBound ==
  ASSUME NEW S, NEW ms \in Seq(S), NEW n
  PROVE  Unbound(ms, n) \/ \E k \in DOMAIN ms : FirstHit(ms, n, k)
<1>1. DOMAIN ms \subseteq Nat
  BY LenProperties
<1>2. QED
  BY <1>1, SearchCases DEF Unbound, FirstHit

\* The search through two lists one after the other.
LEMMA SearchConcat ==
  ASSUME NEW S, NEW cs \in Seq(S), NEW bs \in Seq(S), NEW n
  PROVE  Search(cs \o bs, n) =
           IF Search(cs, n) # NoItem THEN Search(cs, n) ELSE Search(bs, n)
<1> DEFINE c == cs \o bs
<1>1. PICK p \in Nat : p = Len(cs)
  BY LenProperties
<1>2. PICK q \in Nat : q = Len(bs)
  BY LenProperties
<1>3. c \in Seq(S) /\ Len(c) = p + q
  BY <1>1, <1>2, ConcatProperties
<1>4. DOMAIN cs = 1..p /\ DOMAIN bs = 1..q /\ DOMAIN c = 1..(p + q)
  BY <1>1, <1>2, <1>3, LenProperties
<1>5. \A i \in 1..(p + q) : c[i] = IF i <= p THEN cs[i] ELSE bs[i - p]
  BY <1>1, <1>2, ConcatProperties
<1>6. ASSUME NEW i \in 1..p PROVE c[i] = cs[i]
  <2>1. i \in 1..(p + q) /\ i <= p
    OBVIOUS
  <2>2. QED
    BY <1>5, <2>1
<1>7. ASSUME NEW i \in 1..q PROVE c[p + i] = bs[i]
  <2>1. PICK k \in 1..(p + q) : k = p + i
    OBVIOUS
  <2>2. ~(k <= p) /\ k - p = i
    BY <2>1
  <2>3. c[k] = bs[k - p]
    BY <1>5, <2>2
  <2>4. QED
    BY <2>1, <2>2, <2>3
<1>8. \A i \in 1..p : c[i] = cs[i]
  BY <1>6
<1>9. \A i \in 1..q : c[p + i] = bs[i]
  BY <1>7
<1> HIDE DEF c
<1> USE <1>4, <1>8, <1>9
<1>11. DOMAIN cs \subseteq Nat /\ DOMAIN bs \subseteq Nat /\ DOMAIN c \subseteq Nat
  OBVIOUS
<1>12. \A j \in 1..(p + q) : j \in 1..p \/ \E i \in 1..q : j = p + i
  <2>1. TAKE j \in 1..(p + q)
  <2>2. CASE j <= p
    BY <2>2
  <2>3. CASE ~ (j <= p)
    <3>1. j - p \in 1..q /\ j = p + (j - p)
      BY <2>3
    <3>2. QED
      BY <3>1
  <2>4. QED
    BY <2>2, <2>3
<1>13. ASSUME NEW k \in 1..p, cs[k][n] # NoItem,
             \A j \in 1..p : j < k => cs[j][n] = NoItem
      PROVE  Search(c, n) = Search(cs, n) /\ Search(cs, n) # NoItem
  <2>1. Search(cs, n) = cs[k][n]
    <3>1. k \in DOMAIN cs /\ \A j \in DOMAIN cs : j < k => cs[j][n] = NoItem
      BY <1>13
    <3>2. QED
      BY <1>11, <1>13, <3>1, SearchHit
  <2>2. k \in DOMAIN c /\ c[k] = cs[k]
    <3>1. k \in 1..(p + q)
      OBVIOUS
    <3>2. QED
      BY <3>1
  <2>3. ASSUME NEW j \in DOMAIN c, j < k PROVE c[j][n] = NoItem
    <3>1. j \in 1..p
      BY <2>3
    <3>2. cs[j][n] = NoItem
      BY <1>13, <2>3, <3>1
    <3>3. QED
      BY <3>1, <3>2
  <2>4. Search(c, n) = c[k][n]
    <3>1. c[k][n] # NoItem
      BY <1>13, <2>2
    <3>2. QED
      BY <1>11, <2>2, <2>3, <3>1, SearchHit
  <2>5. QED
    BY <1>13, <2>1, <2>2, <2>4
<1>14. ASSUME \A k \in DOMAIN cs : cs[k][n] = NoItem
      PROVE  Search(cs, n) = NoItem /\ Search(c, n) = Search(bs, n)
  <2>1. Search(cs, n) = NoItem
    BY <1>14, SearchMiss
  <2>2. CASE \A k \in DOMAIN bs : bs[k][n] = NoItem
    <3>1. ASSUME NEW k \in DOMAIN c PROVE c[k][n] = NoItem
      <4>1. CASE k \in 1..p
        BY <1>14, <4>1
      <4>2. ASSUME NEW i \in 1..q, k = p + i PROVE c[k][n] = NoItem
        BY <2>2, <4>2
      <4>3. QED
        BY <1>12, <4>1, <4>2
    <3>2. Search(c, n) = NoItem
      BY <3>1, SearchMiss
    <3>3. Search(bs, n) = NoItem
      BY <2>2, SearchMiss
    <3>4. QED
      BY <2>1, <3>2, <3>3
  <2>3. ASSUME NEW k \in DOMAIN bs, bs[k][n] # NoItem,
               \A j \in DOMAIN bs : j < k => bs[j][n] = NoItem
        PROVE  Search(c, n) = Search(bs, n)
    <3>1. Search(bs, n) = bs[k][n]
      BY <1>11, <2>3, SearchHit
    <3>2. k \in 1..q
      OBVIOUS
    <3>3. PICK l \in 1..(p + q) : l = p + k
      BY <3>2
    <3>4. c[l] = bs[k] /\ l \in DOMAIN c
      BY <3>2, <3>3
    <3>5. ASSUME NEW j \in DOMAIN c, j < l PROVE c[j][n] = NoItem
      <4>1. CASE j \in 1..p
        BY <1>14, <4>1
      <4>2. ASSUME NEW i \in 1..q, j = p + i PROVE c[j][n] = NoItem
        <5>1. i < k
          BY <3>2, <3>3, <3>5, <4>2
        <5>2. bs[i][n] = NoItem
          BY <2>3, <5>1
        <5>3. QED
          BY <4>2, <5>2
      <4>3. QED
        BY <1>12, <4>1, <4>2
    <3>6. c[l][n] # NoItem
      BY <2>3, <3>4
    <3>7. Search(c, n) = c[l][n]
      BY <1>11, <3>4, <3>5, <3>6, SearchHit
    <3>8. QED
      BY <3>1, <3>4, <3>7
  <2>4. Unbound(bs, n) \/ \E k \in DOMAIN bs : FirstHit(bs, n, k)
    BY FirstBound
  <2>5. QED
    BY <2>1, <2>2, <2>3, <2>4 DEF Unbound, FirstHit
<1>15. (\A k \in DOMAIN cs : cs[k][n] = NoItem) =>
        Search(cs, n) = NoItem /\ Search(c, n) = Search(bs, n)
  BY <1>14
<1>16. ASSUME NEW k \in DOMAIN cs, cs[k][n] # NoItem,
             \A j \in DOMAIN cs : j < k => cs[j][n] = NoItem
      PROVE  Search(c, n) = Search(cs, n) /\ Search(cs, n) # NoItem
  <2>1. k \in 1..p /\ \A j \in 1..p : j < k => cs[j][n] = NoItem
    BY <1>16
  <2>2. QED
    BY <1>13, <1>16, <2>1
<1>17. Unbound(cs, n) \/ \E k \in DOMAIN cs : FirstHit(cs, n, k)
  BY FirstBound
<1>18. Search(c, n) = IF Search(cs, n) # NoItem THEN Search(cs, n) ELSE Search(bs, n)
  BY <1>15, <1>16, <1>17 DEF Unbound, FirstHit
<1>19. QED
  BY <1>18 DEF c

\* The search through a list: first its head, then the rest.
LEMMA SearchCons ==
  ASSUME NEW S, NEW m \in S, NEW ms \in Seq(S), NEW n
  PROVE  Search(<<m>> \o ms, n) =
           IF m[n] # NoItem THEN m[n] ELSE Search(ms, n)
<1>1. PICK one : one = <<m>>
  OBVIOUS
<1>2. one \in Seq(S) /\ DOMAIN one = {1} /\ {1} \subseteq Nat /\ one[1] = m
  BY <1>1
<1>3. Search(one, n) = m[n]
  <2>1. CASE m[n] = NoItem
    <3>1. \A k \in DOMAIN one : one[k][n] = NoItem
      BY <1>2, <2>1
    <3>2. QED
      BY <2>1, <3>1, SearchMiss
  <2>2. CASE m[n] # NoItem
    <3>1. 1 \in DOMAIN one /\ one[1][n] # NoItem
      BY <1>2, <2>2
    <3>2. \A j \in DOMAIN one : j < 1 => one[j][n] = NoItem
      BY <1>2
    <3>3. QED
      BY <1>2, <3>1, <3>2, SearchHit
  <2>3. QED
    BY <2>1, <2>2
<1>4. Search(one \o ms, n) =
        IF Search(one, n) # NoItem THEN Search(one, n) ELSE Search(ms, n)
  BY <1>2, SearchConcat
<1>5. QED
  BY <1>1, <1>3, <1>4

\* What is found comes from one of the maps.
LEMMA SearchFrom ==
  ASSUME NEW ms, NEW n, DOMAIN ms \subseteq Nat
  PROVE  Search(ms, n) = NoItem \/ \E k \in DOMAIN ms : Search(ms, n) = ms[k][n]
<1>1. CASE \A k \in DOMAIN ms : ms[k][n] = NoItem
  BY <1>1, SearchMiss
<1>2. ASSUME NEW k \in DOMAIN ms, ms[k][n] # NoItem,
             \A j \in DOMAIN ms : j < k => ms[j][n] = NoItem
      PROVE  Search(ms, n) = ms[k][n]
  BY <1>2, SearchHit
<1>3. QED
  BY <1>1, <1>2, SearchCases

-----------------------------------------------------------------------------
(* The inductive invariant.                                                *)

\* The scopes of a file, and the stacks that hold them.
Shape(ks, ms, fss) ==
    /\ Len(ks) = Len(ms) + 1 /\ Len(ms) <= Len(fss)
    /\ \A i \in DOMAIN ks : ks[i] = "top" <=> i = Len(ks)
    /\ \A i \in DOMAIN ks : ks[i] = "body" => i < Len(ks) /\ ks[i + 1] = "head"

NoPrelude(ks) == \A i \in DOMAIN ks : ks[i] # "prelude"

OnePrelude(ks) ==
    \A i, j \in DOMAIN ks : ks[i] = "prelude" /\ ks[j] = "prelude" => i = j

AllEmpty(fss) == \A i \in DOMAIN fss : fss[i] = <<>>

Aligned ==
    /\ Shape(kinds, maplst, fenvlstlst)
    /\ Len(savedlst) = Len(callers) /\ Len(nsaved) = Len(callers)
    /\ \A i \in DOMAIN callers :
           /\ Shape(callers[i].kinds, savedlst[i].maplst, nsaved[i].lst)
           /\ NoPrelude(callers[i].kinds)

\* Before the_prelude_load returns no file waits and nothing is opened.
Phase ==
    /\ started => NoPrelude(kinds)
    /\ ~started => /\ callers = <<>>
                   /\ fenvlst = <<>> /\ AllEmpty(fenvlstlst)
                   /\ file = Main => NoPrelude(kinds)
                   /\ OnePrelude(kinds)
    /\ callers # <<>> => file \in File
    /\ \A i \in DOMAIN callers : i < Len(callers) => callers[i].file \in File

\* A file that is being translated is not yet in the table.
BusyNotLoaded ==
    /\ file \in File => filenvmap[file] = {}
    /\ \A i \in DOMAIN callers :
           callers[i].file \in File => filenvmap[callers[i].file] = {}
    /\ \A i \in DOMAIN callers : callers[i].file # file
    /\ \A i, j \in DOMAIN callers : callers[i].file = callers[j].file => i = j

OneMap == \A f \in File : \A m1, m2 \in filenvmap[f] : m1 = m2

-----------------------------------------------------------------------------
(* Stacks: what is put on top and what is taken off.                       *)

\* Pushing an element on one of the compiler's lists.
LEMMA ConsFacts ==
  ASSUME NEW S, NEW x \in S, NEW s \in Seq(S)
  PROVE  /\ <<x>> \o s \in Seq(S)
         /\ Len(<<x>> \o s) = Len(s) + 1
         /\ DOMAIN (<<x>> \o s) = 1..(Len(s) + 1)
         /\ (<<x>> \o s)[1] = x
         /\ \A i \in 1..Len(s) : (<<x>> \o s)[i + 1] = s[i]
         /\ Head(<<x>> \o s) = x
         /\ Tail(<<x>> \o s) = s
OBVIOUS

\* Popping an element off a list that is not empty.
LEMMA TailFacts ==
  ASSUME NEW S, NEW s \in Seq(S), s # <<>>
  PROVE  /\ Tail(s) \in Seq(S)
         /\ Len(Tail(s)) = Len(s) - 1
         /\ \A i \in 1..(Len(s) - 1) : Tail(s)[i] = s[i + 1]
         /\ Head(s) = s[1] /\ s[1] \in S
OBVIOUS

\* trans2_env_push keeps the two stacks of the same depth.
LEMMA ShapePush ==
  ASSUME NEW ks \in Seq(Kind), NEW ms \in Seq(Map), NEW fss \in Seq(Seq(File)),
         NEW m \in Map, NEW fs \in Seq(File), NEW k \in Kind \ {"top"},
         k = "body" => Head(ks) = "head",
         Shape(ks, ms, fss)
  PROVE  Shape(<<k>> \o ks, <<m>> \o ms, <<fs>> \o fss)
<1>1. PICK a \in Nat : a = Len(ks)
  BY LenProperties
<1>2. /\ Len(ms) \in Nat /\ Len(fss) \in Nat
      /\ a = Len(ms) + 1 /\ Len(ms) <= Len(fss)
      /\ DOMAIN ks = 1..a
  BY <1>1 DEF Shape
<1>3. PICK kk : kk = <<k>> \o ks
  OBVIOUS
<1>4. Len(kk) = a + 1 /\ DOMAIN kk = 1..(a + 1) /\ kk[1] = k
  BY <1>1, <1>3, ConsFacts
<1>5. \A i \in 1..a : kk[i + 1] = ks[i]
  BY <1>1, <1>3, ConsFacts
<1>6. /\ \A i \in 1..a : ks[i] = "top" <=> i = a
      /\ \A i \in 1..a : ks[i] = "body" => i < a /\ ks[i + 1] = "head"
      /\ a # 0 /\ Head(ks) = ks[1]
  <2>1. a # 0 /\ ks # <<>>
    BY <1>1, <1>2
  <2>2. Head(ks) = ks[1]
    BY <2>1, TailFacts
  <2>3. QED
    BY <1>1, <1>2, <2>1, <2>2 DEF Shape
<1>7. ASSUME NEW i \in 1..(a + 1)
      PROVE  /\ kk[i] = "top" <=> i = a + 1
             /\ kk[i] = "body" => i < a + 1 /\ kk[i + 1] = "head"
  <2>1. CASE i = 1
    <3>1. 1 \in 1..a
      BY <1>6
    <3>2. kk[1 + 1] = ks[1]
      BY <1>5, <3>1
    <3>3. QED
      BY <1>4, <1>6, <2>1, <3>1, <3>2
  <2>2. CASE i # 1
    <3>1. PICK j \in 1..a : i = j + 1
      <4>1. i - 1 \in 1..a /\ i = (i - 1) + 1
        BY <2>2
      <4>2. QED
        BY <4>1
    <3>2. kk[i] = ks[j]
      BY <1>5, <3>1
    <3>3. (kk[i] = "top") <=> (i = a + 1)
      BY <1>6, <3>1, <3>2
    <3>4. ASSUME kk[i] = "body" PROVE i < a + 1 /\ kk[i + 1] = "head"
      <4>1. j < a /\ ks[j + 1] = "head"
        BY <1>6, <3>2, <3>4
      <4>2. i \in 1..a /\ i < a + 1
        BY <3>1, <4>1
      <4>3. kk[i + 1] = ks[i]
        BY <1>5, <4>2
      <4>4. QED
        BY <3>1, <4>1, <4>2, <4>3
    <3>5. QED
      BY <3>3, <3>4
  <2>3. QED
    BY <2>1, <2>2
<1>8. Len(<<m>> \o ms) = Len(ms) + 1 /\ Len(<<fs>> \o fss) = Len(fss) + 1
  BY ConsFacts
<1>9. a + 1 = (Len(ms) + 1) + 1 /\ Len(ms) + 1 <= Len(fss) + 1
  BY <1>2
<1>10. QED
  <2>1. Len(kk) = Len(<<m>> \o ms) + 1 /\ Len(<<m>> \o ms) <= Len(<<fs>> \o fss)
    BY <1>4, <1>8, <1>9
  <2>2. \A i \in DOMAIN kk : kk[i] = "top" <=> i = Len(kk)
    BY <1>4, <1>7
  <2>3. \A i \in DOMAIN kk : kk[i] = "body" => i < Len(kk) /\ kk[i + 1] = "head"
    BY <1>4, <1>7
  <2>4. QED
    BY <1>3, <2>1, <2>2, <2>3 DEF Shape

\* trans2_env_pop too; and pervasive_load, which pops but one of them.
LEMMA ShapePop ==
  ASSUME NEW ks \in Seq(Kind), NEW ms \in Seq(Map), NEW fss \in Seq(Seq(File)),
         Shape(ks, ms, fss), Head(ks) # "top"
  PROVE  /\ ms # <<>> /\ fss # <<>>
         /\ Shape(Tail(ks), Tail(ms), Tail(fss))
         /\ Shape(Tail(ks), Tail(ms), fss)
         /\ Head(ks) = "body" => Head(Tail(ks)) = "head"
<1>1. PICK a \in Nat : a = Len(ks)
  BY LenProperties
<1>2. /\ Len(ms) \in Nat /\ Len(fss) \in Nat
      /\ a = Len(ms) + 1 /\ Len(ms) <= Len(fss)
      /\ DOMAIN ks = 1..a
  BY <1>1 DEF Shape
<1>3. /\ \A i \in 1..a : ks[i] = "top" <=> i = a
      /\ \A i \in 1..a : ks[i] = "body" => i < a /\ ks[i + 1] = "head"
  BY <1>1, <1>2 DEF Shape
<1>4. a # 0 /\ a # 1 /\ ks # <<>>
  <2>1. a # 0 /\ ks # <<>>
    BY <1>1, <1>2
  <2>2. Head(ks) = ks[1]
    BY <2>1, TailFacts
  <2>3. QED
    BY <1>3, <2>1, <2>2
<1>5. Len(ms) # 0 /\ Len(fss) # 0
  BY <1>2, <1>4
<1>6. ms # <<>> /\ fss # <<>>
  BY <1>5
<1>7. PICK kk : kk = Tail(ks)
  OBVIOUS
<1>8. PICK b \in Nat : a = b + 1 /\ b # 0
  <2>1. a - 1 \in Nat /\ a = (a - 1) + 1 /\ a - 1 # 0
    BY <1>4
  <2>2. QED
    BY <2>1
<1>9. Len(kk) = b /\ kk \in Seq(Kind)
  <2>1. kk \in Seq(Kind) /\ Len(kk) = a - 1
    BY <1>1, <1>4, <1>7, TailFacts
  <2>2. QED
    BY <1>8, <2>1
<1>10. DOMAIN kk = 1..b
  BY <1>9
<1>11. \A i \in 1..b : kk[i] = ks[i + 1]
  <2>1. Len(ks) - 1 = b
    BY <1>1, <1>8
  <2>2. QED
    BY <1>4, <1>7, <2>1, TailFacts
<1>12. ASSUME NEW i \in 1..b
       PROVE  /\ kk[i] = "top" <=> i = b
              /\ kk[i] = "body" => i < b /\ kk[i + 1] = "head"
  <2>1. PICK j \in 1..a : j = i + 1
    BY <1>8
  <2>2. kk[i] = ks[j]
    BY <1>11, <2>1
  <2>3. (kk[i] = "top") <=> (i = b)
    BY <1>3, <1>8, <2>1, <2>2
  <2>4. ASSUME kk[i] = "body" PROVE i < b /\ kk[i + 1] = "head"
    <3>1. j < a /\ ks[j + 1] = "head"
      BY <1>3, <2>2, <2>4
    <3>2. i < b /\ j \in 1..b
      BY <1>8, <2>1, <3>1
    <3>3. kk[j] = ks[j + 1]
      BY <1>11, <3>2
    <3>4. QED
      BY <2>1, <3>1, <3>2, <3>3
  <2>5. QED
    BY <2>3, <2>4
<1>13. Len(Tail(ms)) = Len(ms) - 1 /\ Len(Tail(fss)) = Len(fss) - 1
  BY <1>6, TailFacts
<1>14. /\ b = (Len(ms) - 1) + 1
       /\ Len(ms) - 1 <= Len(fss) - 1 /\ Len(ms) - 1 <= Len(fss)
  BY <1>2, <1>8
<1>15. Head(ks) = "body" => Head(kk) = "head"
  <2>1. Head(ks) = ks[1] /\ Head(kk) = kk[1]
    BY <1>4, <1>8, <1>9, TailFacts
  <2>2. 1 \in 1..b /\ kk[1] = ks[1 + 1]
    BY <1>8, <1>11
  <2>3. 1 \in 1..a
    BY <1>8
  <2>4. QED
    BY <1>3, <2>1, <2>2, <2>3
<1>16. QED
  <2>1. /\ Len(kk) = Len(Tail(ms)) + 1
        /\ Len(Tail(ms)) <= Len(Tail(fss)) /\ Len(Tail(ms)) <= Len(fss)
    BY <1>9, <1>13, <1>14
  <2>2. \A i \in DOMAIN kk : kk[i] = "top" <=> i = Len(kk)
    BY <1>9, <1>10, <1>12
  <2>3. \A i \in DOMAIN kk : kk[i] = "body" => i < Len(kk) /\ kk[i + 1] = "head"
    BY <1>9, <1>10, <1>12
  <2>4. QED
    BY <1>6, <1>7, <1>15, <2>1, <2>2, <2>3 DEF Shape

\* What the shape of the stacks gives to the actions that take them apart.
LEMMA Suffice ==
  ASSUME TypeOK, Aligned
  PROVE  StacksSuffice
<1>1. Shape(kinds, maplst, fenvlstlst)
  BY DEF Aligned
<1>2. /\ kinds \in Seq(Kind) /\ maplst \in Seq(Map) /\ fenvlstlst \in Seq(Seq(File))
      /\ savedlst \in Seq([map : Map, maplst : Seq(Map)])
      /\ nsaved \in Seq([cur : Seq(File), lst : Seq(Seq(File))])
      /\ callers \in Seq([kinds : Seq(Kind), file : File \cup {Main}])
  BY DEF TypeOK
<1>3. Head(kinds) # "top" => maplst # <<>> /\ fenvlstlst # <<>>
  BY <1>1, <1>2, ShapePop
<1>4. Head(kinds) = "body" => Len(maplst) >= 2 /\ Len(fenvlstlst) >= 2
  <2> SUFFICES ASSUME Head(kinds) = "body"
               PROVE  Len(maplst) >= 2 /\ Len(fenvlstlst) >= 2
    OBVIOUS
  <2>1. /\ maplst # <<>> /\ fenvlstlst # <<>>
        /\ Shape(Tail(kinds), Tail(maplst), Tail(fenvlstlst))
        /\ Head(Tail(kinds)) = "head"
    BY <1>1, <1>2, ShapePop
  <2>2. /\ Tail(maplst) \in Seq(Map) /\ Tail(fenvlstlst) \in Seq(Seq(File))
        /\ Len(Tail(maplst)) = Len(maplst) - 1
        /\ Len(Tail(fenvlstlst)) = Len(fenvlstlst) - 1
    BY <1>2, <2>1, TailFacts
  <2>3. Tail(kinds) \in Seq(Kind)
    <3>1. kinds # <<>>
      BY <1>1, <1>2 DEF Shape
    <3>2. QED
      BY <1>2, <3>1, TailFacts
  <2>4. Tail(maplst) # <<>> /\ Tail(fenvlstlst) # <<>>
    BY <2>1, <2>2, <2>3, ShapePop
  <2>5. PICK p \in Nat : p = Len(maplst)
    BY <1>2, LenProperties
  <2>6. PICK q \in Nat : q = Len(fenvlstlst)
    BY <1>2, LenProperties
  <2>7. p # 0 /\ q # 0
    BY <1>2, <2>1, <2>5, <2>6
  <2>8. p - 1 # 0 /\ q - 1 # 0
    <3>1. Len(Tail(maplst)) = p - 1 /\ Len(Tail(fenvlstlst)) = q - 1
      BY <2>2, <2>5, <2>6
    <3>2. Len(Tail(maplst)) # 0 /\ Len(Tail(fenvlstlst)) # 0
      BY <2>2, <2>4, EmptySeq
    <3>3. QED
      BY <3>1, <3>2
  <2>9. p >= 2 /\ q >= 2
    BY <2>7, <2>8
  <2>10. QED
    BY <2>5, <2>6, <2>9
<1>5. callers # <<>> => savedlst # <<>> /\ nsaved # <<>>
  BY <1>2 DEF Aligned
<1>6. Head(kinds) = "top" => maplst = <<>>
  <2>1. kinds # <<>>
    BY <1>1, <1>2 DEF Shape
  <2>2. Head(kinds) = kinds[1] /\ 1 \in DOMAIN kinds
    BY <1>2, <2>1, TailFacts
  <2>3. Head(kinds) = "top" => Len(kinds) = 1
    BY <1>1, <2>2 DEF Shape
  <2>4. QED
    BY <1>1, <1>2, <2>3 DEF Shape
<1>7. QED
  BY <1>3, <1>4, <1>5, <1>6 DEF StacksSuffice

-----------------------------------------------------------------------------
(* Type correctness.                                                       *)

\* The stamp of a declaration is within the bound.
LEMMA DeclType ==
  ASSUME NEW tag \in {"d2cst", "d2var"}, ndecls \in 0..MaxDecls
  PROVE  <<tag, ndecls>> \in Decl
BY NamesAssumption DEF Decl

\* The maps that lead to files of L.
MapTo(L) == [Name -> Decl \cup L \cup {NoItem}]

\* MapTo(L) is closed under all that is done to maps.
LEMMA MapToFacts ==
  ASSUME NEW L
  PROVE  /\ Nil \in MapTo(L)
         /\ \A m2, m0 \in MapTo(L) : Join(m2, m0) \in MapTo(L)
         /\ \A m \in MapTo(L) : Public(m) \in MapTo(L)
         /\ \A m \in MapTo(L), n \in Name, x \in Decl \cup L :
                [m EXCEPT ![n] = x] \in MapTo(L)
         /\ MapTo(File) = Map
BY DEF MapTo, Nil, Join, Public, Map, Maybe, Item

\* The environments, with the files they lead to.
Typed(L) ==
    /\ map \in MapTo(L) /\ maplst \in Seq(MapTo(L)) /\ pervasive \in MapTo(L)
    /\ savedlst \in Seq([map : MapTo(L), maplst : Seq(MapTo(L))])
    /\ fenvlst \in Seq(L) /\ fenvlstlst \in Seq(Seq(L))
    /\ nsaved \in Seq([cur : Seq(L), lst : Seq(Seq(L))])
    /\ filenvmap \in [File -> SUBSET MapTo(L)]

ControlTyped ==
    /\ kinds \in Seq(Kind) /\ file \in File \cup {Main}
    /\ callers \in Seq([kinds : Seq(Kind), file : File \cup {Main}])
    /\ started \in BOOLEAN /\ ndecls \in 0..MaxDecls

Loaded == {f \in File : filenvmap[f] # {}}

\* TypeOK in two parts: what holds names of files, and the rest.
LEMMA TypeParts == TypeOK <=> Typed(File) /\ ControlTyped
BY MapToFacts DEF TypeOK, Typed, ControlTyped

\* The lengths that allow two heads to be taken.
LEMMA TwoFacts ==
  ASSUME NEW S, NEW s \in Seq(S), Len(s) >= 2
  PROVE  /\ s # <<>> /\ Tail(s) # <<>>
         /\ s[2] \in S /\ Head(Tail(s)) = s[2]
         /\ Tail(Tail(s)) \in Seq(S)
<1>1. s # <<>>
  OBVIOUS
<1>2. PICK p \in Nat : p = Len(s)
  BY LenProperties
<1>3. Tail(s) \in Seq(S) /\ Len(Tail(s)) = p - 1
  BY <1>1, <1>2, TailFacts
<1>4. p >= 2 /\ p - 1 # 0 /\ 1 \in 1..(p - 1) /\ 2 \in 1..p /\ 1 + 1 = 2
  BY <1>2
<1>5. Tail(s) # <<>>
  BY <1>3, <1>4
<1>6. Tail(s)[1] = s[1 + 1]
  BY <1>1, <1>2, <1>4, TailFacts
<1>7. s[2] \in S
  BY <1>2, <1>4, ElementOfSeq
<1>8. QED
  BY <1>1, <1>3, <1>4, <1>5, <1>6, <1>7, TailFacts

\* The environments are empty before the prelude is loaded.
LEMMA TypeInit == Init => TypeOK
<1> SUFFICES ASSUME Init PROVE TypeOK
  OBVIOUS
<1>1. map \in Map /\ maplst \in Seq(Map) /\ pervasive \in Map
  BY MapFacts DEF Init
<1>2. /\ savedlst \in Seq([map : Map, maplst : Seq(Map)])
      /\ nsaved \in Seq([cur : Seq(File), lst : Seq(Seq(File))])
      /\ callers \in Seq([kinds : Seq(Kind), file : File \cup {Main}])
  BY EmptySeq DEF Init
<1>3. fenvlst \in Seq(File) /\ fenvlstlst \in Seq(Seq(File))
  BY EmptySeq DEF Init
<1>4. filenvmap \in [File -> SUBSET Map]
  BY DEF Init
<1>5. kinds \in Seq(Kind)
  BY DEF Init, Kind
<1>6. ndecls \in 0..MaxDecls
  BY NamesAssumption DEF Init
<1>7. QED
  BY <1>1, <1>2, <1>3, <1>4, <1>5, <1>6 DEF Init, TypeOK


\* The part of TypeOK about the constructs being translated.
LEMMA ControlStep ==
  ASSUME TypeOK, Aligned, Phase, Next
  PROVE  ControlTyped'
<1>1. StacksSuffice /\ Shape(kinds, maplst, fenvlstlst)
  BY Suffice DEF Aligned
<1> DEFINE CC == [kinds : Seq(Kind), file : File \cup {Main}]
<1>2. /\ kinds \in Seq(Kind) /\ file \in File \cup {Main} /\ callers \in Seq(CC)
      /\ started \in BOOLEAN /\ ndecls \in 0..MaxDecls
      /\ maplst \in Seq(Map) /\ fenvlstlst \in Seq(Seq(File))
  BY DEF TypeOK
<1>3. kinds # <<>> /\ Tail(kinds) \in Seq(Kind)
  <2>1. kinds # <<>>
    BY <1>1, <1>2 DEF Shape
  <2>2. QED
    BY <1>2, <2>1, TailFacts
<1>4. \A k \in Kind : Within(k) => kinds' \in Seq(Kind)
  BY <1>2, ConsFacts DEF Within
<1>5. More => ndecls' \in 0..MaxDecls
  BY <1>2, NamesAssumption DEF More
<1>6. ASSUME UNCHANGED <<kinds, file, callers, started>>,
             More \/ UNCHANGED ndecls
      PROVE  ControlTyped'
  BY <1>2, <1>5, <1>6 DEF ControlTyped
<1>7. ASSUME NEW k \in Kind, Within(k), file' \in File \cup {Main},
             UNCHANGED <<callers, started>>, More \/ UNCHANGED ndecls
      PROVE  ControlTyped'
  BY <1>2, <1>4, <1>5, <1>7 DEF ControlTyped
<1>8. CASE Let \/ Local \/ LocalIn
  BY <1>2, <1>7, <1>8 DEF Let, Local, LocalIn, Kind
<1>9. CASE LetEnd
  BY <1>2, <1>3, <1>9 DEF LetEnd, Leave, ControlTyped
<1>10. CASE LocalEnd
  <2>1. Tail(kinds) # <<>>
    <3>1. Shape(Tail(kinds), Tail(maplst), Tail(fenvlstlst)) /\ maplst # <<>>
      BY <1>1, <1>2, <1>10, ShapePop DEF LocalEnd, Leave
    <3>2. PICK p \in Nat : p = Len(Tail(maplst))
      BY <1>2, <3>1, TailFacts, LenProperties
    <3>3. Len(Tail(kinds)) = p + 1
      BY <3>1, <3>2 DEF Shape
    <3>4. Len(Tail(kinds)) # 0
      <4>1. p + 1 # 0
        OBVIOUS
      <4>2. QED
        BY <3>3, <4>1
    <3>5. QED
      BY <1>3, <3>4, EmptySeq
  <2>2. Tail(Tail(kinds)) \in Seq(Kind)
    BY <1>3, <2>1, TailFacts
  <2>3. QED
    BY <1>2, <1>10, <2>2 DEF LocalEnd, Leave, ControlTyped
<1>11. ASSUME NEW f \in File, Staload(f) PROVE ControlTyped'
  <2>1. [kinds |-> kinds, file |-> file] \in CC
    BY <1>2
  <2>2. callers' \in Seq(CC)
    <3> HIDE DEF CC
    <3>1. QED
      BY <1>2, <1>11, <2>1, ConsFacts DEF Staload
  <2>3. <<"top">> \in Seq(Kind)
    BY DEF Kind
  <2>4. QED
    BY <1>2, <1>5, <1>11, <2>2, <2>3 DEF Staload, ControlTyped
<1>12. ASSUME StaloadEnd PROVE ControlTyped'
  <2>1. Head(callers) \in CC /\ Tail(callers) \in Seq(CC)
    <3> HIDE DEF CC
    <3>1. QED
      BY <1>2, <1>12, TailFacts DEF StaloadEnd
  <2>2. QED
    BY <1>2, <1>12, <2>1 DEF StaloadEnd, ControlTyped
<1>13. ASSUME NEW f \in File, Prelude(f) PROVE ControlTyped'
  BY <1>7, <1>13 DEF Prelude, Kind
<1>14. CASE PreludeEnd
  BY <1>2, <1>3, <1>14 DEF PreludeEnd, Leave, ControlTyped
<1>15. CASE Start
  BY <1>2, <1>15 DEF Start, ControlTyped
<1>16. QED
  BY <1>6, <1>8, <1>9, <1>10, <1>11, <1>12, <1>13, <1>14, <1>15
  DEF Next, Declare, StaloadEndOpen, StaloadEndNamed, StaloadAgainOpen,
      StaloadAgainNamed, OpenName, AliasName, namespace_add, namespace_name, control

\* The environments, where L has the files that are loaded after the step.
LEMMA TypedStep ==
  ASSUME TypeOK, Aligned, Phase, Next, NEW L, Typed(L),
         L \subseteq File, Loaded \subseteq L, Loaded' \subseteq L,
         \A n \in Name : Find(n) \in File => Find(n) \in L
  PROVE  Typed(L)'
<1>1. StacksSuffice
  BY Suffice
<1> USE DEF Typed
<1>2. trans2_env_push =>
        /\ map' \in MapTo(L) /\ maplst' \in Seq(MapTo(L))
        /\ fenvlst' \in Seq(L) /\ fenvlstlst' \in Seq(Seq(L))
  <2>1. <<map>> \o maplst \in Seq(MapTo(L)) /\ <<fenvlst>> \o fenvlstlst \in Seq(Seq(L))
    BY ConsFacts
  <2>2. <<>> \in Seq(L)
    BY EmptySeq
  <2>3. QED
    BY <2>1, <2>2, MapToFacts DEF trans2_env_push, SymenvPush, NamespacePush
<1>3. ASSUME NEW n \in Name, NEW tag \in {"d2cst", "d2var"}, Declare(n, tag)
      PROVE  Typed(L)'
  <2>1. <<tag, ndecls>> \in Decl
    BY DeclType DEF TypeOK
  <2>2. map' \in MapTo(L)
    BY <1>3, <2>1, MapToFacts DEF Declare
  <2>3. QED
    BY <1>3, <2>2 DEF Declare, namespace
<1>4. ASSUME trans2_env_push, UNCHANGED filenvmap PROVE Typed(L)'
  BY <1>2, <1>4 DEF trans2_env_push
<1>5. CASE Let \/ Local \/ LocalIn
  BY <1>4, <1>5 DEF Let, Local, LocalIn
<1>6. CASE LetEnd
  <2>1. maplst # <<>> /\ fenvlstlst # <<>>
    BY <1>1, <1>6 DEF LetEnd, Leave, StacksSuffice
  <2>2. map' \in MapTo(L) /\ maplst' \in Seq(MapTo(L))
    BY <1>6, <2>1, TailFacts DEF LetEnd, trans2_env_pop, SymenvPop
  <2>3. fenvlst' \in Seq(L) /\ fenvlstlst' \in Seq(Seq(L))
    BY <1>6, <2>1, TailFacts DEF LetEnd, trans2_env_pop, NamespacePop
  <2>4. QED
    BY <1>6, <2>2, <2>3 DEF LetEnd, trans2_env_pop
<1>7. CASE LocalEnd
  <2>1. Len(maplst) >= 2 /\ Len(fenvlstlst) >= 2
    BY <1>1, <1>7 DEF LocalEnd, Leave, StacksSuffice
  <2>2. map' \in MapTo(L) /\ maplst' \in Seq(MapTo(L))
    BY <1>7, <2>1, TwoFacts, MapToFacts
    DEF LocalEnd, trans2_env_localjoin, SymenvLocalJoin
  <2>3. fenvlst' \in Seq(L) /\ fenvlstlst' \in Seq(Seq(L))
    BY <1>7, <2>1, TwoFacts, ConcatProperties
    DEF LocalEnd, trans2_env_localjoin, NamespaceLocalJoin
  <2>4. QED
    BY <1>7, <2>2, <2>3 DEF LocalEnd, trans2_env_localjoin
<1>8. ASSUME NEW f \in File, Staload(f)
      PROVE  Typed(L)'
  <2>1. savedlst' \in Seq([map : MapTo(L), maplst : Seq(MapTo(L))])
    <3>1. [map |-> map, maplst |-> maplst] \in [map : MapTo(L), maplst : Seq(MapTo(L))]
      OBVIOUS
    <3>2. QED
      BY <1>8, <3>1, ConsFacts DEF Staload, trans2_env_save
  <2>2. nsaved' \in Seq([cur : Seq(L), lst : Seq(Seq(L))])
    <3>1. [cur |-> fenvlst, lst |-> fenvlstlst] \in [cur : Seq(L), lst : Seq(Seq(L))]
      OBVIOUS
    <3>2. QED
      BY <1>8, <3>1, ConsFacts DEF Staload, trans2_env_save
  <2>3. <<>> \in Seq(MapTo(L)) /\ <<>> \in Seq(L) /\ <<>> \in Seq(Seq(L))
    BY EmptySeq
  <2>4. QED
    BY <1>8, <2>1, <2>2, <2>3, MapToFacts DEF Staload, trans2_env_save
<1>9. ASSUME StaloadEnd
      PROVE  /\ Head(savedlst) \in [map : MapTo(L), maplst : Seq(MapTo(L))]
             /\ Tail(savedlst) \in Seq([map : MapTo(L), maplst : Seq(MapTo(L))])
             /\ Head(nsaved) \in [cur : Seq(L), lst : Seq(Seq(L))]
             /\ Tail(nsaved) \in Seq([cur : Seq(L), lst : Seq(Seq(L))])
             /\ file \in L
  <2>1. callers # <<>> /\ savedlst # <<>> /\ nsaved # <<>>
    BY <1>1, <1>9 DEF StaloadEnd, StacksSuffice
  <2>2. /\ Head(savedlst) \in [map : MapTo(L), maplst : Seq(MapTo(L))]
        /\ Tail(savedlst) \in Seq([map : MapTo(L), maplst : Seq(MapTo(L))])
    <3>1. PICK R : R = [map : MapTo(L), maplst : Seq(MapTo(L))]
      OBVIOUS
    <3>2. savedlst \in Seq(R)
      BY <3>1
    <3>3. Head(savedlst) \in R /\ Tail(savedlst) \in Seq(R)
      BY <2>1, <3>2, TailFacts
    <3>4. QED
      BY <3>1, <3>3
  <2>3. /\ Head(nsaved) \in [cur : Seq(L), lst : Seq(Seq(L))]
        /\ Tail(nsaved) \in Seq([cur : Seq(L), lst : Seq(Seq(L))])
    <3>1. PICK R : R = [cur : Seq(L), lst : Seq(Seq(L))]
      OBVIOUS
    <3>2. nsaved \in Seq(R)
      BY <3>1
    <3>3. Head(nsaved) \in R /\ Tail(nsaved) \in Seq(R)
      BY <2>1, <3>2, TailFacts
    <3>4. QED
      BY <3>1, <3>3
  <2>4. file \in L
    <3>1. file \in File
      BY <2>1 DEF Phase
    <3>2. filenvmap' = [filenvmap EXCEPT ![file] = {map}]
      BY <1>9 DEF StaloadEnd
    <3>3. filenvmap'[file] = {map}
      BY <3>1, <3>2
    <3>4. QED
      BY <3>1, <3>3 DEF Loaded
  <2>5. QED
    BY <2>2, <2>3, <2>4
<1>10. ASSUME StaloadEnd, fenvlst' \in Seq(L), map' \in MapTo(L)
       PROVE  Typed(L)'
  <2>1. filenvmap' \in [File -> SUBSET MapTo(L)]
    BY <1>10 DEF StaloadEnd
  <2>2. QED
    BY <1>9, <1>10, <2>1 DEF StaloadEnd
<1>11. CASE StaloadEndOpen
  <2>1. <<file>> \o Head(nsaved).cur \in Seq(L)
    BY <1>9, <1>11, ConsFacts DEF StaloadEndOpen
  <2>2. QED
    BY <1>9, <1>10, <1>11, <2>1 DEF StaloadEndOpen
<1>12. ASSUME NEW n \in Name, StaloadEndNamed(n)
       PROVE  Typed(L)'
  <2>1. [Head(savedlst).map EXCEPT ![n] = file] \in MapTo(L)
    BY <1>9, <1>12, MapToFacts DEF StaloadEndNamed
  <2>2. QED
    BY <1>9, <1>10, <1>12, <2>1 DEF StaloadEndNamed
<1>13. ASSUME NEW f \in L, namespace_add(f)
       PROVE  Typed(L)'
  <2>1. fenvlst' \in Seq(L)
    BY <1>13, ConsFacts DEF namespace_add
  <2>2. QED
    BY <1>13, <2>1 DEF namespace_add, symenv
<1>14. ASSUME NEW f \in File, StaloadAgainOpen(f)
       PROVE  Typed(L)'
  BY <1>13, <1>14 DEF StaloadAgainOpen, Loaded
<1>15. ASSUME NEW f \in L, NEW n \in Name, namespace_name(f, n)
       PROVE  Typed(L)'
  <2>1. map' \in MapTo(L)
    BY <1>15, MapToFacts DEF namespace_name
  <2>2. QED
    BY <1>15, <2>1 DEF namespace_name, namespace
<1>16. ASSUME NEW n \in Name, OpenName(n)
       PROVE  Typed(L)'
  BY <1>13, <1>16 DEF OpenName
<1>17. ASSUME NEW f \in File, NEW n \in Name, StaloadAgainNamed(f, n)
       PROVE  Typed(L)'
  BY <1>15, <1>17 DEF StaloadAgainNamed, Loaded
<1>18. ASSUME NEW n \in Name, NEW m \in Name, AliasName(n, m)
       PROVE  Typed(L)'
  BY <1>15, <1>18 DEF AliasName
<1>19. ASSUME NEW f \in File, Prelude(f)
       PROVE  Typed(L)'
  BY <1>4, <1>19 DEF Prelude
<1>20. CASE PreludeEnd
  <2>1. maplst # <<>>
    BY <1>1, <1>20 DEF PreludeEnd, Leave, StacksSuffice
  <2>2. map' \in MapTo(L) /\ maplst' \in Seq(MapTo(L))
    BY <1>20, <2>1, TailFacts DEF PreludeEnd, SymenvPop
  <2>3. pervasive' \in MapTo(L)
    BY <1>20, MapToFacts DEF PreludeEnd
  <2>4. filenvmap' \in [File -> SUBSET MapTo(L)]
    BY <1>20 DEF PreludeEnd
  <2>5. QED
    BY <1>20, <2>2, <2>3, <2>4 DEF PreludeEnd, namespace
<1>21. CASE Start
  BY <1>21 DEF Start, symenv, namespace
<1>22. QED
  BY <1>3, <1>5, <1>6, <1>7, <1>8, <1>11, <1>12, <1>14, <1>16, <1>17, <1>18,
     <1>19, <1>20, <1>21 DEF Next

\* TypeOK is preserved by every operation on the environments.
LEMMA TypeStep ==
  ASSUME TypeOK, Aligned, Phase, Next
  PROVE  TypeOK'
<1>1. Typed(File)'
  <2>1. Typed(File) /\ Loaded \subseteq File /\ Loaded' \subseteq File
    BY TypeParts DEF Loaded
  <2>2. QED
    BY <2>1, TypedStep
<1>2. ControlTyped'
  BY ControlStep
<1>3. TypeOK' <=> Typed(File)' /\ ControlTyped'
  BY TypeParts, PTL
<1>4. QED
  BY <1>1, <1>2, <1>3

-----------------------------------------------------------------------------
(* The stacks stay aligned.                                                *)

\* A position in a list that has been pushed on is the first, or an old one.
LEMMA ConsCases ==
  ASSUME NEW S, NEW x \in S, NEW s \in Seq(S), NEW i \in DOMAIN (<<x>> \o s)
  PROVE  i = 1 \/ \E j \in 1..Len(s) : i = j + 1
<1>1. PICK p \in Nat : p = Len(s)
  BY LenProperties
<1>2. i \in 1..(p + 1)
  BY <1>1, ConsFacts
<1>3. CASE i # 1
  <2>1. i - 1 \in 1..p /\ i = (i - 1) + 1
    BY <1>2, <1>3
  <2>2. QED
    BY <1>1, <2>1
<1>4. QED
  BY <1>3

\* A position in a list that has been popped is an old one.
LEMMA TailCases ==
  ASSUME NEW S, NEW s \in Seq(S), s # <<>>, NEW i \in DOMAIN Tail(s)
  PROVE  i \in Nat /\ i + 1 \in DOMAIN s /\ i + 1 # 1
         /\ i + 1 <= Len(s) /\ Tail(s)[i] = s[i + 1]
<1>1. PICK p \in Nat : p = Len(s)
  BY LenProperties
<1>2. i \in 1..(p - 1) /\ p - 1 = Len(s) - 1
  <2>1. Tail(s) \in Seq(S) /\ Len(Tail(s)) = p - 1
    BY <1>1, TailFacts
  <2>2. QED
    BY <1>1, <2>1, LenProperties
<1>3. i + 1 \in 1..p /\ i \in Nat /\ i + 1 # 1 /\ i + 1 <= p
  BY <1>2
<1>4. QED
  BY <1>1, <1>2, <1>3, TailFacts, LenProperties

\* The environments that are set aside by trans2_env_save keep their shape.
SavedAligned ==
    /\ Len(savedlst) = Len(callers) /\ Len(nsaved) = Len(callers)
    /\ \A i \in DOMAIN callers :
           /\ Shape(callers[i].kinds, savedlst[i].maplst, nsaved[i].lst)
           /\ NoPrelude(callers[i].kinds)

\* What is saved stays aligned where nothing is saved or restored.
LEMMA SavedAlignedSame ==
  ASSUME Aligned, UNCHANGED <<savedlst, callers, nsaved>>
  PROVE  SavedAligned'
BY DEF Aligned, SavedAligned

\* the_trans2_env_save puts aligned stacks aside.
LEMMA SavedAlignedSave ==
  ASSUME TypeOK, Aligned, Phase, NEW f \in File, Staload(f)
  PROVE  SavedAligned'
<1>1. PICK s : s = [map |-> map, maplst |-> maplst]
  OBVIOUS
<1>2. PICK m : m = [cur |-> fenvlst, lst |-> fenvlstlst]
  OBVIOUS
<1>3. PICK c : c = [kinds |-> kinds, file |-> file]
  OBVIOUS
<1> DEFINE SS == [map : Map, maplst : Seq(Map)]
           NN == [cur : Seq(File), lst : Seq(Seq(File))]
           CC == [kinds : Seq(Kind), file : File \cup {Main}]
<1>4. s \in SS /\ savedlst \in Seq(SS) /\ savedlst' = <<s>> \o savedlst /\ s.maplst = maplst
  BY <1>1 DEF Staload, trans2_env_save, TypeOK
<1>5. m \in NN /\ nsaved \in Seq(NN) /\ nsaved' = <<m>> \o nsaved /\ m.lst = fenvlstlst
  BY <1>2 DEF Staload, trans2_env_save, TypeOK
<1>6. c \in CC /\ callers \in Seq(CC) /\ callers' = <<c>> \o callers /\ c.kinds = kinds
  BY <1>3 DEF Staload, TypeOK
<1> HIDE DEF SS, NN, CC
<1>7. PICK p \in Nat : p = Len(callers)
  BY <1>6, LenProperties
<1>8. /\ Len(savedlst) = p /\ Len(nsaved) = p
      /\ \A i \in 1..p : /\ Shape(callers[i].kinds, savedlst[i].maplst, nsaved[i].lst)
                         /\ NoPrelude(callers[i].kinds)
      /\ Shape(kinds, maplst, fenvlstlst)
  BY <1>6, <1>7 DEF Aligned
<1>9. Len(savedlst') = p + 1 /\ Len(nsaved') = p + 1 /\ Len(callers') = p + 1
  BY <1>4, <1>5, <1>6, <1>7, <1>8, ConsFacts
<1>10. NoPrelude(kinds)
  BY DEF Staload, Phase
<1>11. ASSUME NEW i \in DOMAIN callers'
       PROVE  /\ Shape(callers'[i].kinds, savedlst'[i].maplst, nsaved'[i].lst)
              /\ NoPrelude(callers'[i].kinds)
  <2>1. CASE i = 1
    <3>1. savedlst'[i] = s /\ nsaved'[i] = m /\ callers'[i] = c
      BY <1>4, <1>5, <1>6, <2>1, ConsFacts
    <3>2. QED
      BY <1>4, <1>5, <1>6, <1>8, <1>10, <3>1
  <2>2. ASSUME NEW j \in 1..p, i = j + 1
        PROVE  /\ Shape(callers'[i].kinds, savedlst'[i].maplst, nsaved'[i].lst)
               /\ NoPrelude(callers'[i].kinds)
    <3>1. savedlst'[i] = savedlst[j] /\ nsaved'[i] = nsaved[j] /\ callers'[i] = callers[j]
      BY <1>4, <1>5, <1>6, <1>7, <1>8, <2>2, ConsFacts
    <3>2. QED
      BY <1>8, <3>1
  <2>3. i = 1 \/ \E j \in 1..p : i = j + 1
    BY <1>6, <1>7, ConsCases
  <2>4. QED
    BY <2>1, <2>2, <2>3
<1>12. QED
  BY <1>9, <1>11 DEF SavedAligned

\* the_trans2_env_restore brings aligned stacks back.
LEMMA SavedAlignedRestore ==
  ASSUME TypeOK, Aligned, StaloadEnd
  PROVE  SavedAligned' /\ Shape(kinds, maplst, fenvlstlst)' /\ NoPrelude(kinds)'
<1> DEFINE SS == [map : Map, maplst : Seq(Map)]
           NN == [cur : Seq(File), lst : Seq(Seq(File))]
           CC == [kinds : Seq(Kind), file : File \cup {Main}]
<1>1. savedlst \in Seq(SS) /\ nsaved \in Seq(NN) /\ callers \in Seq(CC)
  BY DEF TypeOK
<1> HIDE DEF SS, NN, CC
<1>2. PICK p \in Nat : p = Len(callers)
  BY <1>1, LenProperties
<1>3. /\ Len(savedlst) = p /\ Len(nsaved) = p
      /\ \A i \in 1..p : /\ Shape(callers[i].kinds, savedlst[i].maplst, nsaved[i].lst)
                         /\ NoPrelude(callers[i].kinds)
  BY <1>1, <1>2 DEF Aligned
<1>4. callers # <<>> /\ p # 0
  BY <1>1, <1>2, EmptySeq DEF StaloadEnd
<1>5. savedlst # <<>> /\ nsaved # <<>>
  BY <1>1, <1>3, <1>4
<1>6. /\ savedlst' = Tail(savedlst) /\ nsaved' = Tail(nsaved) /\ callers' = Tail(callers)
      /\ maplst' = savedlst[1].maplst /\ fenvlstlst' = nsaved[1].lst
      /\ kinds' = callers[1].kinds
  BY <1>1, <1>4, <1>5, TailFacts DEF StaloadEnd
<1>7. 1 \in 1..p
  BY <1>4
<1>8. Shape(kinds, maplst, fenvlstlst)' /\ NoPrelude(kinds)'
  BY <1>3, <1>6, <1>7
<1>9. Len(savedlst') = p - 1 /\ Len(nsaved') = p - 1 /\ Len(callers') = p - 1
  BY <1>1, <1>2, <1>3, <1>4, <1>5, <1>6, TailFacts
<1>10. ASSUME NEW i \in DOMAIN callers'
       PROVE  /\ Shape(callers'[i].kinds, savedlst'[i].maplst, nsaved'[i].lst)
              /\ NoPrelude(callers'[i].kinds)
  <2>1. i + 1 \in 1..p /\ callers'[i] = callers[i + 1]
    BY <1>1, <1>2, <1>4, <1>6, TailCases, LenProperties
  <2>2. i \in DOMAIN savedlst' /\ i \in DOMAIN nsaved'
    <3>1. /\ savedlst' \in Seq(SS) /\ nsaved' \in Seq(NN) /\ callers' \in Seq(CC)
      BY <1>1, <1>4, <1>5, <1>6, TailFacts
    <3>2. QED
      BY <1>9, <3>1, LenProperties
  <2>3. savedlst'[i] = savedlst[i + 1] /\ nsaved'[i] = nsaved[i + 1]
    BY <1>1, <1>5, <1>6, <2>2, TailCases
  <2>4. QED
    BY <1>3, <2>1, <2>3
<1>11. QED
  BY <1>8, <1>9, <1>10 DEF SavedAligned

\* Scopes other than the prelude's may be entered.
LEMMA NoPreludePush ==
  ASSUME NEW ks \in Seq(Kind), NoPrelude(ks), NEW k \in Kind, k # "prelude"
  PROVE  NoPrelude(<<k>> \o ks)
<1> SUFFICES ASSUME NEW i \in DOMAIN (<<k>> \o ks) PROVE (<<k>> \o ks)[i] # "prelude"
  BY DEF NoPrelude
<1>1. PICK p \in Nat : p = Len(ks) /\ DOMAIN ks = 1..p
  BY LenProperties
<1>2. (<<k>> \o ks)[1] = k /\ \A j \in 1..p : (<<k>> \o ks)[j + 1] = ks[j]
  BY <1>1, ConsFacts
<1>3. i = 1 \/ \E j \in 1..p : i = j + 1
  BY <1>1, ConsCases
<1>4. QED
  BY <1>1, <1>2, <1>3 DEF NoPrelude

\* Leaving a scope does not enter the prelude.
LEMMA NoPreludePop ==
  ASSUME NEW ks \in Seq(Kind), ks # <<>>, NoPrelude(ks)
  PROVE  NoPrelude(Tail(ks))
<1> SUFFICES ASSUME NEW i \in DOMAIN Tail(ks) PROVE Tail(ks)[i] # "prelude"
  BY DEF NoPrelude
<1>1. i + 1 \in DOMAIN ks /\ Tail(ks)[i] = ks[i + 1]
  BY TailCases
<1>2. QED
  BY <1>1 DEF NoPrelude

\* Aligned is preserved by every operation on the environments.
LEMMA AlignedStep ==
  ASSUME TypeOK, Aligned, Phase, Next
  PROVE  Aligned'
<1> USE DEF TypeOK
<1>1. Shape(kinds, maplst, fenvlstlst) /\ StacksSuffice
  BY Suffice DEF Aligned
<1>2. Aligned' <=> Shape(kinds, maplst, fenvlstlst)' /\ SavedAligned'
  BY DEF Aligned, SavedAligned
<1>3. ASSUME NEW k \in Kind \ {"top"}, k = "body" => Head(kinds) = "head",
             Within(k), trans2_env_push
      PROVE  Shape(kinds, maplst, fenvlstlst)'
  <2>1. Shape(<<k>> \o kinds, <<map>> \o maplst, <<fenvlst>> \o fenvlstlst)
    BY <1>1, <1>3, ShapePush
  <2>2. QED
    BY <1>3, <2>1 DEF Within, trans2_env_push, SymenvPush, NamespacePush
<1>4. ASSUME UNCHANGED <<kinds, maplst, fenvlstlst, savedlst, callers, nsaved>>
      PROVE  Aligned'
  BY <1>1, <1>2, <1>4, SavedAlignedSame
<1>5. ASSUME NEW n \in Name, NEW tag \in {"d2cst", "d2var"}, Declare(n, tag)
      PROVE  Aligned'
  BY <1>4, <1>5 DEF Declare, namespace, control
<1>6. CASE Let
  <2>1. Shape(kinds, maplst, fenvlstlst)'
    BY <1>3, <1>6 DEF Let, Kind
  <2>2. SavedAligned'
    BY <1>6, SavedAlignedSame DEF Let, trans2_env_push
  <2>3. QED
    BY <1>2, <2>1, <2>2
<1>7. CASE LetEnd
  <2>1. Shape(Tail(kinds), Tail(maplst), Tail(fenvlstlst))
    BY <1>1, <1>7, ShapePop DEF LetEnd, Leave
  <2>2. Shape(kinds, maplst, fenvlstlst)'
    BY <1>7, <2>1 DEF LetEnd, Leave, trans2_env_pop, SymenvPop, NamespacePop
  <2>3. SavedAligned'
    BY <1>7, SavedAlignedSame DEF LetEnd, trans2_env_pop
  <2>4. QED
    BY <1>2, <2>2, <2>3
<1>8. CASE Local
  <2>1. Shape(kinds, maplst, fenvlstlst)'
    BY <1>3, <1>8 DEF Local, Kind
  <2>2. SavedAligned'
    BY <1>8, SavedAlignedSame DEF Local, trans2_env_push
  <2>3. QED
    BY <1>2, <2>1, <2>2
<1>9. CASE LocalIn
  <2>1. Shape(kinds, maplst, fenvlstlst)'
    BY <1>3, <1>9 DEF LocalIn, Kind
  <2>2. SavedAligned'
    BY <1>9, SavedAlignedSame DEF LocalIn, trans2_env_push
  <2>3. QED
    BY <1>2, <2>1, <2>2
<1>10. CASE LocalEnd
  <2>1. Head(kinds) = "body"
    BY <1>10 DEF LocalEnd, Leave
  <2>2. /\ Shape(Tail(kinds), Tail(maplst), Tail(fenvlstlst))
        /\ Head(Tail(kinds)) = "head" /\ maplst # <<>> /\ fenvlstlst # <<>>
    BY <1>1, <2>1, ShapePop
  <2>3. kinds # <<>>
    BY <1>1 DEF Shape
  <2>4. /\ Tail(kinds) \in Seq(Kind) /\ Tail(maplst) \in Seq(Map)
        /\ Tail(fenvlstlst) \in Seq(Seq(File))
    BY <2>2, <2>3, TailFacts
  <2>5. Shape(Tail(Tail(kinds)), Tail(Tail(maplst)), Tail(Tail(fenvlstlst)))
    BY <2>2, <2>4, ShapePop
  <2>6. Shape(kinds, maplst, fenvlstlst)'
    BY <1>10, <2>5
    DEF LocalEnd, Leave, trans2_env_localjoin, SymenvLocalJoin, NamespaceLocalJoin
  <2>7. SavedAligned'
    BY <1>10, SavedAlignedSame DEF LocalEnd, trans2_env_localjoin
  <2>8. QED
    BY <1>2, <2>6, <2>7
<1>11. ASSUME NEW f \in File, Staload(f)
       PROVE  Aligned'
  <2>1. SavedAligned'
    BY <1>11, SavedAlignedSave
  <2>2. Shape(<<"top">>, <<>>, <<>>)
    BY DEF Shape
  <2>3. QED
    BY <1>2, <1>11, <2>1, <2>2 DEF Staload, trans2_env_save
<1>12. ASSUME StaloadEnd PROVE Aligned'
  BY <1>2, <1>12, SavedAlignedRestore
<1>13. ASSUME NEW f \in File, namespace_add(f) PROVE Aligned'
  BY <1>4, <1>13 DEF namespace_add, symenv, control
<1>14. ASSUME NEW f \in File, NEW n \in Name, namespace_name(f, n) PROVE Aligned'
  BY <1>4, <1>14 DEF namespace_name, namespace, control
<1>15. ASSUME NEW f \in File, Prelude(f) PROVE Aligned'
  <2>1. Shape(kinds, maplst, fenvlstlst)'
    BY <1>3, <1>15 DEF Prelude, Kind
  <2>2. SavedAligned'
    BY <1>15, SavedAlignedSame DEF Prelude, trans2_env_push
  <2>3. QED
    BY <1>2, <2>1, <2>2
<1>16. CASE PreludeEnd
  <2>1. Shape(Tail(kinds), Tail(maplst), fenvlstlst)
    BY <1>1, <1>16, ShapePop DEF PreludeEnd, Leave
  <2>2. Shape(kinds, maplst, fenvlstlst)'
    BY <1>16, <2>1 DEF PreludeEnd, Leave, SymenvPop, namespace
  <2>3. SavedAligned'
    BY <1>16, SavedAlignedSame DEF PreludeEnd, namespace
  <2>4. QED
    BY <1>2, <2>2, <2>3
<1>17. CASE Start
  BY <1>4, <1>17 DEF Start, symenv, namespace
<1>18. ASSUME NEW n \in Name, OpenName(n) PROVE Aligned'
  BY <1>13, <1>18 DEF OpenName
<1>19. ASSUME NEW f \in File, NEW n \in Name, StaloadAgainNamed(f, n) PROVE Aligned'
  BY <1>14, <1>19 DEF StaloadAgainNamed
<1>20. ASSUME NEW n \in Name, NEW m \in Name, AliasName(n, m) PROVE Aligned'
  BY <1>14, <1>20 DEF AliasName
<1>21. ASSUME NEW f \in File, StaloadAgainOpen(f) PROVE Aligned'
  BY <1>13, <1>21 DEF StaloadAgainOpen
<1>22. ASSUME NEW n \in Name, StaloadEndNamed(n) PROVE Aligned'
  BY <1>12, <1>22 DEF StaloadEndNamed
<1>23. CASE StaloadEndOpen
  BY <1>12, <1>23 DEF StaloadEndOpen
<1>24. QED
  BY <1>5, <1>6, <1>7, <1>8, <1>9, <1>10, <1>11, <1>15, <1>16, <1>17, <1>18,
     <1>19, <1>20, <1>21, <1>22, <1>23 DEF Next

-----------------------------------------------------------------------------
(* What the phases of the compiler allow.                                  *)

\* The files of the prelude are not nested.
LEMMA OnePreludePush ==
  ASSUME NEW ks \in Seq(Kind), NEW k \in Kind,
         (k # "prelude" /\ OnePrelude(ks)) \/ NoPrelude(ks)
  PROVE  OnePrelude(<<k>> \o ks)
<1>1. PICK p \in Nat : p = Len(ks) /\ DOMAIN ks = 1..p
  BY LenProperties
<1>2. PICK kk : kk = <<k>> \o ks
  OBVIOUS
<1>3. kk[1] = k /\ \A j \in 1..p : kk[j + 1] = ks[j]
  BY <1>1, <1>2, ConsFacts
<1>4. \A i \in DOMAIN kk : i = 1 \/ \E j \in 1..p : i = j + 1
  BY <1>1, <1>2, ConsCases
<1>5. ASSUME NEW i \in DOMAIN kk, NEW j \in DOMAIN kk, kk[i] = "prelude", kk[j] = "prelude"
      PROVE  i = j
  <2>1. CASE i = 1
    <3>1. NoPrelude(ks)
      BY <1>3, <1>5, <2>1
    <3>2. \A l \in 1..p : kk[l + 1] # "prelude"
      BY <1>1, <1>3, <3>1 DEF NoPrelude
    <3>3. QED
      BY <1>4, <1>5, <2>1, <3>2
  <2>2. CASE j = 1
    <3>1. NoPrelude(ks)
      BY <1>3, <1>5, <2>2
    <3>2. \A l \in 1..p : kk[l + 1] # "prelude"
      BY <1>1, <1>3, <3>1 DEF NoPrelude
    <3>3. QED
      BY <1>4, <1>5, <2>2, <3>2
  <2>3. ASSUME NEW i0 \in 1..p, NEW j0 \in 1..p, i = i0 + 1, j = j0 + 1
        PROVE  i = j
    <3>1. ks[i0] = "prelude" /\ ks[j0] = "prelude"
      BY <1>3, <1>5, <2>3
    <3>2. OnePrelude(ks)
      BY <1>1, <3>1 DEF NoPrelude
    <3>3. i0 = j0
      BY <1>1, <3>1, <3>2 DEF OnePrelude
    <3>4. QED
      BY <2>3, <3>3
  <2>4. QED
    BY <1>4, <2>1, <2>2, <2>3
<1>6. QED
  BY <1>2, <1>5 DEF OnePrelude

\* After the end of a file of the prelude none is being loaded.
LEMMA OnePreludePop ==
  ASSUME NEW ks \in Seq(Kind), ks # <<>>, OnePrelude(ks)
  PROVE  OnePrelude(Tail(ks)) /\ (Head(ks) = "prelude" => NoPrelude(Tail(ks)))
<1>1. \A i \in DOMAIN Tail(ks) :
        i \in Nat /\ i + 1 \in DOMAIN ks /\ i + 1 # 1 /\ Tail(ks)[i] = ks[i + 1]
  BY TailCases
<1>2. PICK t : t = Tail(ks)
  OBVIOUS
<1>3. \A i \in DOMAIN t :
        i \in Nat /\ i + 1 \in DOMAIN ks /\ i + 1 # 1 /\ t[i] = ks[i + 1]
  BY <1>1, <1>2
<1>4. ASSUME NEW i \in DOMAIN t, NEW j \in DOMAIN t, t[i] = "prelude", t[j] = "prelude"
      PROVE  i = j
  <2>1. i + 1 = j + 1
    BY <1>3, <1>4 DEF OnePrelude
  <2>2. i \in Nat /\ j \in Nat
    BY <1>3
  <2>3. QED
    BY <2>1, <2>2
<1>5. ASSUME Head(ks) = "prelude", NEW i \in DOMAIN t PROVE t[i] # "prelude"
  <2>1. ks[1] = "prelude" /\ 1 \in DOMAIN ks
    <3>1. 1 \in DOMAIN ks
      BY EmptySeq, LenProperties
    <3>2. QED
      BY <1>5, <3>1, TailFacts
  <2>2. QED
    BY <1>3, <1>5, <2>1 DEF OnePrelude
<1>6. QED
  BY <1>2, <1>4, <1>5 DEF OnePrelude, NoPrelude

\* While the prelude is loaded no namespace is opened.
LEMMA EmptyStacks ==
  ASSUME NEW fss \in Seq(Seq(File)), AllEmpty(fss)
  PROVE  /\ AllEmpty(<<<<>>>> \o fss)
         /\ fss # <<>> => Head(fss) = <<>> /\ AllEmpty(Tail(fss))
<1>1. ASSUME NEW i \in DOMAIN (<<<<>>>> \o fss) PROVE (<<<<>>>> \o fss)[i] = <<>>
  <2>1. <<>> \in Seq(File)
    BY EmptySeq
  <2>2. PICK p \in Nat : p = Len(fss) /\ DOMAIN fss = 1..p
    BY LenProperties
  <2>3. PICK gg : gg = <<<<>>>> \o fss
    OBVIOUS
  <2>4. gg[1] = <<>> /\ \A j \in 1..p : gg[j + 1] = fss[j]
    BY <2>1, <2>2, <2>3, ConsFacts
  <2>5. i = 1 \/ \E j \in 1..p : i = j + 1
    BY <2>1, <2>2, ConsCases
  <2>6. gg[i] = <<>>
    BY <2>2, <2>4, <2>5 DEF AllEmpty
  <2>7. QED
    BY <2>3, <2>6
<1>2. ASSUME fss # <<>> PROVE Head(fss) = <<>>
  <2>1. Head(fss) = fss[1] /\ 1 \in DOMAIN fss
    BY <1>2, TailFacts, EmptySeq, LenProperties
  <2>2. QED
    BY <2>1 DEF AllEmpty
<1>3. ASSUME fss # <<>>, NEW i \in DOMAIN Tail(fss) PROVE Tail(fss)[i] = <<>>
  <2>1. i + 1 \in DOMAIN fss /\ Tail(fss)[i] = fss[i + 1]
    BY <1>3, TailCases
  <2>2. QED
    BY <2>1 DEF AllEmpty
<1>4. QED
  BY <1>1, <1>2, <1>3 DEF AllEmpty

\* Phase is preserved by every operation on the environments.
LEMMA PhaseStep ==
  ASSUME TypeOK, Aligned, Phase, Next
  PROVE  Phase'
<1> USE DEF TypeOK
<1>1. StacksSuffice /\ kinds # <<>>
  BY Suffice DEF Aligned, Shape
<1> DEFINE Before == /\ fenvlst = <<>> /\ AllEmpty(fenvlstlst)
                     /\ file = Main => NoPrelude(kinds)
                     /\ OnePrelude(kinds)
<1>2. ASSUME UNCHANGED <<callers, started, file>>,
             started => NoPrelude(kinds)', ~started => Before'
      PROVE  Phase'
  BY <1>2 DEF Phase
<1>3. ASSUME NEW k \in Kind, k # "prelude", Within(k)
      PROVE  /\ NoPrelude(kinds) => NoPrelude(kinds)'
             /\ OnePrelude(kinds) => OnePrelude(kinds)'
  BY <1>3, NoPreludePush, OnePreludePush DEF Within
<1>4. ASSUME trans2_env_push, ~started
      PROVE  fenvlst' = <<>> /\ AllEmpty(fenvlstlst)'
  <2>1. fenvlst = <<>> /\ AllEmpty(fenvlstlst)
    BY <1>4 DEF Phase
  <2>2. AllEmpty(<<<<>>>> \o fenvlstlst)
    BY <2>1, EmptyStacks
  <2>3. QED
    BY <1>4, <2>1, <2>2 DEF trans2_env_push, NamespacePush
<1>5. ASSUME NEW k \in Kind, k # "prelude", Within(k), trans2_env_push,
             UNCHANGED <<callers, started, file>>
      PROVE  Phase'
  BY <1>2, <1>3, <1>4, <1>5 DEF Phase
<1>6. ASSUME UNCHANGED <<kinds, file, callers, started>>,
             started \/ UNCHANGED namespace
      PROVE  Phase'
  BY <1>6 DEF Phase, namespace
<1>7. ASSUME NEW n \in Name, NEW tag \in {"d2cst", "d2var"}, Declare(n, tag)
      PROVE  Phase'
  BY <1>6, <1>7 DEF Declare, control
<1>8. CASE Let
  BY <1>5, <1>8 DEF Let, Kind
<1>9. CASE LetEnd
  <2>1. kinds' = Tail(kinds) /\ fenvlstlst # <<>>
    BY <1>1, <1>9 DEF LetEnd, Leave, StacksSuffice
  <2>2. NoPrelude(kinds) => NoPrelude(kinds)'
    BY <1>1, <2>1, NoPreludePop
  <2>3. OnePrelude(kinds) => OnePrelude(kinds)'
    BY <1>1, <2>1, OnePreludePop
  <2>4. AllEmpty(fenvlstlst) => fenvlst' = <<>> /\ AllEmpty(fenvlstlst)'
    BY <1>9, <2>1, EmptyStacks DEF LetEnd, trans2_env_pop, NamespacePop
  <2>5. UNCHANGED <<callers, started, file>>
    BY <1>9 DEF LetEnd
  <2>6. QED
    BY <1>2, <2>2, <2>3, <2>4, <2>5 DEF Phase
<1>10. CASE Local
  BY <1>5, <1>10 DEF Local, Kind
<1>11. CASE LocalIn
  BY <1>5, <1>11 DEF LocalIn, Kind
<1>12. CASE LocalEnd
  <2>1. kinds' = Tail(Tail(kinds)) /\ Head(kinds) = "body" /\ Len(fenvlstlst) >= 2
    BY <1>1, <1>12 DEF LocalEnd, Leave, StacksSuffice
  <2>2. /\ Tail(kinds) \in Seq(Kind) /\ Tail(kinds) # <<>>
    <3>1. Shape(kinds, maplst, fenvlstlst)
      BY DEF Aligned
    <3>2. Shape(Tail(kinds), Tail(maplst), Tail(fenvlstlst))
      BY <2>1, <3>1, ShapePop
    <3>3. Tail(kinds) \in Seq(Kind)
      BY <1>1, TailFacts
    <3>4. maplst # <<>> /\ fenvlstlst # <<>>
      BY <2>1, <3>1, ShapePop
    <3>5. Tail(maplst) \in Seq(Map)
      BY <3>4, TailFacts
    <3>6. Tail(kinds) # <<>>
      <4>1. PICK p \in Nat : p = Len(Tail(maplst))
        BY <3>5, LenProperties
      <4>2. Len(Tail(kinds)) = p + 1
        BY <3>2, <4>1 DEF Shape
      <4>3. p + 1 # 0
        OBVIOUS
      <4>3a. Len(Tail(kinds)) # 0
        BY <4>2, <4>3
      <4>4. QED
        BY <3>3, <4>3a, EmptySeq
    <3>7. QED
      BY <3>3, <3>6
  <2>3. NoPrelude(kinds) => NoPrelude(kinds)'
    BY <1>1, <2>1, <2>2, NoPreludePop
  <2>4. OnePrelude(kinds) => OnePrelude(kinds)'
    BY <1>1, <2>1, <2>2, OnePreludePop
  <2>5. ASSUME fenvlst = <<>>, AllEmpty(fenvlstlst)
        PROVE  fenvlst' = <<>> /\ AllEmpty(fenvlstlst)'
    <3>1. /\ fenvlstlst # <<>> /\ Tail(fenvlstlst) # <<>>
          /\ fenvlstlst[2] = Head(Tail(fenvlstlst))
          /\ Tail(fenvlstlst) \in Seq(Seq(File))
      BY <2>1, TwoFacts, TailFacts
    <3>2. fenvlstlst[2] = <<>> /\ AllEmpty(Tail(Tail(fenvlstlst)))
      BY <2>5, <3>1, EmptyStacks
    <3>3. fenvlst' = <<>> \o <<>> /\ fenvlstlst' = Tail(Tail(fenvlstlst))
      BY <1>12, <2>5, <3>2 DEF LocalEnd, trans2_env_localjoin, NamespaceLocalJoin
    <3>4. <<>> \o <<>> = <<>>
      OBVIOUS
    <3>5. QED
      BY <3>2, <3>3, <3>4
  <2>6. UNCHANGED <<callers, started, file>>
    BY <1>12 DEF LocalEnd
  <2>7. QED
    BY <1>2, <2>3, <2>4, <2>5, <2>6 DEF Phase
<1>13. ASSUME NEW f \in File, Staload(f) PROVE Phase'
  <2>1. started /\ started' /\ file' = f /\ kinds' = <<"top">>
    BY <1>13 DEF Staload
  <2>2. NoPrelude(kinds)'
    BY <2>1 DEF NoPrelude
  <2>3. PICK c : c = [kinds |-> kinds, file |-> file] /\ callers' = <<c>> \o callers
    BY <1>13 DEF Staload
  <2> DEFINE CC == [kinds : Seq(Kind), file : File \cup {Main}]
  <2>4. callers \in Seq(CC) /\ c \in CC /\ c.file = file
    BY <2>3
  <2> HIDE DEF CC
  <2>5. PICK p \in Nat : p = Len(callers)
    BY <2>4, LenProperties
  <2>6. Len(callers') = p + 1
    BY <2>3, <2>4, <2>5, ConsFacts
  <2>7. ASSUME NEW i \in DOMAIN callers', i < Len(callers')
        PROVE  callers'[i].file \in File
    <3>1. CASE i = 1
      <4>1. callers'[i] = c
        BY <2>3, <2>4, <3>1, ConsFacts
      <4>2. p # 0
        BY <2>6, <2>7, <3>1
      <4>3. callers # <<>>
        BY <2>5, <4>2, EmptySeq
      <4>4. QED
        BY <2>4, <4>1, <4>3 DEF Phase
    <3>2. ASSUME NEW j \in 1..p, i = j + 1
          PROVE  callers'[i].file \in File
      <4>1. callers'[i] = callers[j]
        BY <2>3, <2>4, <2>5, <3>2, ConsFacts
      <4>2. j < Len(callers) /\ j \in DOMAIN callers
        BY <2>4, <2>5, <2>6, <2>7, <3>2, LenProperties
      <4>3. QED
        BY <4>1, <4>2 DEF Phase
    <3>3. i = 1 \/ \E j \in 1..p : i = j + 1
      BY <2>3, <2>4, <2>5, ConsCases
    <3>4. QED
      BY <3>1, <3>2, <3>3
  <2>8. QED
    BY <2>1, <2>2, <2>7 DEF Phase
<1>14. ASSUME StaloadEnd PROVE Phase'
  <2>1. callers # <<>> /\ started /\ started' = started
    BY <1>14 DEF StaloadEnd, Phase
  <2>2. NoPrelude(kinds)'
    BY <1>14, SavedAlignedRestore
  <2>3. callers' = Tail(callers) /\ file' = Head(callers).file
    BY <1>14 DEF StaloadEnd
  <2> DEFINE CC == [kinds : Seq(Kind), file : File \cup {Main}]
  <2>4. callers \in Seq(CC)
    OBVIOUS
  <2> HIDE DEF CC
  <2>5. PICK p \in Nat : p = Len(callers)
    BY <2>4, LenProperties
  <2>6. Len(callers') = p - 1 /\ callers' \in Seq(CC)
    BY <2>1, <2>3, <2>4, <2>5, TailFacts
  <2>7. ASSUME callers' # <<>> PROVE file' \in File
    <3>1. Len(callers') # 0
      BY <2>6, <2>7, EmptySeq
    <3>2. 1 < Len(callers)
      BY <2>5, <2>6, <3>1
    <3>3. 1 \in DOMAIN callers /\ Head(callers) = callers[1]
      BY <2>1, <2>4, <2>5, <3>2, TailFacts, LenProperties
    <3>4. QED
      BY <2>3, <3>2, <3>3 DEF Phase
  <2>8. ASSUME NEW i \in DOMAIN callers', i < Len(callers')
        PROVE  callers'[i].file \in File
    <3>1. i \in Nat /\ i + 1 \in DOMAIN callers /\ callers'[i] = callers[i + 1]
      BY <2>1, <2>3, <2>4, TailCases
    <3>2. i + 1 < Len(callers)
      BY <2>5, <2>6, <2>8, <3>1
    <3>3. QED
      BY <3>1, <3>2 DEF Phase
  <2>9. QED
    BY <2>1, <2>2, <2>7, <2>8 DEF Phase
<1>15. ASSUME NEW f \in File, namespace_add(f), started PROVE Phase'
  BY <1>6, <1>15 DEF namespace_add, control
<1>16. ASSUME NEW f \in File, NEW n \in Name, namespace_name(f, n), started PROVE Phase'
  BY <1>6, <1>16 DEF namespace_name, control
<1>17. ASSUME NEW f \in File, Prelude(f) PROVE Phase'
  <2>1. ~started /\ file = Main /\ NoPrelude(kinds) /\ callers = <<>>
    BY <1>17 DEF Prelude, Phase
  <2>2. OnePrelude(kinds)'
    BY <1>17, <2>1, OnePreludePush DEF Prelude, Within, Kind
  <2>3. fenvlst' = <<>> /\ AllEmpty(fenvlstlst)'
    BY <1>4, <1>17, <2>1 DEF Prelude
  <2>4. file' # Main /\ UNCHANGED <<callers, started>>
    BY <1>17, NamesAssumption DEF Prelude
  <2>5. QED
    BY <2>1, <2>2, <2>3, <2>4 DEF Phase
<1>18. CASE PreludeEnd
  <2>1. /\ Head(kinds) = "prelude" /\ kinds' = Tail(kinds) /\ file' = Main
        /\ UNCHANGED <<callers, started, fenvlst, fenvlstlst>>
    BY <1>18 DEF PreludeEnd, Leave, namespace
  <2>2. ~started
    <3>1. kinds[1] = "prelude" /\ 1 \in DOMAIN kinds
      BY <1>1, <2>1, TailFacts, EmptySeq, LenProperties
    <3>2. QED
      BY <3>1 DEF Phase, NoPrelude
  <2>3. OnePrelude(kinds)' /\ NoPrelude(kinds)'
    BY <1>1, <2>1, <2>2, OnePreludePop DEF Phase
  <2>4. QED
    BY <2>1, <2>2, <2>3 DEF Phase
<1>19. CASE Start
  <2>1. /\ ~started /\ file = Main /\ started' /\ UNCHANGED <<kinds, callers, file>>
    BY <1>19 DEF Start
  <2>2. QED
    BY <2>1 DEF Phase
<1>20. ASSUME NEW n \in Name, OpenName(n) PROVE Phase'
  BY <1>15, <1>20 DEF OpenName
<1>21. ASSUME NEW f \in File, NEW n \in Name, StaloadAgainNamed(f, n) PROVE Phase'
  BY <1>16, <1>21 DEF StaloadAgainNamed
<1>22. ASSUME NEW n \in Name, NEW m \in Name, AliasName(n, m) PROVE Phase'
  BY <1>16, <1>22 DEF AliasName
<1>23. ASSUME NEW f \in File, StaloadAgainOpen(f) PROVE Phase'
  BY <1>15, <1>23 DEF StaloadAgainOpen
<1>24. ASSUME NEW n \in Name, StaloadEndNamed(n) PROVE Phase'
  BY <1>14, <1>24 DEF StaloadEndNamed
<1>25. CASE StaloadEndOpen
  BY <1>14, <1>25 DEF StaloadEndOpen
<1>26. QED
  BY <1>7, <1>8, <1>9, <1>10, <1>11, <1>12, <1>13, <1>17, <1>18, <1>19,
     <1>20, <1>21, <1>22, <1>23, <1>24, <1>25 DEF Next

-----------------------------------------------------------------------------
(* The table of translated files.                                          *)

\* A file enters the table when its translation ends, not before.
LEMMA TableSteps ==
  ASSUME Next
  PROVE  \/ UNCHANGED filenvmap
         \/ filenvmap' = [filenvmap EXCEPT ![file] = {map}]
BY DEF Next, Declare, Let, LetEnd, Local, LocalIn, LocalEnd, Staload, StaloadEndOpen,
   StaloadEndNamed, StaloadEnd, namespace_add, namespace_name, StaloadAgainOpen,
   StaloadAgainNamed, OpenName, AliasName, Prelude, PreludeEnd, Start

\* the_filenvmap_add is never undone.
LEMMA TableGrows ==
  ASSUME TypeOK, Next, NEW f \in File, filenvmap[f] # {}
  PROVE  filenvmap'[f] # {}
BY TableSteps DEF TypeOK

\* A file has at most one entry in the table.
LEMMA OneMapStep ==
  ASSUME TypeOK, OneMap, Next
  PROVE  OneMap'
<1>1. CASE UNCHANGED filenvmap
  BY <1>1 DEF OneMap
<1>2. CASE filenvmap' = [filenvmap EXCEPT ![file] = {map}]
  <2>1. ASSUME NEW f \in File PROVE filenvmap'[f] = {map} \/ filenvmap'[f] = filenvmap[f]
    BY <1>2 DEF TypeOK
  <2>2. QED
    BY <2>1 DEF OneMap
<1>3. QED
  BY <1>1, <1>2, TableSteps

\* The table keeps what it has.
LEMMA LoadedStep ==
  ASSUME TypeOK, BusyNotLoaded, Next, NEW f \in File, filenvmap[f] # {}
  PROVE  filenvmap'[f] = filenvmap[f]
BY TableSteps DEF TypeOK, BusyNotLoaded

\* A file that is being translated is not in the table yet.
LEMMA BusyStep ==
  ASSUME TypeOK, Aligned, Phase, BusyNotLoaded, Next
  PROVE  BusyNotLoaded'
<1> USE DEF TypeOK
<1>1. ASSUME UNCHANGED <<file, callers, filenvmap>> PROVE BusyNotLoaded'
  BY <1>1 DEF BusyNotLoaded
<1>2. ASSUME NEW f \in File, Staload(f) PROVE BusyNotLoaded'
  <2>1. /\ f # file /\ filenvmap[f] = {} /\ filenvmap' = filenvmap /\ file' = f
        /\ \A i \in DOMAIN callers : f # callers[i].file
    BY <1>2 DEF Staload, Busy
  <2>2. PICK c : c = [kinds |-> kinds, file |-> file] /\ callers' = <<c>> \o callers
    BY <1>2 DEF Staload
  <2> DEFINE CC == [kinds : Seq(Kind), file : File \cup {Main}]
  <2>3. callers \in Seq(CC) /\ c \in CC /\ c.file = file
    BY <2>2
  <2> HIDE DEF CC
  <2>4. PICK p \in Nat : p = Len(callers) /\ DOMAIN callers = 1..p
    BY <2>3, LenProperties
  <2>5. callers'[1] = c /\ \A j \in 1..p : callers'[j + 1] = callers[j]
    BY <2>2, <2>3, <2>4, ConsFacts
  <2>6. \A i \in DOMAIN callers' : i = 1 \/ \E j \in 1..p : i = j + 1
    BY <2>2, <2>3, <2>4, ConsCases
  <2>7. ASSUME NEW i \in DOMAIN callers'
        PROVE  /\ callers'[i].file \in File => filenvmap'[callers'[i].file] = {}
               /\ callers'[i].file # file'
    <3>1. CASE i = 1
      BY <2>1, <2>3, <2>5, <3>1 DEF BusyNotLoaded
    <3>2. ASSUME NEW j \in 1..p, i = j + 1
          PROVE  /\ callers'[i].file \in File => filenvmap'[callers'[i].file] = {}
                 /\ callers'[i].file # file'
      <4>1. callers'[i] = callers[j] /\ j \in DOMAIN callers
        BY <2>4, <2>5, <3>2
      <4>2. QED
        BY <2>1, <4>1 DEF BusyNotLoaded
    <3>3. QED
      BY <2>6, <3>1, <3>2
  <2>8. ASSUME NEW i \in DOMAIN callers', NEW j \in DOMAIN callers',
               callers'[i].file = callers'[j].file
        PROVE  i = j
    <3>1. \A k \in 1..p : callers'[k + 1] = callers[k] /\ callers[k].file # file
      BY <2>4, <2>5 DEF BusyNotLoaded
    <3>2. callers'[1].file = file
      BY <2>3, <2>5
    <3>3. ASSUME NEW k \in 1..p PROVE callers'[k + 1].file # callers'[1].file
      BY <3>1, <3>2
    <3>4. (i = 1 \/ j = 1) => i = j
      BY <2>6, <2>8, <3>3
    <3>5. ASSUME NEW k \in 1..p, NEW l \in 1..p, i = k + 1, j = l + 1
          PROVE  i = j
      <4>1. callers[k].file = callers[l].file
        BY <2>8, <3>1, <3>5
      <4>2. k = l
        BY <2>4, <4>1 DEF BusyNotLoaded
      <4>3. QED
        BY <3>5, <4>2
    <3>6. QED
      BY <2>6, <2>8, <3>4, <3>5
  <2>9. QED
    BY <2>1, <2>7, <2>8 DEF BusyNotLoaded
<1>3. ASSUME StaloadEnd PROVE BusyNotLoaded'
  <2>1. callers # <<>> /\ file \in File
    BY <1>3 DEF StaloadEnd, Phase
  <2>2. /\ callers' = Tail(callers) /\ file' = Head(callers).file
        /\ filenvmap' = [filenvmap EXCEPT ![file] = {map}]
    BY <1>3 DEF StaloadEnd
  <2> DEFINE CC == [kinds : Seq(Kind), file : File \cup {Main}]
  <2>3. callers \in Seq(CC)
    OBVIOUS
  <2> HIDE DEF CC
  <2>4. \A i \in DOMAIN callers' :
          i \in Nat /\ i + 1 \in DOMAIN callers /\ i + 1 # 1 /\ callers'[i] = callers[i + 1]
    BY <2>1, <2>2, <2>3, TailCases
  <2>5. 1 \in DOMAIN callers /\ file' = callers[1].file
    BY <2>1, <2>2, <2>3, TailFacts, EmptySeq, LenProperties
  <2>6. file' \in File => filenvmap'[file'] = {}
    BY <2>2, <2>5 DEF BusyNotLoaded
  <2>7. ASSUME NEW i \in DOMAIN callers'
        PROVE  /\ callers'[i].file \in File => filenvmap'[callers'[i].file] = {}
               /\ callers'[i].file # file'
    <3>1. i + 1 \in DOMAIN callers /\ i + 1 # 1 /\ callers'[i] = callers[i + 1]
      BY <2>4, <2>7
    <3>2. callers'[i].file # file /\ callers'[i].file # callers[1].file
      BY <2>5, <3>1 DEF BusyNotLoaded
    <3>3. callers'[i].file \in File => filenvmap[callers'[i].file] = {}
      BY <3>1 DEF BusyNotLoaded
    <3>4. QED
      BY <2>2, <2>5, <3>2, <3>3
  <2>8. ASSUME NEW i \in DOMAIN callers', NEW j \in DOMAIN callers',
               callers'[i].file = callers'[j].file
        PROVE  i = j
    <3>1. i + 1 = j + 1
      BY SMTT(30), <2>4, <2>8 DEF BusyNotLoaded
    <3>2. i \in Nat /\ j \in Nat
      BY <2>4
    <3>3. QED
      BY <3>1, <3>2
  <2>9. QED
    BY <2>6, <2>7, <2>8 DEF BusyNotLoaded
<1>4. ASSUME NEW f \in File, Prelude(f) PROVE BusyNotLoaded'
  BY <1>4 DEF Prelude, BusyNotLoaded, Phase
<1>5. CASE PreludeEnd
  <2>1. ~started
    <3>1. kinds # <<>>
      BY DEF Aligned, Shape
    <3>2. kinds[1] = "prelude" /\ 1 \in DOMAIN kinds
      BY <1>5, <3>1, TailFacts, EmptySeq, LenProperties DEF PreludeEnd, Leave
    <3>3. QED
      BY <3>2 DEF Phase, NoPrelude
  <2>2. callers = <<>> /\ callers' = <<>> /\ file' = Main
    BY <1>5, <2>1 DEF PreludeEnd, Phase
  <2>3. QED
    BY <2>2, NamesAssumption DEF BusyNotLoaded
<1>6. QED
  BY <1>1, <1>2, <1>3, <1>4, <1>5 DEF Next, Declare, Let, LetEnd, Local, LocalIn,
     LocalEnd, StaloadEndOpen, StaloadEndNamed, namespace_add, StaloadAgainOpen,
     namespace_name, StaloadAgainNamed, OpenName, AliasName, Start, control

\* A name leads to a file that is loaded.
LEMMA FindLoaded ==
  ASSUME Typed(Loaded), NEW n \in Name, Find(n) \in File
  PROVE  Find(n) \in Loaded
<1> DEFINE Result == Decl \cup Loaded \cup {NoItem}
<1>1. \A m \in MapTo(Loaded) : m[n] \in Result
  BY DEF MapTo
<1>2. ASSUME NEW ms \in Seq(MapTo(Loaded)) PROVE Search(ms, n) \in Result
  <2>1. DOMAIN ms \subseteq Nat /\ \A k \in DOMAIN ms : ms[k][n] \in Result
    BY <1>1, LenProperties
  <2>2. NoItem \in Result
    OBVIOUS
  <2> HIDE DEF Result
  <2>3. QED
    BY <2>1, <2>2, SearchFrom
<1>3. Maps \in Seq(MapTo(Loaded)) /\ Files \in Seq(Seq(Loaded))
  BY ConsFacts DEF Typed, Maps, Files
<1>4. ASSUME NEW fs \in Seq(Loaded) PROVE Level(fs)[n] \in Result
  <2> DEFINE es == [k \in DOMAIN fs |-> Exports(fs[k])]
  <2>1. DOMAIN es \subseteq Nat
    BY LenProperties
  <2>2. ASSUME NEW k \in DOMAIN es PROVE es[k][n] \in Result
    <3>1. fs[k] \in Loaded
      BY LenProperties
    <3>2. (CHOOSE m \in filenvmap[fs[k]] : TRUE) \in filenvmap[fs[k]]
      BY <3>1 DEF Loaded
    <3>3. (CHOOSE m \in filenvmap[fs[k]] : TRUE) \in MapTo(Loaded)
      BY <3>1, <3>2 DEF Typed, Loaded
    <3>4. Exports(fs[k]) \in MapTo(Loaded)
      BY <3>3, MapToFacts DEF Exports
    <3>5. QED
      BY <1>1, <3>4
  <2>3. Level(fs)[n] = Search(es, n)
    BY DEF Level
  <2>4. NoItem \in Result
    OBVIOUS
  <2> HIDE DEF es, Result
  <2>5. QED
    BY <2>1, <2>2, <2>3, <2>4, SearchFrom
<1>5. NamespaceSearch(Files, n) \in Result
  <2> DEFINE ls == Levels(Files)
  <2>1. DOMAIN ls = DOMAIN Files /\ \A k \in DOMAIN Files : ls[k] = Level(Files[k])
    BY DEF Levels
  <2>2. DOMAIN Files \subseteq Nat /\ \A k \in DOMAIN Files : Files[k] \in Seq(Loaded)
    BY <1>3, LenProperties
  <2>3. \A k \in DOMAIN Files : ls[k][n] \in Result
    BY <1>4, <2>1, <2>2
  <2>4. NoItem \in Result
    OBVIOUS
  <2> HIDE DEF ls, Result
  <2>5. Search(ls, n) \in Result
    BY <2>1, <2>2, <2>3, <2>4, SearchFrom
  <2>6. QED
    BY <2>5 DEF NamespaceSearch, ls
<1>6. Find(n) \in Result
  BY <1>1, <1>2, <1>3, <1>5 DEF Find, Typed
<1>7. QED
  BY <1>6, NamesAssumption DEF Loaded

\* The environments lead to loaded files only.
AllLoaded == Typed(Loaded)

\* A list over A is a list over what A is part of.
LEMMA SeqMono ==
  ASSUME NEW A, NEW B, A \subseteq B
  PROVE  Seq(A) \subseteq Seq(B)
BY SeqDef

\* Typed holds of more files if it holds of some.
LEMMA TypedMono ==
  ASSUME NEW K, NEW L, K \subseteq L, Typed(K)
  PROVE  Typed(L)
<1>1. MapTo(K) \subseteq MapTo(L)
  BY DEF MapTo
<1>2. Seq(K) \subseteq Seq(L) /\ Seq(MapTo(K)) \subseteq Seq(MapTo(L))
  BY <1>1, SeqMono
<1>3. Seq(Seq(K)) \subseteq Seq(Seq(L))
  BY <1>2, SeqMono
<1>4. /\ [map : MapTo(K), maplst : Seq(MapTo(K))] \subseteq [map : MapTo(L), maplst : Seq(MapTo(L))]
      /\ [cur : Seq(K), lst : Seq(Seq(K))] \subseteq [cur : Seq(L), lst : Seq(Seq(L))]
  BY <1>1, <1>2, <1>3
<1>5. /\ Seq([map : MapTo(K), maplst : Seq(MapTo(K))])
           \subseteq Seq([map : MapTo(L), maplst : Seq(MapTo(L))])
      /\ Seq([cur : Seq(K), lst : Seq(Seq(K))])
           \subseteq Seq([cur : Seq(L), lst : Seq(Seq(L))])
  BY <1>4, SeqMono
<1>6. /\ map \in MapTo(L) /\ maplst \in Seq(MapTo(L)) /\ pervasive \in MapTo(L)
      /\ fenvlst \in Seq(L) /\ fenvlstlst \in Seq(Seq(L))
  BY <1>1, <1>2, <1>3 DEF Typed
<1>7. /\ savedlst \in Seq([map : MapTo(L), maplst : Seq(MapTo(L))])
      /\ nsaved \in Seq([cur : Seq(L), lst : Seq(Seq(L))])
  BY <1>5 DEF Typed
<1>8. filenvmap \in [File -> SUBSET MapTo(L)]
  BY <1>1 DEF Typed
<1>9. QED
  BY <1>6, <1>7, <1>8 DEF Typed

\* The table only grows.
LEMMA LoadedMono ==
  ASSUME TypeOK, Next
  PROVE  Loaded \subseteq Loaded'
BY TableGrows DEF Loaded

\* No operation lets a name lead to a file that is not in the table.
LEMMA AllLoadedStep ==
  ASSUME TypeOK, Aligned, Phase, AllLoaded, Next
  PROVE  AllLoaded'
<1>1. PICK L : L = Loaded'
  OBVIOUS
<1>2. Loaded \subseteq L /\ L \subseteq File /\ Loaded' \subseteq L
  BY <1>1, LoadedMono DEF Loaded
<1>3. Typed(L)
  BY <1>2, TypedMono DEF AllLoaded
<1>4. \A n \in Name : Find(n) \in File => Find(n) \in L
  BY <1>2, FindLoaded DEF AllLoaded
<1>5. Typed(L)'
  BY <1>2, <1>3, <1>4, TypedStep
<1>6. QED
  BY <1>1, <1>5 DEF AllLoaded, Typed

-----------------------------------------------------------------------------
(* The theorems.                                                           *)

IInv == TypeOK /\ Aligned /\ Phase /\ BusyNotLoaded /\ OneMap /\ AllLoaded

\* The invariant holds before the prelude is loaded.
LEMMA IInvInit == Init => IInv
<1> SUFFICES ASSUME Init PROVE IInv
  OBVIOUS
<1>1. TypeOK
  BY TypeInit
<1>2. Aligned
  <2>1. Shape(<<"top">>, <<>>, <<>>)
    BY DEF Shape
  <2>2. QED
    BY <2>1 DEF Init, Aligned
<1>3. Phase
  BY DEF Init, Phase, NoPrelude, OnePrelude, AllEmpty
<1>4. BusyNotLoaded /\ OneMap
  BY DEF Init, BusyNotLoaded, OneMap
<1>5. AllLoaded
  <2>1. Nil \in MapTo(Loaded)
    BY MapToFacts
  <2>2. filenvmap \in [File -> SUBSET MapTo(Loaded)]
    BY DEF Init
  <2>3. QED
    BY <2>1, <2>2, EmptySeq DEF Init, AllLoaded, Typed
<1>6. QED
  BY <1>1, <1>2, <1>3, <1>4, <1>5 DEF IInv

\* The invariant is inductive: one lemma above for each of its parts.
LEMMA IInvStep == IInv /\ [Next]_vars => IInv'
<1> SUFFICES ASSUME IInv, [Next]_vars PROVE IInv'
  OBVIOUS
<1> USE DEF IInv
<1>1. CASE Next
  BY <1>1, TypeStep, AlignedStep, PhaseStep, BusyStep, OneMapStep, AllLoadedStep
<1>2. CASE UNCHANGED vars
  <2>1. TypeOK' /\ Aligned' /\ Phase' /\ BusyNotLoaded' /\ OneMap'
    BY <1>2 DEF vars, symenv, namespace, control, TypeOK, Aligned, Phase, BusyNotLoaded,
       OneMap
  <2>2. AllLoaded'
    BY <1>2 DEF vars, symenv, namespace, AllLoaded, Typed, Loaded
  <2>3. QED
    BY <2>1, <2>2
<1>3. QED
  BY <1>1, <1>2

\* IInv is an invariant of the environments.
THEOREM Invariant == Spec => []IInv
BY IInvInit, IInvStep, PTL DEF Spec

\* The variables have their types: an opened file is never looked for under
\* a kind of item that it is not.
THEOREM TypeCorrect == Spec => []TypeOK
<1>1. IInv => TypeOK
  BY DEF IInv
<1>2. QED
  BY <1>1, Invariant, PTL

\* No pop, join or restore of pats_symenv.dats and pats_namespace.dats meets an
\* empty stack, and a file ends with no scope left open.
THEOREM StacksSufficeHolds == Spec => []StacksSuffice
<1>1. IInv => StacksSuffice
  BY Suffice DEF IInv
<1>2. QED
  BY <1>1, Invariant, PTL

\* Whatever a name or an opened namespace leads to has been translated.
THEOREM OpenedLoadedHolds == Spec => []OpenedLoaded
<1>1. ASSUME IInv PROVE OpenedLoaded
  <2>1. Typed(Loaded)
    BY <1>1 DEF IInv, AllLoaded
  <2>2. Maps \in Seq(MapTo(Loaded)) /\ Files \in Seq(Seq(Loaded))
    BY <2>1, ConsFacts DEF Typed, Maps, Files
  <2>3. ASSUME NEW m \in MapTo(Loaded), NEW f \in FilesIn(m) PROVE filenvmap[f] # {}
    BY <2>3, NamesAssumption DEF MapTo, FilesIn, Loaded
  <2>4. ASSUME NEW fs \in Seq(Loaded), NEW j \in DOMAIN fs PROVE filenvmap[fs[j]] # {}
    <3>1. PICK L : L = Loaded
      OBVIOUS
    <3>2. fs \in Seq(L) /\ j \in DOMAIN fs
      BY <3>1
    <3>3. fs[j] \in L
      BY <3>2, LenProperties
    <3>4. QED
      BY <3>1, <3>3 DEF Loaded
  <2>5. \A i \in DOMAIN Files : Files[i] \in Seq(Loaded)
    BY <2>2, LenProperties
  <2>6. \A i \in DOMAIN Maps : Maps[i] \in MapTo(Loaded)
    BY <2>2, LenProperties
  <2>7. \A i \in DOMAIN nsaved : nsaved[i].cur \in Seq(Loaded)
    <3>1. nsaved \in Seq([cur : Seq(Loaded), lst : Seq(Seq(Loaded))])
      BY <2>1 DEF Typed
    <3>2. PICK R : R = [cur : Seq(Loaded), lst : Seq(Seq(Loaded))]
      OBVIOUS
    <3>3. nsaved \in Seq(R)
      BY <3>1, <3>2
    <3>4. \A i \in DOMAIN nsaved : nsaved[i] \in R
      BY <3>3, LenProperties
    <3>5. QED
      BY <3>2, <3>4
  <2>8. \A f \in File : \A m \in filenvmap[f] : m \in MapTo(Loaded)
    BY <2>1 DEF Typed
  <2>9. QED
    BY <2>3, <2>4, <2>5, <2>6, <2>7, <2>8 DEF OpenedLoaded
<1>2. QED
  BY <1>1, Invariant, PTL

\* A file that has been translated is not translated again.
THEOREM LoadedOnceHolds == Spec => LoadedOnce
<1>1. IInv /\ [Next]_vars =>
        [\A f \in File : filenvmap[f] # {} => filenvmap'[f] = filenvmap[f]]_vars
  BY LoadedStep DEF IInv
<1>2. QED
  BY <1>1, Invariant, PTL DEF Spec, LoadedOnce

-----------------------------------------------------------------------------
(* What the stacks let one see.                                            *)

\* What is visible through the list of maps ms.
Vis(ms) == [n \in Name |-> Search(ms, n)]

\* The list of the values of e at the elements of s.
Image(e, s) == [k \in DOMAIN s |-> e[s[k]]]

\* e yields elements of B for those of A.
Yields(e, A, B) == e \in [A -> B]

\* Exports, Level and NamespaceSearch for a given table of files.
OneOf(ms) == CHOOSE m \in ms : TRUE
ExportsIn(tab) == [f \in File |-> Public(OneOf(tab[f]))]
LevelIn(tab) == [fs \in Seq(File) |-> Vis(Image(ExportsIn(tab), fs))]
OpenIn(tab, fss) == Vis(Image(LevelIn(tab), fss))

\* Nothing is visible through no maps.
LEMMA VisNone == Vis(<<>>) = Nil
BY SearchMiss DEF Vis, Nil

\* What is visible through two lists of maps.
LEMMA VisConcat ==
  ASSUME NEW S, NEW xs \in Seq(S), NEW ys \in Seq(S)
  PROVE  Vis(xs \o ys) = Join(Vis(ys), Vis(xs))
<1>1. ASSUME NEW n \in Name
      PROVE  Search(xs \o ys, n) =
               IF Search(xs, n) # NoItem THEN Search(xs, n) ELSE Search(ys, n)
  BY SearchConcat
<1>2. QED
  BY <1>1 DEF Vis, Join

\* What is visible when a map is put on top.
LEMMA VisCons ==
  ASSUME NEW S, NEW m \in S, NEW ms \in Seq(S)
  PROVE  Vis(<<m>> \o ms) = Join(Vis(ms), m)
<1>1. ASSUME NEW n \in Name
      PROVE  Search(<<m>> \o ms, n) = IF m[n] # NoItem THEN m[n] ELSE Search(ms, n)
  BY SearchCons
<1>2. QED
  BY <1>1 DEF Vis, Join

\* A list is a function on 1..n.
LEMMA SeqOf ==
  ASSUME NEW S, NEW n \in Nat, NEW s \in [1..n -> S]
  PROVE  s \in Seq(S) /\ Len(s) = n
<1>1. s \in Seq(S)
  BY SeqDef
<1>2. QED
  BY <1>1, LenProperties

\* The values at the elements of two lists, one after the other.
LEMMA ImageConcat ==
  ASSUME NEW A, NEW B, NEW e, Yields(e, A, B), NEW xs \in Seq(A), NEW ys \in Seq(A)
  PROVE  /\ Image(e, xs) \in Seq(B) /\ Image(e, ys) \in Seq(B)
         /\ Image(e, xs \o ys) = Image(e, xs) \o Image(e, ys)
<1>1. PICK p \in Nat : p = Len(xs)
  BY LenProperties
<1>2. PICK q \in Nat : q = Len(ys)
  BY LenProperties
<1>3. DOMAIN xs = 1..p /\ DOMAIN ys = 1..q
  BY <1>1, <1>2, LenProperties
<1>4. Image(e, xs) \in Seq(B) /\ Len(Image(e, xs)) = p
  <2>1. Image(e, xs) \in [1..p -> B]
    BY <1>3, LenProperties DEF Image, Yields
  <2>2. QED
    BY <2>1, SeqOf
<1>5. Image(e, ys) \in Seq(B) /\ Len(Image(e, ys)) = q
  <2>1. Image(e, ys) \in [1..q -> B]
    BY <1>3, LenProperties DEF Image, Yields
  <2>2. QED
    BY <2>1, SeqOf
<1>6. /\ xs \o ys \in Seq(A) /\ Len(xs \o ys) = p + q /\ DOMAIN (xs \o ys) = 1..(p + q)
      /\ \A i \in 1..(p + q) : (xs \o ys)[i] = IF i <= p THEN xs[i] ELSE ys[i - p]
  BY <1>1, <1>2, ConcatProperties, LenProperties
<1>7. PICK c : c = xs \o ys
  OBVIOUS
<1>8. PICK d : d = Image(e, xs) \o Image(e, ys)
  OBVIOUS
<1>9. /\ d \in Seq(B) /\ Len(d) = p + q /\ DOMAIN d = 1..(p + q)
      /\ \A i \in 1..(p + q) :
           d[i] = IF i <= p THEN Image(e, xs)[i] ELSE Image(e, ys)[i - p]
  <2>1. PICK u : u = Image(e, xs)
    OBVIOUS
  <2>2. PICK v : v = Image(e, ys)
    OBVIOUS
  <2>3. u \in Seq(B) /\ v \in Seq(B) /\ Len(u) = p /\ Len(v) = q /\ d = u \o v
    BY <1>4, <1>5, <1>8, <2>1, <2>2
  <2>4. /\ d \in Seq(B) /\ Len(d) = p + q
        /\ \A i \in 1..(p + q) : d[i] = IF i <= p THEN u[i] ELSE v[i - p]
    BY <2>3, ConcatProperties
  <2>5. DOMAIN d = 1..(p + q)
    BY <2>4, LenProperties
  <2>6. QED
    BY <2>1, <2>2, <2>4, <2>5
<1>10. \A i \in 1..(p + q) : d[i] = e[c[i]]
  <2>1. TAKE i \in 1..(p + q)
  <2>2. CASE i <= p
    <3>1. i \in DOMAIN xs
      BY <1>3, <2>2
    <3>2. d[i] = Image(e, xs)[i] /\ c[i] = xs[i]
      BY <1>6, <1>7, <1>9, <2>2
    <3>3. QED
      BY <3>1, <3>2 DEF Image
  <2>3. CASE ~ (i <= p)
    <3>1. i - p \in DOMAIN ys
      BY <1>3, <2>3
    <3>2. d[i] = Image(e, ys)[i - p] /\ c[i] = ys[i - p]
      BY <1>6, <1>7, <1>9, <2>3
    <3>3. QED
      BY <3>1, <3>2 DEF Image
  <2>4. QED
    BY <2>2, <2>3
<1>11. Image(e, c) = d
  <2>1. d = [i \in 1..(p + q) |-> d[i]]
    BY <1>9, LenProperties
  <2>2. DOMAIN c = 1..(p + q)
    BY <1>6, <1>7
  <2>3. QED
    BY <1>10, <2>1, <2>2 DEF Image
<1>12. QED
  BY <1>4, <1>5, <1>7, <1>8, <1>11

\* The sets in which Exports and Level have their values.
LEMMA InTable ==
  ASSUME NEW tab
  PROVE  /\ \E B : Yields(ExportsIn(tab), File, B)
         /\ \E B : Yields(LevelIn(tab), Seq(File), B)
<1>1. ExportsIn(tab) \in [File -> {ExportsIn(tab)[f] : f \in File}]
  BY DEF ExportsIn
<1>2. LevelIn(tab) \in [Seq(File) -> {LevelIn(tab)[fs] : fs \in Seq(File)}]
  BY DEF LevelIn
<1>3. QED
  BY <1>1, <1>2 DEF Yields

\* What opened files let one see: the_namespace_add puts one more in front,
\* the_namespace_localjoin puts one list in front of another, and
\* the_namespace_push starts a new list.
LEMMA OpenFacts ==
  ASSUME NEW tab
  PROVE  /\ LevelIn(tab)[<<>>] = Nil
         /\ \A f \in File, fs \in Seq(File) :
              LevelIn(tab)[<<f>> \o fs] = Join(LevelIn(tab)[fs], ExportsIn(tab)[f])
         /\ \A fs, gs \in Seq(File) :
              LevelIn(tab)[fs \o gs] = Join(LevelIn(tab)[gs], LevelIn(tab)[fs])
         /\ \A fs \in Seq(File), fss \in Seq(Seq(File)) :
              OpenIn(tab, <<fs>> \o fss) = Join(OpenIn(tab, fss), LevelIn(tab)[fs])
         /\ OpenIn(tab, <<>>) = Nil
<1>1. PICK B : Yields(ExportsIn(tab), File, B)
  BY InTable
<1>2. PICK C : Yields(LevelIn(tab), Seq(File), C)
  BY InTable
<1>3. \A fs \in Seq(File) : LevelIn(tab)[fs] = Vis(Image(ExportsIn(tab), fs))
  BY DEF LevelIn
<1>4. \A e : Image(e, <<>>) = <<>>
  BY DEF Image
<1>5. LevelIn(tab)[<<>>] = Nil
  BY <1>3, <1>4, VisNone, EmptySeq
<1>6. ASSUME NEW f \in File, NEW fs \in Seq(File)
      PROVE  LevelIn(tab)[<<f>> \o fs] = Join(LevelIn(tab)[fs], ExportsIn(tab)[f])
  <2>1. PICK e : e = ExportsIn(tab)
    OBVIOUS
  <2>2. Yields(e, File, B) /\ fs \in Seq(File) /\ f \in File
    BY <1>1, <2>1
  <2>3. Image(e, fs) \in Seq(B)
    BY <2>2, ImageConcat
  <2>4. Image(e, <<f>> \o fs) = <<e[f]>> \o Image(e, fs)
    <3>1. PICK one : one = <<f>>
      OBVIOUS
    <3>2. one \in Seq(File)
      BY <3>1
    <3>3. Image(e, one) = <<e[f]>>
      BY <3>1 DEF Image
    <3>4. Image(e, one \o fs) = Image(e, one) \o Image(e, fs)
      BY <2>2, <3>2, ImageConcat
    <3>5. QED
      BY <3>1, <3>3, <3>4
  <2>5. e[f] \in B
    BY <2>2 DEF Yields
  <2>6. Vis(<<e[f]>> \o Image(e, fs)) = Join(Vis(Image(e, fs)), e[f])
    BY <2>3, <2>5, VisCons
  <2>7. <<f>> \o fs \in Seq(File)
    OBVIOUS
  <2>8. QED
    BY <1>3, <2>1, <2>4, <2>6, <2>7
<1>7. ASSUME NEW fs \in Seq(File), NEW gs \in Seq(File)
      PROVE  LevelIn(tab)[fs \o gs] = Join(LevelIn(tab)[gs], LevelIn(tab)[fs])
  <2>1. PICK e : e = ExportsIn(tab)
    OBVIOUS
  <2>2. Yields(e, File, B) /\ fs \in Seq(File) /\ gs \in Seq(File)
    BY <1>1, <2>1
  <2>3. Image(e, fs) \in Seq(B) /\ Image(e, gs) \in Seq(B)
    BY <2>2, ImageConcat
  <2>4. Image(e, fs \o gs) = Image(e, fs) \o Image(e, gs)
    BY <2>2, ImageConcat
  <2>5. Vis(Image(e, fs) \o Image(e, gs)) = Join(Vis(Image(e, gs)), Vis(Image(e, fs)))
    BY <2>3, VisConcat
  <2>6. fs \o gs \in Seq(File)
    OBVIOUS
  <2>7. QED
    BY <1>3, <2>1, <2>4, <2>5, <2>6
<1>8. ASSUME NEW fs \in Seq(File), NEW fss \in Seq(Seq(File))
      PROVE  OpenIn(tab, <<fs>> \o fss) = Join(OpenIn(tab, fss), LevelIn(tab)[fs])
  <2>1. PICK e : e = LevelIn(tab)
    OBVIOUS
  <2>2. PICK D : D = Seq(File)
    OBVIOUS
  <2>3. Yields(e, D, C) /\ fs \in D /\ fss \in Seq(D)
    BY <1>2, <2>1, <2>2
  <2>4. Image(e, fss) \in Seq(C)
    BY <2>3, ImageConcat
  <2>5. Image(e, <<fs>> \o fss) = <<e[fs]>> \o Image(e, fss)
    <3>1. PICK one : one = <<fs>>
      OBVIOUS
    <3>2. one \in Seq(D)
      BY <2>3, <3>1
    <3>3. Image(e, one) = <<e[fs]>>
      BY <3>1 DEF Image
    <3>4. Image(e, one \o fss) = Image(e, one) \o Image(e, fss)
      BY <2>3, <3>2, ImageConcat
    <3>5. QED
      BY <3>1, <3>3, <3>4
  <2>6. e[fs] \in C
    BY <2>3 DEF Yields
  <2>7. Vis(<<e[fs]>> \o Image(e, fss)) = Join(Vis(Image(e, fss)), e[fs])
    BY <2>4, <2>6, VisCons
  <2>8. QED
    BY <2>1, <2>5, <2>7 DEF OpenIn
<1>9. OpenIn(tab, <<>>) = Nil
  BY <1>4, VisNone DEF OpenIn
<1>10. QED
  BY <1>5, <1>6, <1>7, <1>8, <1>9

-----------------------------------------------------------------------------
(* Scopes, one put on top of the others.                                   *)

\* s is a list of something.
IsList(s) == \E S : s \in Seq(S)

\* A function on 1..n is a list.
LEMMA ListOf ==
  ASSUME NEW n \in Nat, NEW s, s = [i \in 1..n |-> s[i]]
  PROVE  IsList(s)
<1>1. s \in [1..n -> {s[i] : i \in 1..n}]
  OBVIOUS
<1>2. QED
  BY <1>1, SeqOf DEF IsList

\* A list with an element on top.
LEMMA TopFacts ==
  ASSUME NEW s, IsList(s), NEW x
  PROVE  /\ IsList(<<x>> \o s)
         /\ (<<x>> \o s)[1] = x
         /\ Tail(<<x>> \o s) = s
<1>1. PICK S : s \in Seq(S)
  BY DEF IsList
<1>2. PICK T : T = S \cup {x}
  OBVIOUS
<1>3. s \in Seq(T) /\ x \in T
  BY <1>1, <1>2, SeqMono
<1>4. <<x>> \o s \in Seq(T)
  BY <1>3, ConsFacts
<1>5. (<<x>> \o s)[1] = x /\ Tail(<<x>> \o s) = s
  BY <1>3, ConsFacts
<1>6. QED
  BY <1>4, <1>5 DEF IsList

\* t is the list s, of length p, with x on top.
Extends(t, x, s, p) ==
    /\ s = [i \in 1..p |-> s[i]] /\ t = [i \in 1..(p + 1) |-> t[i]]
    /\ t[1] = x /\ \A i \in 1..p : t[i + 1] = s[i]

\* A list that is another one with an element on top.
LEMMA ExtendsFacts ==
  ASSUME NEW p \in Nat, NEW t, NEW x, NEW s, Extends(t, x, s, p)
  PROVE  t = <<x>> \o s
<1>1. PICK T : T = {s[i] : i \in 1..p} \cup {x}
  OBVIOUS
<1>2. s \in [1..p -> T]
  BY <1>1 DEF Extends
<1>3. s \in Seq(T) /\ Len(s) = p /\ x \in T
  BY <1>1, <1>2, SeqOf
<1>4. PICK u : u = <<x>> \o s
  OBVIOUS
<1>5. u \in Seq(T) /\ Len(u) = p + 1 /\ u[1] = x /\ \A i \in 1..p : u[i + 1] = s[i]
  BY <1>3, <1>4, ConsFacts
<1>6. u = [i \in 1..(p + 1) |-> u[i]]
  BY <1>5, LenProperties
<1>7. ASSUME NEW i \in 1..(p + 1) PROVE t[i] = u[i]
  <2>1. CASE i = 1
    BY <1>5, <2>1 DEF Extends
  <2>2. CASE i # 1
    <3>1. PICK j \in 1..p : i = j + 1
      <4>1. i - 1 \in 1..p /\ i = (i - 1) + 1
        BY <2>2
      <4>2. QED
        BY <4>1
    <3>2. QED
      BY <1>5, <3>1 DEF Extends
  <2>3. QED
    BY <2>1, <2>2
<1>8. t = [i \in 1..(p + 1) |-> t[i]]
  BY DEF Extends
<1>9. t = u
  BY <1>6, <1>7, <1>8
<1>10. QED
  BY <1>4, <1>9

\* A list that is not empty has an element on top.
LEMMA SplitFacts ==
  ASSUME NEW S, NEW s \in Seq(S), s # <<>>
  PROVE  s = <<Head(s)>> \o Tail(s)
OBVIOUS

\* The list s from its element i on.
From(s, i) == SubSeq(s, i, Len(s))

\* The ends of a list.
LEMMA FromType ==
  ASSUME NEW S, NEW s \in Seq(S), NEW i \in 1..Len(s)
  PROVE  From(s, i) \in Seq(S)
<1>1. PICK p \in Nat : p = Len(s)
  BY LenProperties
<1>2. \A j \in i..p : s[j] \in S
  BY <1>1, LenProperties
<1>3. From(s, i) = [j \in 1..(p - i + 1) |-> s[i + j - 1]]
  BY <1>1 DEF From
<1>4. \A j \in 1..(p - i + 1) : s[i + j - 1] \in S
  BY <1>1, <1>2
<1>5. p - i + 1 \in Nat
  BY <1>1
<1>6. From(s, i) \in [1..(p - i + 1) -> S]
  BY <1>3, <1>4
<1>7. QED
  BY <1>5, <1>6, SeqOf

\* The ends of a list that an element is put on.
LEMMA FromCons ==
  ASSUME NEW S, NEW s \in Seq(S), NEW x \in S
  PROVE  /\ From(<<x>> \o s, 1) = <<x>> \o s
         /\ \A i \in 1..Len(s) : From(<<x>> \o s, i + 1) = From(s, i)
<1>1. PICK p \in Nat : p = Len(s)
  BY LenProperties
<1>2. PICK c : c = <<x>> \o s
  OBVIOUS
<1>3. /\ c \in Seq(S) /\ Len(c) = p + 1 /\ DOMAIN c = 1..(p + 1)
      /\ \A i \in 1..p : c[i + 1] = s[i]
  BY <1>1, <1>2, ConsFacts
<1>4. From(c, 1) = c
  BY <1>3 DEF From
<1>5. ASSUME NEW i \in 1..p PROVE From(c, i + 1) = From(s, i)
  <2>1. From(c, i + 1) = [j \in 1..(p + 1 - (i + 1) + 1) |-> c[i + 1 + j - 1]]
    BY <1>3 DEF From
  <2>2. From(s, i) = [j \in 1..(p - i + 1) |-> s[i + j - 1]]
    BY <1>1 DEF From
  <2>3. p + 1 - (i + 1) + 1 = p - i + 1
    OBVIOUS
  <2>4. ASSUME NEW j \in 1..(p - i + 1) PROVE c[i + 1 + j - 1] = s[i + j - 1]
    <3>1. PICK k \in 1..p : k = i + j - 1
      OBVIOUS
    <3>2. i + 1 + j - 1 = k + 1
      BY <3>1
    <3>3. QED
      BY <1>3, <3>1, <3>2
  <2>5. QED
    BY <2>1, <2>2, <2>3, <2>4
<1>6. QED
  BY <1>1, <1>2, <1>4, <1>5

\* Scopes for a given table of files, and the topmost of them.
ScopesIn(tab, ms, fss, ks) ==
    [i \in DOMAIN ks |->
       [kind |-> ks[i], vis |-> Vis(From(ms, i)), own |-> ms[i],
        open |-> OpenIn(tab, From(fss, i)), opened |-> LevelIn(tab)[fss[i]]]]

Scope(tab, k, m, ms, fs, fss) ==
    [kind |-> k, vis |-> Join(Vis(ms), m), own |-> m,
     open |-> Join(OpenIn(tab, fss), LevelIn(tab)[fs]), opened |-> LevelIn(tab)[fs]]

\* The stacks are as deep as the scopes.
Deep(ms, fss, ks) == Len(ks) = Len(ms) /\ Len(ms) <= Len(fss)

\* The scopes are a list.
LEMMA ScopesList ==
  ASSUME NEW tab, NEW ms, NEW fss, NEW ks \in Seq(Kind)
  PROVE  IsList(ScopesIn(tab, ms, fss, ks))
<1>1. PICK p \in Nat : p = Len(ks)
  BY LenProperties
<1>2. PICK s : s = ScopesIn(tab, ms, fss, ks)
  OBVIOUS
<1>3. s = [i \in 1..p |-> s[i]]
  BY <1>1, <1>2, LenProperties DEF ScopesIn
<1>4. QED
  BY <1>2, <1>3, ListOf

\* An element put on a list.
Put(x, s) == <<x>> \o s

\* A scope is entered or left without a change to those around it.
LEMMA ScopesCons ==
  ASSUME NEW tab, NEW k \in Kind, NEW ks \in Seq(Kind),
         NEW m \in Map, NEW ms \in Seq(Map),
         NEW fs \in Seq(File), NEW fss \in Seq(Seq(File)), Deep(ms, fss, ks)
  PROVE  ScopesIn(tab, Put(m, ms), Put(fs, fss), Put(k, ks))
           = Put(Scope(tab, k, m, ms, fs, fss), ScopesIn(tab, ms, fss, ks))
<1>1. PICK p \in Nat : p = Len(ks)
  BY LenProperties
<1>2. PICK q \in Nat : q = Len(fss)
  BY LenProperties
<1>3. Len(ms) = p /\ p <= q
  BY <1>1, <1>2 DEF Deep
<1>4. PICK kk : kk = <<k>> \o ks
  OBVIOUS
<1>5. PICK mm : mm = <<m>> \o ms
  OBVIOUS
<1>6. PICK ff : ff = <<fs>> \o fss
  OBVIOUS
<1>7. DOMAIN kk = 1..(p + 1) /\ kk[1] = k /\ \A i \in 1..p : kk[i + 1] = ks[i]
  BY <1>1, <1>4, ConsFacts
<1>8. mm[1] = m /\ \A i \in 1..p : mm[i + 1] = ms[i]
  BY <1>3, <1>5, ConsFacts
<1>9. ff[1] = fs /\ \A i \in 1..q : ff[i + 1] = fss[i]
  BY <1>2, <1>6, ConsFacts
<1>10. From(mm, 1) = mm /\ \A i \in 1..p : From(mm, i + 1) = From(ms, i)
  BY <1>3, <1>5, FromCons
<1>11. From(ff, 1) = ff /\ \A i \in 1..q : From(ff, i + 1) = From(fss, i)
  BY <1>2, <1>6, FromCons
<1>12. Vis(mm) = Join(Vis(ms), m)
  BY <1>5, VisCons
<1>13. OpenIn(tab, ff) = Join(OpenIn(tab, fss), LevelIn(tab)[fs])
  BY <1>6, OpenFacts
<1>14. PICK s : s = ScopesIn(tab, ms, fss, ks)
  OBVIOUS
<1>15. PICK t : t = ScopesIn(tab, mm, ff, kk)
  OBVIOUS
<1>16. PICK x : x = Scope(tab, k, m, ms, fs, fss)
  OBVIOUS
<1>17. s = [i \in 1..p |-> s[i]]
  BY <1>1, <1>14, LenProperties DEF ScopesIn
<1>18. t = [i \in 1..(p + 1) |-> t[i]]
  BY <1>7, <1>15 DEF ScopesIn
<1>19. t[1] = x
  <2>1. 1 \in DOMAIN kk
    BY <1>7
  <2>2. t[1] = [kind |-> kk[1], vis |-> Vis(From(mm, 1)), own |-> mm[1],
                open |-> OpenIn(tab, From(ff, 1)), opened |-> LevelIn(tab)[ff[1]]]
    BY <1>15, <2>1 DEF ScopesIn
  <2>3. QED
    BY <1>7, <1>8, <1>9, <1>10, <1>11, <1>12, <1>13, <1>16, <2>2 DEF Scope
<1>20. ASSUME NEW i \in 1..p PROVE t[i + 1] = s[i]
  <2>1. i + 1 \in DOMAIN kk /\ i \in DOMAIN ks /\ i \in 1..q
    BY <1>1, <1>3, <1>7, LenProperties
  <2>2. t[i + 1] = [kind |-> kk[i + 1], vis |-> Vis(From(mm, i + 1)), own |-> mm[i + 1],
            open |-> OpenIn(tab, From(ff, i + 1)), opened |-> LevelIn(tab)[ff[i + 1]]]
    BY <1>15, <2>1 DEF ScopesIn
  <2>3. s[i] = [kind |-> ks[i], vis |-> Vis(From(ms, i)), own |-> ms[i],
                open |-> OpenIn(tab, From(fss, i)), opened |-> LevelIn(tab)[fss[i]]]
    BY <1>14, <2>1 DEF ScopesIn
  <2>4. QED
    BY <1>7, <1>8, <1>9, <1>10, <1>11, <2>1, <2>2, <2>3
<1>21. t = <<x>> \o s
  <2>1. Extends(t, x, s, p)
    BY <1>17, <1>18, <1>19, <1>20 DEF Extends
  <2>2. QED
    BY <2>1, ExtendsFacts
<1>22. QED
  BY <1>4, <1>5, <1>6, <1>14, <1>15, <1>16, <1>21 DEF Put

\* Scopes is ScopesIn for the table as it is.
LEMMA ScopesAre ==
  ASSUME NEW ks \in Seq(Kind), NEW ms \in Seq(Map), NEW fss \in Seq(Seq(File)),
         Deep(ms, fss, ks)
  PROVE  Scopes(ms, fss, ks) = ScopesIn(filenvmap, ms, fss, ks)
<1>1. PICK p \in Nat : p = Len(ks)
  BY LenProperties
<1>2. PICK q \in Nat : q = Len(fss)
  BY LenProperties
<1>3. DOMAIN ks = 1..p /\ p <= q
  BY <1>1, <1>2, LenProperties DEF Deep
<1>4. ASSUME NEW fs \in Seq(File) PROVE Level(fs) = LevelIn(filenvmap)[fs]
  <2>1. \A k \in DOMAIN fs : Exports(fs[k]) = ExportsIn(filenvmap)[fs[k]]
    <3>1. \A k \in DOMAIN fs : fs[k] \in File
      BY LenProperties
    <3>2. QED
      BY <3>1 DEF Exports, ExportsIn, OneOf
  <2>2. [k \in DOMAIN fs |-> Exports(fs[k])] = Image(ExportsIn(filenvmap), fs)
    BY <2>1 DEF Image
  <2>3. QED
    BY <2>2 DEF Level, LevelIn, Vis
<1>5. ASSUME NEW gss \in Seq(Seq(File))
      PROVE  [n \in Name |-> NamespaceSearch(gss, n)] = OpenIn(filenvmap, gss)
  <2>1. \A k \in DOMAIN gss : gss[k] \in Seq(File)
    BY LenProperties
  <2>2. \A k \in DOMAIN gss : Level(gss[k]) = LevelIn(filenvmap)[gss[k]]
    BY <1>4, <2>1
  <2>3. Levels(gss) = Image(LevelIn(filenvmap), gss)
    BY <2>2 DEF Levels, Image
  <2>4. QED
    BY <2>3 DEF NamespaceSearch, OpenIn, Vis
<1>6. ASSUME NEW i \in 1..p
      PROVE  /\ [n \in Name |-> Search(SubSeq(ms, i, Len(ms)), n)] = Vis(From(ms, i))
             /\ [n \in Name |-> NamespaceSearch(SubSeq(fss, i, Len(fss)), n)]
                  = OpenIn(filenvmap, From(fss, i))
             /\ Level(fss[i]) = LevelIn(filenvmap)[fss[i]]
  <2>1. i \in 1..q
    BY <1>3
  <2>2. fss[i] \in Seq(File) /\ From(fss, i) \in Seq(Seq(File))
    BY <1>2, <2>1, FromType, LenProperties
  <2>3. [n \in Name |-> Search(SubSeq(ms, i, Len(ms)), n)] = Vis(From(ms, i))
    BY DEF Vis, From
  <2>4. [n \in Name |-> NamespaceSearch(From(fss, i), n)] = OpenIn(filenvmap, From(fss, i))
    BY <1>5, <2>2
  <2>5. [n \in Name |-> NamespaceSearch(SubSeq(fss, i, Len(fss)), n)]
                  = OpenIn(filenvmap, From(fss, i))
    BY <2>4 DEF From
  <2>6. Level(fss[i]) = LevelIn(filenvmap)[fss[i]]
    BY <1>4, <2>2
  <2>7. QED
    BY <2>3, <2>5, <2>6
<1>7. QED
  BY <1>3, <1>6 DEF Scopes, ScopesIn

\* Two tables have the same entries for the files of L.
Agree(tab, tab2, L) == \A f \in L : tab[f] = tab2[f]

\* The same scopes at a later time: the files that are opened in them have the
\* same entries in the table.
LEMMA ScopesSame ==
  ASSUME NEW tab, NEW tab2, NEW L, L \subseteq File, Agree(tab, tab2, L),
         NEW ks \in Seq(Kind), NEW ms, NEW fss \in Seq(Seq(L)), Deep(ms, fss, ks),
         Len(ms) \in Nat
  PROVE  ScopesIn(tab, ms, fss, ks) = ScopesIn(tab2, ms, fss, ks)
<1>1. PICK p \in Nat : p = Len(ks)
  BY LenProperties
<1>2. PICK q \in Nat : q = Len(fss)
  BY LenProperties
<1>3. DOMAIN ks = 1..p /\ p <= q
  BY <1>1, <1>2, LenProperties DEF Deep
<1>4. ASSUME NEW f \in L PROVE ExportsIn(tab)[f] = ExportsIn(tab2)[f]
  <2>1. f \in File /\ tab[f] = tab2[f]
    BY DEF Agree
  <2>2. QED
    BY <2>1 DEF ExportsIn
<1>5. Seq(L) \subseteq Seq(File) /\ Seq(Seq(L)) \subseteq Seq(Seq(File))
  BY SeqMono
<1>6. ASSUME NEW fs \in Seq(L) PROVE LevelIn(tab)[fs] = LevelIn(tab2)[fs]
  <2>1. \A k \in DOMAIN fs : fs[k] \in L
    BY LenProperties
  <2>2. Image(ExportsIn(tab), fs) = Image(ExportsIn(tab2), fs)
    BY <1>4, <2>1 DEF Image
  <2>3. fs \in Seq(File)
    BY <1>5
  <2>4. QED
    BY <2>2, <2>3 DEF LevelIn
<1>7. ASSUME NEW gss \in Seq(Seq(L)) PROVE OpenIn(tab, gss) = OpenIn(tab2, gss)
  <2>1. \A k \in DOMAIN gss : gss[k] \in Seq(L)
    BY LenProperties
  <2>2. Image(LevelIn(tab), gss) = Image(LevelIn(tab2), gss)
    BY <1>6, <2>1 DEF Image
  <2>3. QED
    BY <2>2 DEF OpenIn
<1>8. ASSUME NEW i \in 1..p
      PROVE  /\ OpenIn(tab, From(fss, i)) = OpenIn(tab2, From(fss, i))
             /\ LevelIn(tab)[fss[i]] = LevelIn(tab2)[fss[i]]
  <2>1. i \in 1..q
    BY <1>3
  <2>2. fss[i] \in Seq(L) /\ From(fss, i) \in Seq(Seq(L))
    BY <1>2, <2>1, FromType, LenProperties
  <2>3. QED
    BY <1>6, <1>7, <2>2
<1>9. QED
  BY <1>3, <1>8 DEF ScopesIn

\* While nothing is opened it does not matter how many lists of opened files
\* there are: pervasive_load leaves one too many.
LEMMA ScopesEmpty ==
  ASSUME NEW tab, NEW tab2, NEW ks \in Seq(Kind), NEW ms, Len(ms) \in Nat,
         NEW fss \in Seq(Seq(File)), Deep(ms, fss, ks), AllEmpty(fss),
         NEW gss \in Seq(Seq(File)), Deep(ms, gss, ks), AllEmpty(gss)
  PROVE  ScopesIn(tab, ms, fss, ks) = ScopesIn(tab2, ms, gss, ks)
<1>1. PICK p \in Nat : p = Len(ks)
  BY LenProperties
<1>2. DOMAIN ks = 1..p
  BY <1>1, LenProperties
<1>3. ASSUME NEW t, NEW hss \in Seq(Seq(File)), Deep(ms, hss, ks), AllEmpty(hss), NEW i \in 1..p
      PROVE  OpenIn(t, From(hss, i)) = Nil /\ LevelIn(t)[hss[i]] = Nil
  <2>1. PICK q \in Nat : q = Len(hss)
    BY LenProperties
  <2>2. i \in 1..q /\ DOMAIN hss = 1..q
    BY <1>1, <1>3, <2>1, LenProperties DEF Deep
  <2>3. hss[i] = <<>>
    BY <1>3, <2>2 DEF AllEmpty
  <2>4. LevelIn(t)[hss[i]] = Nil
    BY <2>3, OpenFacts
  <2>5. From(hss, i) = [j \in 1..(q - i + 1) |-> hss[i + j - 1]]
    BY <2>1 DEF From
  <2>6. ASSUME NEW j \in 1..(q - i + 1) PROVE hss[i + j - 1] = <<>>
    <3>1. PICK k \in 1..q : k = i + j - 1
      BY <2>2
    <3>2. hss[k] = <<>>
      BY <1>3, <2>2 DEF AllEmpty
    <3>3. QED
      BY <3>1, <3>2
  <2>7. PICK ls : ls = Image(LevelIn(t), From(hss, i))
    OBVIOUS
  <2>8. \A k \in DOMAIN ls : ls[k] = Nil
    <3>1. LevelIn(t)[<<>>] = Nil
      BY OpenFacts
    <3>2. QED
      BY <2>5, <2>6, <2>7, <3>1 DEF Image
  <2>9. ASSUME NEW n \in Name PROVE Search(ls, n) = NoItem
    <3>1. \A k \in DOMAIN ls : ls[k][n] = NoItem
      BY <2>8 DEF Nil
    <3>2. QED
      BY <3>1, SearchMiss
  <2>10. Vis(ls) = Nil
    BY <2>9 DEF Vis, Nil
  <2>11. QED
    BY <2>4, <2>7, <2>10 DEF OpenIn
<1>4. ASSUME NEW i \in 1..p
      PROVE  /\ OpenIn(tab, From(fss, i)) = OpenIn(tab2, From(gss, i))
             /\ LevelIn(tab)[fss[i]] = LevelIn(tab2)[gss[i]]
  BY <1>3
<1>5. QED
  BY <1>2, <1>4 DEF ScopesIn

-----------------------------------------------------------------------------
(* The frames of LexicalScope.                                             *)

\* Top is the frame of the innermost scope, Rest those around it.
Top == Scope(filenvmap, Head(kinds), map, maplst, fenvlst, fenvlstlst)
Rest == ScopesIn(filenvmap, maplst, fenvlstlst, Tail(kinds))

\* What is known of the stacks.
LEMMA StackFacts ==
  ASSUME IInv
  PROVE  /\ kinds \in Seq(Kind) /\ kinds # <<>>
         /\ Head(kinds) \in Kind /\ Tail(kinds) \in Seq(Kind)
         /\ kinds = <<Head(kinds)>> \o Tail(kinds)
         /\ map \in Map /\ maplst \in Seq(Map) /\ Maps \in Seq(Map)
         /\ fenvlst \in Seq(File) /\ fenvlstlst \in Seq(Seq(File))
         /\ Files \in Seq(Seq(File))
         /\ Deep(maplst, fenvlstlst, Tail(kinds)) /\ Deep(Maps, Files, kinds)
<1>1. TypeOK /\ Aligned
  BY DEF IInv
<1>2. /\ kinds \in Seq(Kind) /\ map \in Map /\ maplst \in Seq(Map)
      /\ fenvlst \in Seq(File) /\ fenvlstlst \in Seq(Seq(File))
  BY <1>1 DEF TypeOK
<1>3. Shape(kinds, maplst, fenvlstlst)
  BY <1>1 DEF Aligned
<1>4. kinds # <<>>
  BY <1>2, <1>3 DEF Shape
<1>5. kinds = <<Head(kinds)>> \o Tail(kinds)
  BY <1>2, <1>4, SplitFacts
<1>6. /\ Head(kinds) \in Kind /\ Tail(kinds) \in Seq(Kind)
      /\ Len(Tail(kinds)) = Len(kinds) - 1
  BY <1>2, <1>4, TailFacts
<1>7. Maps \in Seq(Map) /\ Len(Maps) = Len(maplst) + 1
  BY <1>2, ConsFacts DEF Maps
<1>8. Files \in Seq(Seq(File)) /\ Len(Files) = Len(fenvlstlst) + 1
  <2>1. PICK D : D = Seq(File)
    OBVIOUS
  <2>2. fenvlst \in D /\ fenvlstlst \in Seq(D)
    BY <1>2, <2>1
  <2>3. Files \in Seq(D) /\ Len(Files) = Len(fenvlstlst) + 1
    BY <2>2, ConsFacts DEF Files
  <2>4. QED
    BY <2>1, <2>3
<1>9. Len(kinds) = Len(maplst) + 1 /\ Len(maplst) <= Len(fenvlstlst)
  BY <1>3 DEF Shape
<1>10. Len(maplst) \in Nat /\ Len(fenvlstlst) \in Nat
  BY <1>2, LenProperties
<1>11. Deep(maplst, fenvlstlst, Tail(kinds)) /\ Deep(Maps, Files, kinds)
  BY <1>6, <1>7, <1>8, <1>9, <1>10 DEF Deep
<1>12. QED
  BY <1>2, <1>4, <1>5, <1>6, <1>7, <1>8, <1>11

\* The frames are those of the stacks.
LEMMA FramesNow == IInv => /\ Frames = ScopesIn(filenvmap, Maps, Files, kinds)
                           /\ Frames = <<Top>> \o Rest
                           /\ IsList(Rest) /\ IsList(Frames)
                           /\ Frames[1] = Top /\ Tail(Frames) = Rest
<1> SUFFICES ASSUME IInv
             PROVE  /\ Frames = ScopesIn(filenvmap, Maps, Files, kinds)
                    /\ Frames = <<Top>> \o Rest
                    /\ IsList(Rest) /\ IsList(Frames)
                    /\ Frames[1] = Top /\ Tail(Frames) = Rest
  OBVIOUS
<1>1. Frames = ScopesIn(filenvmap, Maps, Files, kinds)
  BY StackFacts, ScopesAre DEF Frames
<1>2. ScopesIn(filenvmap, <<map>> \o maplst, <<fenvlst>> \o fenvlstlst,
               <<Head(kinds)>> \o Tail(kinds)) = <<Top>> \o Rest
  <2>1. PICK k : k = Head(kinds)
    OBVIOUS
  <2>2. PICK ks : ks = Tail(kinds)
    OBVIOUS
  <2>3. k \in Kind /\ ks \in Seq(Kind) /\ Deep(maplst, fenvlstlst, ks)
    BY StackFacts, <2>1, <2>2
  <2>4. /\ map \in Map /\ maplst \in Seq(Map)
        /\ fenvlst \in Seq(File) /\ fenvlstlst \in Seq(Seq(File))
    BY StackFacts
  <2>5. ScopesIn(filenvmap, Put(map, maplst), Put(fenvlst, fenvlstlst), Put(k, ks))
          = Put(Scope(filenvmap, k, map, maplst, fenvlst, fenvlstlst),
                ScopesIn(filenvmap, maplst, fenvlstlst, ks))
    BY <2>3, <2>4, ScopesCons
  <2>6. QED
    BY <2>1, <2>2, <2>5 DEF Top, Rest, Put
<1>3. ScopesIn(filenvmap, Maps, Files, kinds) = <<Top>> \o Rest
  BY <1>2, StackFacts DEF Maps, Files
<1>4. IsList(Rest)
  BY StackFacts, ScopesList DEF Rest
<1>5. IsList(<<Top>> \o Rest) /\ (<<Top>> \o Rest)[1] = Top /\ Tail(<<Top>> \o Rest) = Rest
  BY <1>4, TopFacts
<1>6. QED
  BY <1>1, <1>3, <1>4, <1>5

\* And so they are after a step.
LEMMA FramesNext == IInv' => /\ Frames' = ScopesIn(filenvmap', Maps', Files', kinds')
                             /\ Frames' = <<Top'>> \o Rest'
<1>1. (IInv => /\ Frames = ScopesIn(filenvmap, Maps, Files, kinds)
               /\ Frames = <<Top>> \o Rest)'
  BY FramesNow, PTL
<1>2. QED
  BY <1>1

\* The map m with a new binding.
With(m, n, x) == [m EXCEPT ![n] = x]

\* What a declaration, the naming and the opening of a namespace do to a scope.
LEMMA BoundScope ==
  ASSUME NEW tab, NEW k, NEW m \in Map, NEW ms, NEW fs, NEW fss, NEW n \in Name, NEW x \in Item
  PROVE  Scope(tab, k, With(m, n, x), ms, fs, fss)
           = Lexical!Bound(Scope(tab, k, m, ms, fs, fss), n, x)
<1>1. x # NoItem
  BY NamesAssumption DEF Item
<1>2. Join(Vis(ms), [m EXCEPT ![n] = x]) = [Join(Vis(ms), m) EXCEPT ![n] = x]
  <2>1. DOMAIN m = Name
    BY DEF Map
  <2>2. QED
    BY <1>1, <2>1 DEF Join
<1>3. QED
  <2>1. PICK v : v = Join(Vis(ms), m)
    OBVIOUS
  <2>2. PICK r : r = [kind |-> k, vis |-> v, own |-> m,
                      open |-> Join(OpenIn(tab, fss), LevelIn(tab)[fs]),
                      opened |-> LevelIn(tab)[fs]]
    OBVIOUS
  <2>3. Scope(tab, k, m, ms, fs, fss) = r
    BY <2>1, <2>2 DEF Scope
  <2>4. [r EXCEPT !.vis[n] = x, !.own[n] = x]
          = [kind |-> k, vis |-> [v EXCEPT ![n] = x], own |-> [m EXCEPT ![n] = x],
             open |-> Join(OpenIn(tab, fss), LevelIn(tab)[fs]), opened |-> LevelIn(tab)[fs]]
    <3>1. PICK q : q = [r EXCEPT !.vis[n] = x]
      OBVIOUS
    <3>2. [r EXCEPT !.vis[n] = x, !.own[n] = x] = [q EXCEPT !.own[n] = x]
      BY <3>1
    <3>3. q = [kind |-> k, vis |-> [v EXCEPT ![n] = x], own |-> m,
               open |-> Join(OpenIn(tab, fss), LevelIn(tab)[fs]),
               opened |-> LevelIn(tab)[fs]]
      BY <2>2, <3>1
    <3>4. QED
      BY <3>2, <3>3
  <2>5. Lexical!Bound(r, n, x) = [r EXCEPT !.vis[n] = x, !.own[n] = x]
    BY DEF Lexical!Bound
  <2>6. Scope(tab, k, [m EXCEPT ![n] = x], ms, fs, fss)
          = [kind |-> k, vis |-> [v EXCEPT ![n] = x], own |-> [m EXCEPT ![n] = x],
             open |-> Join(OpenIn(tab, fss), LevelIn(tab)[fs]), opened |-> LevelIn(tab)[fs]]
    BY <1>2, <2>1 DEF Scope
  <2>7. QED
    BY <2>3, <2>4, <2>5, <2>6 DEF With

\* Joining is associative.
LEMMA JoinJoin ==
  ASSUME NEW a, NEW b, NEW c
  PROVE  Join(a, Join(b, c)) = Join(Join(a, b), c)
BY DEF Join

\* The Join of LexicalScope is that of symmap_joinwth.
LEMMA SameOps ==
  /\ \A a, b : Lexical!Join(a, b) = Join(a, b)
  /\ \A a : Lexical!Public(a) = Public(a)
  /\ Lexical!Nil = Nil
BY DEF Lexical!Join, Join, Lexical!Public, Public, Lexical!Nil, Nil

\* A file f that is opened is put before those already opened.
LEMMA OpenedScope ==
  ASSUME NEW tab, NEW k, NEW m, NEW ms, NEW fs \in Seq(File), NEW fss, NEW f \in File
  PROVE  Scope(tab, k, m, ms, Put(f, fs), fss)
           = Lexical!Opened(Scope(tab, k, m, ms, fs, fss), ExportsIn(tab)[f])
<1>1. LevelIn(tab)[Put(f, fs)] = Join(LevelIn(tab)[fs], ExportsIn(tab)[f])
  BY OpenFacts DEF Put
<1>2. Join(OpenIn(tab, fss), LevelIn(tab)[Put(f, fs)])
        = Join(Join(OpenIn(tab, fss), LevelIn(tab)[fs]), ExportsIn(tab)[f])
  BY <1>1, JoinJoin
<1>3. QED
  <2>1. PICK e : e = ExportsIn(tab)[f]
    OBVIOUS
  <2>2. PICK o : o = Join(OpenIn(tab, fss), LevelIn(tab)[fs])
    OBVIOUS
  <2>3. PICK l : l = LevelIn(tab)[fs]
    OBVIOUS
  <2>4. PICK r : r = [kind |-> k, vis |-> Join(Vis(ms), m), own |-> m, open |-> o,
                      opened |-> l]
    OBVIOUS
  <2>5. Scope(tab, k, m, ms, fs, fss) = r
    BY <2>2, <2>3, <2>4 DEF Scope
  <2>6. Lexical!Opened(r, e) = [r EXCEPT !.open = Join(r.open, e), !.opened = Join(r.opened, e)]
    BY SameOps DEF Lexical!Opened
  <2>7. [r EXCEPT !.open = Join(r.open, e), !.opened = Join(r.opened, e)]
          = [kind |-> k, vis |-> Join(Vis(ms), m), own |-> m, open |-> Join(o, e),
             opened |-> Join(l, e)]
    <3>1. r.open = o /\ r.opened = l
      BY <2>4
    <3>2. PICK q : q = [r EXCEPT !.open = Join(o, e)]
      OBVIOUS
    <3>3. [r EXCEPT !.open = Join(o, e), !.opened = Join(l, e)]
            = [q EXCEPT !.opened = Join(l, e)]
      BY <3>2
    <3>4. q = [kind |-> k, vis |-> Join(Vis(ms), m), own |-> m, open |-> Join(o, e),
               opened |-> l]
      BY <2>4, <3>2
    <3>5. QED
      BY <3>1, <3>3, <3>4
  <2>8. Scope(tab, k, m, ms, Put(f, fs), fss)
          = [kind |-> k, vis |-> Join(Vis(ms), m), own |-> m, open |-> Join(o, e),
             opened |-> Join(l, e)]
    BY <1>1, <1>2, <2>1, <2>2, <2>3 DEF Scope
  <2>9. QED
    BY <2>1, <2>5, <2>6, <2>7, <2>8

\* The scope that trans2_env_push makes.
LEMMA FrameScope ==
  ASSUME NEW tab, NEW k, NEW ms, NEW fss
  PROVE  Scope(tab, k, Nil, ms, <<>>, fss) = Lexical!Frame(k, Vis(ms), OpenIn(tab, fss))
<1>1. Join(Vis(ms), Nil) = Vis(ms) /\ Join(OpenIn(tab, fss), Nil) = OpenIn(tab, fss)
  BY DEF Join, Vis, OpenIn, Nil
<1>2. LevelIn(tab)[<<>>] = Nil
  BY OpenFacts
<1>3. QED
  BY <1>1, <1>2, SameOps DEF Scope, Lexical!Frame

\* What the innermost scope lets one see.
LEMMA TopSees ==
  ASSUME IInv
  PROVE  /\ Top.kind = Head(kinds) /\ Top.own = map
         /\ Top.vis = Vis(Maps) /\ Top.open = OpenIn(filenvmap, Files)
<1>1. Vis(Maps) = Join(Vis(maplst), map)
  BY StackFacts, VisCons DEF Maps
<1>2. OpenIn(filenvmap, Files) = Join(OpenIn(filenvmap, fenvlstlst), LevelIn(filenvmap)[fenvlst])
  BY StackFacts, OpenFacts DEF Files
<1>3. QED
  BY <1>1, <1>2 DEF Top, Scope

\* The files that wait are not affected by what is done in the one that is
\* translated.
LEMMA UnitsSame ==
  ASSUME UNCHANGED <<callers, savedlst, nsaved, filenvmap>>
  PROVE  UNCHANGED Units
BY DEF Units, Scopes, NamespaceSearch, Levels, Level, Exports

-----------------------------------------------------------------------------
(* The steps.                                                              *)

\* A name is bound in the innermost scope.
LEMMA FramesBound ==
  ASSUME IInv, IInv', NEW n \in Name, NEW x \in Item, map' = [map EXCEPT ![n] = x],
         UNCHANGED <<maplst, namespace, filenvmap, kinds>>
  PROVE  Frames' = Lexical!SetTop(Lexical!Bound(Frames[1], n, x))
<1>1. Frames[1] = Top /\ Tail(Frames) = Rest /\ Frames' = <<Top'>> \o Rest'
  BY FramesNow, FramesNext
<1>2. Rest' = Rest
  BY DEF Rest, namespace
<1>3. Top' = Lexical!Bound(Top, n, x)
  <2>1. Top' = Scope(filenvmap, Head(kinds), [map EXCEPT ![n] = x], maplst, fenvlst, fenvlstlst)
    BY DEF Top, namespace
  <2>2. map \in Map
    BY StackFacts
  <2>3. Scope(filenvmap, Head(kinds), With(map, n, x), maplst, fenvlst, fenvlstlst)
          = Lexical!Bound(Scope(filenvmap, Head(kinds), map, maplst, fenvlst, fenvlstlst), n, x)
    BY <2>2, BoundScope
  <2>4. QED
    BY <2>1, <2>3 DEF Top, With
<1>4. QED
  BY <1>1, <1>2, <1>3 DEF Lexical!SetTop

\* A file is opened in the innermost scope.
LEMMA FramesOpened ==
  ASSUME IInv, IInv', NEW f \in Loaded, fenvlst' = <<f>> \o fenvlst,
         UNCHANGED <<symenv, fenvlstlst, filenvmap, kinds>>
  PROVE  \E m \in filenvmap[f] :
            Frames' = Lexical!SetTop(Lexical!Opened(Frames[1], Lexical!Public(m)))
<1>1. Frames[1] = Top /\ Tail(Frames) = Rest /\ Frames' = <<Top'>> \o Rest'
  BY FramesNow, FramesNext
<1>2. Rest' = Rest
  BY DEF Rest, symenv
<1>3. f \in File
  BY DEF Loaded
<1>4. Top' = Lexical!Opened(Top, ExportsIn(filenvmap)[f])
  <2>1. Top' = Scope(filenvmap, Head(kinds), map, maplst, Put(f, fenvlst), fenvlstlst)
    BY DEF Top, symenv, Put
  <2>2. fenvlst \in Seq(File)
    BY StackFacts
  <2>3. QED
    BY <1>3, <2>1, <2>2, OpenedScope DEF Top
<1>5. PICK m \in filenvmap[f] : m = OneOf(filenvmap[f])
  BY DEF Loaded, OneOf
<1>6. ExportsIn(filenvmap)[f] = Lexical!Public(m)
  BY <1>3, <1>5, SameOps DEF ExportsIn
<1>7. Frames' = Lexical!SetTop(Lexical!Opened(Frames[1], Lexical!Public(m)))
  BY <1>1, <1>2, <1>4, <1>6 DEF Lexical!SetTop
<1>8. QED
  BY <1>7

\* A scope is entered.
LEMMA FramesEnter ==
  ASSUME IInv, IInv', NEW k, Within(k), trans2_env_push, UNCHANGED filenvmap
  PROVE  Lexical!Enter(k)
<1>1. Frames' = <<Top'>> \o Rest' /\ Frames[1] = Top
  BY FramesNow, FramesNext
<1>2. Head(kinds') = k /\ Tail(kinds') = kinds
  BY StackFacts DEF Within
<1>3. /\ map' = Nil /\ maplst' = Maps /\ fenvlst' = <<>> /\ fenvlstlst' = Files
  BY DEF trans2_env_push, NamespacePush, SymenvPush, Maps, Files
<1>4. Rest' = Frames
  BY <1>2, <1>3, FramesNow DEF Rest
<1>5. Top' = Scope(filenvmap, k, Nil, Maps, <<>>, Files)
  BY <1>2, <1>3 DEF Top
<1>6. Top' = Lexical!Frame(k, Top.vis, Top.open)
  BY <1>5, FrameScope, TopSees
<1>7. QED
  BY <1>1, <1>4, <1>6 DEF Lexical!Enter, Lexical!top

\* A scope is left.
LEMMA FramesLeave ==
  ASSUME IInv, IInv', NEW k \in {"let", "prelude"}, Leave(k, Tail(kinds)), trans2_env_pop,
         UNCHANGED filenvmap
  PROVE  Frames' = Tail(Frames)
<1>1. maplst # <<>> /\ fenvlstlst # <<>>
  BY Suffice DEF IInv, Leave, StacksSuffice
<1>2. Maps' = maplst
  BY <1>1, StackFacts, SplitFacts DEF trans2_env_pop, SymenvPop, Maps
<1>3. Files' = fenvlstlst
  BY <1>1, StackFacts, SplitFacts DEF trans2_env_pop, NamespacePop, Files
<1>4. kinds' = Tail(kinds)
  BY DEF Leave
<1>5. Frames' = ScopesIn(filenvmap', Maps', Files', kinds')
  BY FramesNext
<1>6. Frames' = Rest
  BY <1>2, <1>3, <1>4, <1>5 DEF Rest
<1>7. QED
  BY <1>6, FramesNow

\* The scope in has opened fs.
Opens(in, tab, fs) == in.opened = LevelIn(tab)[fs]

\* What the body of a local declaration adds to the scope around it.
LEMMA JoinedScope ==
  ASSUME NEW tab, NEW k, NEW m3, NEW ms, NEW fs \in Seq(File), NEW fs3 \in Seq(File), NEW fss,
         NEW in, Opens(in, tab, fs)
  PROVE  Scope(tab, k, Join(m3, in.own), ms, fs \o fs3, fss)
           = Lexical!Joined(Scope(tab, k, m3, ms, fs3, fss), in)
<1>1. LevelIn(tab)[fs \o fs3] = Join(LevelIn(tab)[fs3], LevelIn(tab)[fs])
  BY OpenFacts
<1>2. Join(OpenIn(tab, fss), LevelIn(tab)[fs \o fs3])
        = Join(Join(OpenIn(tab, fss), LevelIn(tab)[fs3]), LevelIn(tab)[fs])
  BY <1>1, JoinJoin
<1>3. Join(Vis(ms), Join(m3, in.own)) = Join(Join(Vis(ms), m3), in.own)
  BY JoinJoin
<1>4. PICK v : v = Join(Vis(ms), m3)
  OBVIOUS
<1>5. PICK o : o = Join(OpenIn(tab, fss), LevelIn(tab)[fs3])
  OBVIOUS
<1>6. PICK l : l = LevelIn(tab)[fs3]
  OBVIOUS
<1>7. PICK a : a = in.own
  OBVIOUS
<1>8. PICK b : b = in.opened
  OBVIOUS
<1>9. PICK r : r = [kind |-> k, vis |-> v, own |-> m3, open |-> o, opened |-> l]
  OBVIOUS
<1>10. Scope(tab, k, m3, ms, fs3, fss) = r
  BY <1>4, <1>5, <1>6, <1>9 DEF Scope
<1>11. Lexical!Joined(r, in)
        = [r EXCEPT !.vis = Join(r.vis, a), !.own = Join(r.own, a),
                    !.open = Join(r.open, b), !.opened = Join(r.opened, b)]
  BY <1>7, <1>8, SameOps DEF Lexical!Joined
<1>12. Lexical!Joined(r, in) = [kind |-> k, vis |-> Join(v, a), own |-> Join(m3, a),
                                open |-> Join(o, b), opened |-> Join(l, b)]
  <2>1. r.vis = v /\ r.own = m3 /\ r.open = o /\ r.opened = l
    BY <1>9
  <2>2. PICK q1 : q1 = [r EXCEPT !.vis = Join(v, a)]
    OBVIOUS
  <2>3. PICK q2 : q2 = [q1 EXCEPT !.own = Join(m3, a)]
    OBVIOUS
  <2>4. PICK q3 : q3 = [q2 EXCEPT !.open = Join(o, b)]
    OBVIOUS
  <2>5. Lexical!Joined(r, in) = [q3 EXCEPT !.opened = Join(l, b)]
    BY <1>11, <2>1, <2>2, <2>3, <2>4
  <2>6. q1 = [kind |-> k, vis |-> Join(v, a), own |-> m3, open |-> o, opened |-> l]
    BY <1>9, <2>2
  <2>7. q2 = [kind |-> k, vis |-> Join(v, a), own |-> Join(m3, a), open |-> o, opened |-> l]
    BY <2>3, <2>6
  <2>8. q3 = [kind |-> k, vis |-> Join(v, a), own |-> Join(m3, a), open |-> Join(o, b),
              opened |-> l]
    BY <2>4, <2>7
  <2>9. QED
    BY <2>5, <2>8
<1>13. Scope(tab, k, Join(m3, in.own), ms, fs \o fs3, fss)
        = [kind |-> k, vis |-> Join(v, a), own |-> Join(m3, a), open |-> Join(o, b),
           opened |-> Join(l, b)]
  BY <1>1, <1>2, <1>3, <1>4, <1>5, <1>6, <1>7, <1>8 DEF Scope, Opens
<1>14. QED
  BY <1>10, <1>12, <1>13

\* What is after the third element.
Rest3(s) == Tail(Tail(Tail(s)))

\* The third element of a list, and what is after it.
LEMMA ThirdFacts ==
  ASSUME NEW r, IsList(r), NEW a, NEW b, NEW c
  PROVE  /\ Put(a, Put(b, Put(c, r)))[3] = c
         /\ Rest3(Put(a, Put(b, Put(c, r)))) = r
<1>1. PICK S : r \in Seq(S)
  BY DEF IsList
<1>2. PICK T : T = S \cup {a, b, c}
  OBVIOUS
<1>3. r \in Seq(T) /\ a \in T /\ b \in T /\ c \in T
  BY <1>1, <1>2, SeqMono
<1>4. PICK u : u = Put(c, r)
  OBVIOUS
<1>5. u \in Seq(T) /\ u[1] = c /\ Tail(u) = r /\ Len(u) >= 1
  <2>1. u \in Seq(T) /\ u[1] = c /\ Tail(u) = r /\ Len(u) = Len(r) + 1
    BY <1>3, <1>4, ConsFacts DEF Put
  <2>2. QED
    BY <1>3, <2>1, LenProperties
<1>6. PICK v : v = Put(b, u)
  OBVIOUS
<1>7. v \in Seq(T) /\ v[2] = c /\ Tail(v) = u /\ Len(v) >= 2
  <2>1. /\ v \in Seq(T) /\ Tail(v) = u /\ Len(v) = Len(u) + 1
        /\ \A i \in 1..Len(u) : v[i + 1] = u[i]
    BY <1>3, <1>5, <1>6, ConsFacts DEF Put
  <2>2. Len(u) \in Nat /\ 1 \in 1..Len(u) /\ 1 + 1 = 2
    BY <1>5, LenProperties
  <2>3. v[1 + 1] = u[1]
    BY <2>1, <2>2
  <2>4. QED
    BY <1>5, <2>1, <2>2, <2>3
<1>8. (<<a>> \o v)[3] = c /\ Tail(<<a>> \o v) = v
  <2>1. /\ Tail(<<a>> \o v) = v
        /\ \A i \in 1..Len(v) : (<<a>> \o v)[i + 1] = v[i]
    BY <1>3, <1>7, ConsFacts
  <2>2. Len(v) \in Nat /\ 2 \in 1..Len(v) /\ 2 + 1 = 3
    BY <1>7, LenProperties
  <2>3. (<<a>> \o v)[2 + 1] = v[2]
    BY <2>1, <2>2
  <2>4. QED
    BY <1>7, <2>1, <2>2, <2>3
<1>9. QED
  BY <1>4, <1>5, <1>6, <1>7, <1>8 DEF Put, Rest3

\* A list of two or more elements.
LEMMA TwiceFacts ==
  ASSUME NEW S, NEW s \in Seq(S), Len(s) >= 2
  PROVE  /\ Head(s) \in S /\ s[2] \in S /\ Tail(Tail(s)) \in Seq(S)
         /\ s = Put(Head(s), Put(s[2], Tail(Tail(s))))
         /\ Len(s) = Len(Tail(Tail(s))) + 2
<1>1. /\ s # <<>> /\ Tail(s) # <<>> /\ s[2] \in S /\ Head(Tail(s)) = s[2]
      /\ Tail(Tail(s)) \in Seq(S)
  BY TwoFacts
<1>2. Head(s) \in S /\ Tail(s) \in Seq(S) /\ Len(Tail(s)) = Len(s) - 1
  BY <1>1, TailFacts
<1>3. s = Put(Head(s), Tail(s))
  BY <1>1, SplitFacts DEF Put
<1>4. PICK t : t = Tail(s)
  OBVIOUS
<1>5. t \in Seq(S) /\ t # <<>>
  BY <1>1, <1>2, <1>4
<1>6. t = Put(Head(t), Tail(t)) /\ Len(Tail(t)) = Len(t) - 1
  BY <1>5, SplitFacts, TailFacts DEF Put
<1>7. Len(s) \in Nat /\ Len(t) \in Nat
  BY <1>5, LenProperties
<1>8. Len(s) = Len(Tail(Tail(s))) + 2
  BY <1>2, <1>4, <1>6, <1>7
<1>9. QED
  BY <1>1, <1>2, <1>3, <1>4, <1>6, <1>8

\* A local declaration ends.
LEMMA FramesJoined ==
  ASSUME IInv, IInv', Leave("body", Tail(Tail(kinds))), trans2_env_localjoin, UNCHANGED filenvmap
  PROVE  Frames' = <<Lexical!Joined(Frames[3], Frames[1])>> \o Tail(Tail(Tail(Frames)))
<1>1. Len(maplst) >= 2 /\ Len(fenvlstlst) >= 2
  BY Suffice DEF IInv, Leave, StacksSuffice
<1>2. PICK m2 : m2 = Head(maplst)
  OBVIOUS
<1>3. PICK m3 : m3 = maplst[2]
  OBVIOUS
<1>4. PICK ms : ms = Tail(Tail(maplst))
  OBVIOUS
<1>5. /\ m2 \in Map /\ m3 \in Map /\ ms \in Seq(Map)
      /\ maplst = Put(m2, Put(m3, ms)) /\ Len(maplst) = Len(ms) + 2
  BY <1>1, <1>2, <1>3, <1>4, StackFacts, TwiceFacts
<1>6. PICK fs2 : fs2 = Head(fenvlstlst)
  OBVIOUS
<1>7. PICK fs3 : fs3 = fenvlstlst[2]
  OBVIOUS
<1>8. PICK fss : fss = Tail(Tail(fenvlstlst))
  OBVIOUS
<1>9. /\ fs2 \in Seq(File) /\ fs3 \in Seq(File) /\ fss \in Seq(Seq(File))
      /\ fenvlstlst = Put(fs2, Put(fs3, fss)) /\ Len(fenvlstlst) = Len(fss) + 2
  <2>1. PICK D : D = Seq(File)
    OBVIOUS
  <2>2. fenvlstlst \in Seq(D)
    BY <2>1, StackFacts
  <2>3. /\ fs2 \in D /\ fs3 \in D /\ fss \in Seq(D)
        /\ fenvlstlst = Put(fs2, Put(fs3, fss)) /\ Len(fenvlstlst) = Len(fss) + 2
    BY <1>1, <1>6, <1>7, <1>8, <2>2, TwiceFacts
  <2>4. QED
    BY <2>1, <2>3
<1>10. PICK kk : kk = Tail(kinds)
  OBVIOUS
<1>11. kk \in Seq(Kind) /\ Deep(maplst, fenvlstlst, kk)
  BY <1>10, StackFacts
<1>12. Len(kk) >= 2
  BY <1>1, <1>11 DEF Deep
<1>13. PICK k2 : k2 = Head(kk)
  OBVIOUS
<1>14. PICK k3 : k3 = kk[2]
  OBVIOUS
<1>15. PICK ks : ks = Tail(Tail(kk))
  OBVIOUS
<1>16. /\ k2 \in Kind /\ k3 \in Kind /\ ks \in Seq(Kind)
       /\ kk = Put(k2, Put(k3, ks)) /\ Len(kk) = Len(ks) + 2
  BY <1>11, <1>12, <1>13, <1>14, <1>15, TwiceFacts
<1>17. Deep(ms, fss, ks)
  <2>1. Len(ms) \in Nat /\ Len(fss) \in Nat /\ Len(ks) \in Nat
    BY <1>5, <1>9, <1>16, LenProperties
  <2>2. QED
    BY <1>5, <1>9, <1>11, <1>16, <2>1 DEF Deep
<1>18. /\ Put(m3, ms) \in Seq(Map) /\ Put(fs3, fss) \in Seq(Seq(File)) /\ Put(k3, ks) \in Seq(Kind)
       /\ Len(Put(m3, ms)) = Len(ms) + 1 /\ Len(Put(fs3, fss)) = Len(fss) + 1
       /\ Len(Put(k3, ks)) = Len(ks) + 1
  <2>1. Put(m3, ms) \in Seq(Map) /\ Len(Put(m3, ms)) = Len(ms) + 1
    BY <1>5, ConsFacts DEF Put
  <2>2. Put(k3, ks) \in Seq(Kind) /\ Len(Put(k3, ks)) = Len(ks) + 1
    BY <1>16, ConsFacts DEF Put
  <2>3. PICK D : D = Seq(File)
    OBVIOUS
  <2>4. fs3 \in D /\ fss \in Seq(D)
    BY <1>9, <2>3
  <2>5. Put(fs3, fss) \in Seq(D) /\ Len(Put(fs3, fss)) = Len(fss) + 1
    BY <2>4, ConsFacts DEF Put
  <2>6. QED
    BY <2>1, <2>2, <2>3, <2>5
<1>19. Deep(Put(m3, ms), Put(fs3, fss), Put(k3, ks))
  <2>1. Len(ms) \in Nat /\ Len(fss) \in Nat /\ Len(ks) \in Nat
    BY <1>5, <1>9, <1>16, LenProperties
  <2>2. QED
    BY <1>17, <1>18, <2>1 DEF Deep
<1>20. PICK r : r = ScopesIn(filenvmap, ms, fss, ks)
  OBVIOUS
<1>21. PICK s3 : s3 = Scope(filenvmap, k3, m3, ms, fs3, fss)
  OBVIOUS
<1>22. ScopesIn(filenvmap, Put(m3, ms), Put(fs3, fss), Put(k3, ks)) = Put(s3, r)
  BY <1>5, <1>9, <1>16, <1>17, <1>20, <1>21, ScopesCons
<1>23. PICK s2 : s2 = Scope(filenvmap, k2, m2, Put(m3, ms), fs2, Put(fs3, fss))
  OBVIOUS
<1>24. Rest = Put(s2, Put(s3, r))
  <2>1. ScopesIn(filenvmap, Put(m2, Put(m3, ms)), Put(fs2, Put(fs3, fss)), Put(k2, Put(k3, ks)))
          = Put(s2, ScopesIn(filenvmap, Put(m3, ms), Put(fs3, fss), Put(k3, ks)))
    BY <1>5, <1>9, <1>16, <1>18, <1>19, <1>23, ScopesCons
  <2>2. QED
    BY <1>5, <1>9, <1>10, <1>16, <1>22, <2>1 DEF Rest
<1>25. IsList(r)
  BY <1>16, <1>20, ScopesList
<1>26. Frames[3] = s3 /\ Tail(Tail(Tail(Frames))) = r
  <2>1. Frames = Put(Top, Put(s2, Put(s3, r)))
    BY <1>24, FramesNow DEF Put
  <2>2. Put(Top, Put(s2, Put(s3, r)))[3] = s3
    BY <1>25, ThirdFacts
  <2>3. Rest3(Put(Top, Put(s2, Put(s3, r)))) = r
    BY <1>25, ThirdFacts
  <2>4. QED
    BY <2>1, <2>2, <2>3 DEF Rest3
<1>27. /\ map' = Join(m3, map) /\ maplst' = ms
       /\ fenvlst' = fenvlst \o fs3 /\ fenvlstlst' = fss
  BY <1>3, <1>4, <1>7, <1>8 DEF trans2_env_localjoin, SymenvLocalJoin, NamespaceLocalJoin
<1>28. Head(kinds') = k3 /\ Tail(kinds') = ks
  <2>1. kinds' = Tail(kk)
    BY <1>10 DEF Leave
  <2>2. Head(Tail(kk)) = kk[2]
    BY <1>11, <1>12, TwoFacts
  <2>3. QED
    BY <1>14, <1>15, <2>1, <2>2
<1>29. Rest' = r
  BY <1>20, <1>27, <1>28 DEF Rest
<1>30. Top.own = map /\ Opens(Top, filenvmap, fenvlst)
  BY DEF Top, Scope, Opens
<1>31. Top' = Lexical!Joined(s3, Top)
  <2>1. Top' = Scope(filenvmap, k3, Join(m3, Top.own), ms, fenvlst \o fs3, fss)
    BY <1>27, <1>28, <1>30 DEF Top
  <2>2. fenvlst \in Seq(File)
    BY StackFacts
  <2>3. QED
    BY <1>9, <1>21, <1>30, <2>1, <2>2, JoinedScope
<1>32. QED
  BY <1>26, <1>29, <1>31, FramesNow, FramesNext

\* A file that waits, for a given table of files.
UnitScopes(tab, c, s, v) == ScopesIn(tab, Put(s.map, s.maplst), Put(v.cur, v.lst), c.kinds)
Unit(tab, c, s, v) == [file |-> c.file, frames |-> UnitScopes(tab, c, s, v)]

\* The frames that wait are those of the stacks set aside.
UnitsAre ==
    /\ callers \in Seq([kinds : Seq(Kind), file : File \cup {Main}])
    /\ Len(savedlst) = Len(callers) /\ Len(nsaved) = Len(callers)
    /\ Units = [i \in 1..Len(callers) |-> Unit(filenvmap, callers[i], savedlst[i], nsaved[i])]

\* What is known of the stacks set aside.
LEMMA SavedFacts ==
  ASSUME IInv, NEW i \in 1..Len(callers)
  PROVE  /\ callers[i].kinds \in Seq(Kind)
         /\ savedlst[i].map \in Map /\ savedlst[i].maplst \in Seq(Map)
         /\ nsaved[i].cur \in Seq(Loaded) /\ nsaved[i].lst \in Seq(Seq(Loaded))
         /\ Shape(callers[i].kinds, savedlst[i].maplst, nsaved[i].lst)
<1>1. TypeOK /\ Aligned /\ Typed(Loaded)
  BY DEF IInv, AllLoaded
<1>2. /\ callers \in Seq([kinds : Seq(Kind), file : File \cup {Main}])
      /\ savedlst \in Seq([map : Map, maplst : Seq(Map)])
  BY <1>1 DEF TypeOK
<1>3. nsaved \in Seq([cur : Seq(Loaded), lst : Seq(Seq(Loaded))])
  BY <1>1 DEF Typed
<1>4. Len(savedlst) = Len(callers) /\ Len(nsaved) = Len(callers)
  BY <1>1 DEF Aligned
<1>5. callers[i] \in [kinds : Seq(Kind), file : File \cup {Main}]
  BY <1>2, LenProperties
<1>6. savedlst[i] \in [map : Map, maplst : Seq(Map)]
  BY <1>2, <1>4, LenProperties
<1>7. nsaved[i] \in [cur : Seq(Loaded), lst : Seq(Seq(Loaded))]
  BY <1>3, <1>4, LenProperties
<1>8. i \in DOMAIN callers
  BY <1>2, LenProperties
<1>9. Shape(callers[i].kinds, savedlst[i].maplst, nsaved[i].lst)
  BY <1>1, <1>8 DEF Aligned
<1>10. QED
  BY <1>5, <1>6, <1>7, <1>9

\* The depths of the stacks that were set aside.
LEMMA SavedDeep ==
  ASSUME NEW L, NEW ks \in Seq(Kind), NEW m \in Map, NEW ms \in Seq(Map),
         NEW fs \in Seq(L), NEW fss \in Seq(Seq(L)), Shape(ks, ms, fss)
  PROVE  /\ ks # <<>> /\ ks = Put(Head(ks), Tail(ks))
         /\ Head(ks) \in Kind /\ Tail(ks) \in Seq(Kind)
         /\ Put(m, ms) \in Seq(Map) /\ Put(fs, fss) \in Seq(Seq(L))
         /\ Len(Put(m, ms)) \in Nat
         /\ Deep(ms, fss, Tail(ks)) /\ Deep(Put(m, ms), Put(fs, fss), ks)
<1>1. Len(ks) = Len(ms) + 1 /\ Len(ms) <= Len(fss)
  BY DEF Shape
<1>2. Len(ks) \in Nat /\ Len(ms) \in Nat /\ Len(fss) \in Nat
  BY LenProperties
<1>3. ks # <<>>
  BY <1>1, <1>2
<1>4. ks = Put(Head(ks), Tail(ks))
  BY <1>3, SplitFacts DEF Put
<1>5. Head(ks) \in Kind /\ Tail(ks) \in Seq(Kind) /\ Len(Tail(ks)) = Len(ks) - 1
  BY <1>3, TailFacts
<1>6. Put(m, ms) \in Seq(Map) /\ Len(Put(m, ms)) = Len(ms) + 1
  BY ConsFacts DEF Put
<1>7. PICK D : D = Seq(L)
  OBVIOUS
<1>8. fs \in D /\ fss \in Seq(D)
  BY <1>7
<1>9. Put(fs, fss) \in Seq(D) /\ Len(Put(fs, fss)) = Len(fss) + 1
  BY <1>8, ConsFacts DEF Put
<1>10. Deep(ms, fss, Tail(ks)) /\ Deep(Put(m, ms), Put(fs, fss), ks)
  BY <1>1, <1>2, <1>5, <1>6, <1>9 DEF Deep
<1>11. Len(Put(m, ms)) \in Nat
  BY <1>2, <1>6
<1>12. Put(fs, fss) \in Seq(Seq(L))
  BY <1>7, <1>9
<1>13. QED
  BY <1>3, <1>4, <1>5, <1>6, <1>10, <1>11, <1>12

\* Lists of loaded files are lists of files.
LEMMA LoadedFiles ==
  /\ Loaded \subseteq File
  /\ Seq(Loaded) \subseteq Seq(File) /\ Seq(Seq(Loaded)) \subseteq Seq(Seq(File))
<1>1. Loaded \subseteq File
  BY DEF Loaded
<1>2. Seq(Loaded) \subseteq Seq(File)
  BY <1>1, SeqMono
<1>3. Seq(Seq(Loaded)) \subseteq Seq(Seq(File))
  BY <1>2, SeqMono
<1>4. QED
  BY <1>1, <1>2, <1>3

\* UnitsAre holds in every reachable state.
LEMMA UnitsNow == IInv => UnitsAre
<1> SUFFICES ASSUME IInv PROVE UnitsAre
  OBVIOUS
<1>1. /\ callers \in Seq([kinds : Seq(Kind), file : File \cup {Main}])
      /\ Len(savedlst) = Len(callers) /\ Len(nsaved) = Len(callers)
  BY DEF IInv, TypeOK, Aligned
<1>2. DOMAIN callers = 1..Len(callers)
  BY <1>1, LenProperties
<1>3. ASSUME NEW i \in 1..Len(callers)
      PROVE  [file |-> callers[i].file,
              frames |-> Scopes(<<savedlst[i].map>> \o savedlst[i].maplst,
                                <<nsaved[i].cur>> \o nsaved[i].lst, callers[i].kinds)]
               = Unit(filenvmap, callers[i], savedlst[i], nsaved[i])
  <2>1. PICK ks : ks = callers[i].kinds
    OBVIOUS
  <2>2. PICK m : m = savedlst[i].map
    OBVIOUS
  <2>3. PICK ms : ms = savedlst[i].maplst
    OBVIOUS
  <2>4. PICK fs : fs = nsaved[i].cur
    OBVIOUS
  <2>5. PICK fss : fss = nsaved[i].lst
    OBVIOUS
  <2>6. /\ ks \in Seq(Kind) /\ m \in Map /\ ms \in Seq(Map)
        /\ fs \in Seq(File) /\ fss \in Seq(Seq(File)) /\ Shape(ks, ms, fss)
    BY <2>1, <2>2, <2>3, <2>4, <2>5, SavedFacts, LoadedFiles
  <2>7. /\ Put(m, ms) \in Seq(Map) /\ Put(fs, fss) \in Seq(Seq(File))
        /\ Deep(Put(m, ms), Put(fs, fss), ks)
    BY <2>6, SavedDeep
  <2>8. Scopes(Put(m, ms), Put(fs, fss), ks)
          = ScopesIn(filenvmap, Put(m, ms), Put(fs, fss), ks)
    BY <2>6, <2>7, ScopesAre
  <2>9. QED
    BY <2>1, <2>2, <2>3, <2>4, <2>5, <2>8 DEF Unit, UnitScopes, Put
<1>4. Units = [i \in 1..Len(callers) |-> Unit(filenvmap, callers[i], savedlst[i], nsaved[i])]
  BY <1>2, <1>3 DEF Units
<1>5. QED
  BY <1>1, <1>4 DEF UnitsAre

\* And so they are after a step.
LEMMA UnitsNext == IInv' => UnitsAre'
<1>1. (IInv => UnitsAre)'
  BY UnitsNow, PTL
<1>2. QED
  BY <1>1

\* What a file that waits sees does not change: what it has opened is loaded
\* already, and the_filenvmap is not changed there.
LEMMA UnitStays ==
  ASSUME IInv, Next, NEW i \in 1..Len(callers)
  PROVE  UnitScopes(filenvmap', callers[i], savedlst[i], nsaved[i])
           = UnitScopes(filenvmap, callers[i], savedlst[i], nsaved[i])
<1>1. PICK ks : ks = callers[i].kinds
  OBVIOUS
<1>2. PICK m : m = savedlst[i].map
  OBVIOUS
<1>3. PICK ms : ms = savedlst[i].maplst
  OBVIOUS
<1>4. PICK fs : fs = nsaved[i].cur
  OBVIOUS
<1>5. PICK fss : fss = nsaved[i].lst
  OBVIOUS
<1>6. /\ ks \in Seq(Kind) /\ m \in Map /\ ms \in Seq(Map)
      /\ fs \in Seq(Loaded) /\ fss \in Seq(Seq(Loaded)) /\ Shape(ks, ms, fss)
  BY <1>1, <1>2, <1>3, <1>4, <1>5, SavedFacts
<1>7. /\ Put(fs, fss) \in Seq(Seq(Loaded)) /\ Deep(Put(m, ms), Put(fs, fss), ks)
      /\ Len(Put(m, ms)) \in Nat
  BY <1>6, SavedDeep
<1>8. Loaded \subseteq File /\ \A f \in Loaded : filenvmap'[f] = filenvmap[f]
  BY LoadedStep DEF IInv, Loaded
<1>9. PICK tab2 : tab2 = filenvmap'
  OBVIOUS
<1>10. PICK L : L = Loaded
  OBVIOUS
<1>11. L \subseteq File /\ Agree(tab2, filenvmap, L)
  BY <1>8, <1>9, <1>10 DEF Agree
<1>12. Put(fs, fss) \in Seq(Seq(L))
  BY <1>7, <1>10
<1>13. ScopesIn(tab2, Put(m, ms), Put(fs, fss), ks)
         = ScopesIn(filenvmap, Put(m, ms), Put(fs, fss), ks)
  <2>1. PICK mm : mm = Put(m, ms)
    OBVIOUS
  <2>2. PICK ff : ff = Put(fs, fss)
    OBVIOUS
  <2>3. PICK tab : tab = filenvmap
    OBVIOUS
  <2>4. /\ ks \in Seq(Kind) /\ ff \in Seq(Seq(L)) /\ Deep(mm, ff, ks) /\ Len(mm) \in Nat
        /\ L \subseteq File /\ Agree(tab2, tab, L)
    BY <1>6, <1>7, <1>11, <1>12, <2>1, <2>2, <2>3
  <2>5. ScopesIn(tab2, mm, ff, ks) = ScopesIn(tab, mm, ff, ks)
    BY <2>4, ScopesSame
  <2>6. QED
    BY <2>1, <2>2, <2>3, <2>5
<1>14. QED
  BY <1>1, <1>2, <1>3, <1>4, <1>5, <1>9, <1>13 DEF UnitScopes

\* A file waits: trans2_env_save.
LEMMA UnitsSaved ==
  ASSUME IInv, IInv', trans2_env_save, UNCHANGED filenvmap,
         callers' = <<[kinds |-> kinds, file |-> file]>> \o callers
  PROVE  Units' = <<[file |-> file, frames |-> Frames]>> \o Units
<1>1. UnitsAre /\ UnitsAre'
  BY UnitsNow, UnitsNext
<1>2. PICK p \in Nat : p = Len(callers)
  BY <1>1, LenProperties DEF UnitsAre
<1>3. /\ savedlst \in Seq([map : Map, maplst : Seq(Map)])
      /\ nsaved \in Seq([cur : Seq(File), lst : Seq(Seq(File))])
      /\ callers \in Seq([kinds : Seq(Kind), file : File \cup {Main}])
      /\ kinds \in Seq(Kind) /\ file \in File \cup {Main}
      /\ map \in Map /\ maplst \in Seq(Map)
      /\ fenvlst \in Seq(File) /\ fenvlstlst \in Seq(Seq(File))
  BY DEF IInv, TypeOK
<1>4. Len(savedlst) = p /\ Len(nsaved) = p
  BY <1>1, <1>2 DEF UnitsAre
<1>5. PICK c : c = [kinds |-> kinds, file |-> file]
  OBVIOUS
<1>6. PICK s : s = [map |-> map, maplst |-> maplst]
  OBVIOUS
<1>7. PICK v : v = [cur |-> fenvlst, lst |-> fenvlstlst]
  OBVIOUS
<1>8. callers' = <<c>> \o callers /\ savedlst' = <<s>> \o savedlst /\ nsaved' = <<v>> \o nsaved
  BY <1>5, <1>6, <1>7 DEF trans2_env_save
<1>9. Len(callers') = p + 1 /\ callers'[1] = c /\ \A i \in 1..p : callers'[i + 1] = callers[i]
  <2>1. PICK C : C = [kinds : Seq(Kind), file : File \cup {Main}]
    OBVIOUS
  <2>2. PICK d : d = callers'
    OBVIOUS
  <2>3. c \in C /\ callers \in Seq(C) /\ d = <<c>> \o callers
    BY <1>3, <1>5, <1>8, <2>1, <2>2
  <2>4. Len(d) = p + 1 /\ d[1] = c /\ \A i \in 1..p : d[i + 1] = callers[i]
    BY <1>2, <2>3, ConsFacts
  <2>5. QED
    BY <2>2, <2>4
<1>10. savedlst'[1] = s /\ \A i \in 1..p : savedlst'[i + 1] = savedlst[i]
  <2>1. s \in [map : Map, maplst : Seq(Map)]
    BY <1>3, <1>6
  <2>2. QED
    BY <1>3, <1>4, <1>8, <2>1, ConsFacts
<1>11. nsaved'[1] = v /\ \A i \in 1..p : nsaved'[i + 1] = nsaved[i]
  <2>1. v \in [cur : Seq(File), lst : Seq(Seq(File))]
    BY <1>3, <1>7
  <2>2. QED
    BY <1>3, <1>4, <1>8, <2>1, ConsFacts
<1>12. PICK x : x = [file |-> file, frames |-> Frames]
  OBVIOUS
<1>13. Unit(filenvmap, c, s, v) = x
  <2>1. Frames = ScopesIn(filenvmap, Maps, Files, kinds)
    BY FramesNow
  <2>2. Put(s.map, s.maplst) = Maps /\ Put(v.cur, v.lst) = Files
    BY <1>6, <1>7 DEF Put, Maps, Files
  <2>3. c.kinds = kinds /\ c.file = file
    BY <1>5
  <2>4. QED
    BY <1>12, <2>1, <2>2, <2>3 DEF Unit, UnitScopes
<1>14. PICK u : u = Units
  OBVIOUS
<1>15. PICK w : w = Units'
  OBVIOUS
<1>16. PICK tab : tab = filenvmap /\ tab = filenvmap'
  OBVIOUS
<1>17. u = [i \in 1..p |-> Unit(tab, callers[i], savedlst[i], nsaved[i])]
  BY <1>1, <1>2, <1>14, <1>16 DEF UnitsAre
<1>18. w = [i \in 1..(p + 1) |-> Unit(tab, callers'[i], savedlst'[i], nsaved'[i])]
  BY <1>1, <1>9, <1>15, <1>16 DEF UnitsAre
<1>19. w[1] = x
  BY <1>9, <1>10, <1>11, <1>13, <1>16, <1>18
<1>20. ASSUME NEW i \in 1..p PROVE w[i + 1] = u[i]
  <2>1. i + 1 \in 1..(p + 1)
    OBVIOUS
  <2>2. w[i + 1] = Unit(tab, callers'[i + 1], savedlst'[i + 1], nsaved'[i + 1])
    BY <1>18, <2>1
  <2>3. QED
    BY <1>9, <1>10, <1>11, <1>17, <2>2
<1>21. Extends(w, x, u, p)
  BY <1>17, <1>18, <1>19, <1>20 DEF Extends
<1>22. w = <<x>> \o u
  BY <1>21, ExtendsFacts
<1>23. QED
  BY <1>12, <1>14, <1>15, <1>22

\* The stacks of the file that waits come back.
Restoring ==
    /\ callers # <<>> /\ callers' = Tail(callers)
    /\ savedlst' = Tail(savedlst) /\ nsaved' = Tail(nsaved)

\* Then the file that waited last is taken off, and the others wait on unchanged.
LEMMA UnitsRestored ==
  ASSUME IInv, IInv', Next, Restoring
  PROVE  /\ Units # <<>> /\ Units' = Tail(Units)
         /\ Units[1] = Unit(filenvmap, callers[1], savedlst[1], nsaved[1])
         /\ 1 \in 1..Len(callers)
<1>1. UnitsAre /\ UnitsAre'
  BY UnitsNow, UnitsNext
<1>2. /\ savedlst \in Seq([map : Map, maplst : Seq(Map)])
      /\ nsaved \in Seq([cur : Seq(File), lst : Seq(Seq(File))])
      /\ callers \in Seq([kinds : Seq(Kind), file : File \cup {Main}])
  BY DEF IInv, TypeOK
<1>3. PICK p \in Nat : Len(callers) = p + 1
  <2>1. callers # <<>>
    BY DEF Restoring
  <2>2. Len(callers) \in Nat /\ Len(callers) # 0
    BY <1>2, <2>1, LenProperties
  <2>3. Len(callers) - 1 \in Nat /\ Len(callers) = (Len(callers) - 1) + 1
    BY <2>2
  <2>4. QED
    BY <2>3
<1>4. Len(savedlst) = p + 1 /\ Len(nsaved) = p + 1
  BY <1>1, <1>3 DEF UnitsAre
<1>5. callers # <<>> /\ savedlst # <<>> /\ nsaved # <<>>
  BY <1>2, <1>3, <1>4, EmptySeq
<1>6. Len(callers') = p /\ \A i \in 1..p : callers'[i] = callers[i + 1]
  BY <1>2, <1>3, <1>5, TailFacts DEF Restoring
<1>7. \A i \in 1..p : savedlst'[i] = savedlst[i + 1]
  BY <1>2, <1>4, <1>5, TailFacts DEF Restoring
<1>8. \A i \in 1..p : nsaved'[i] = nsaved[i + 1]
  BY <1>2, <1>4, <1>5, TailFacts DEF Restoring
<1>9. PICK w : w = Units
  OBVIOUS
<1>10. PICK u : u = Units'
  OBVIOUS
<1>11. w = [i \in 1..(p + 1) |-> Unit(filenvmap, callers[i], savedlst[i], nsaved[i])]
  BY <1>1, <1>3, <1>9 DEF UnitsAre
<1>12. u = [i \in 1..p |-> Unit(filenvmap', callers'[i], savedlst'[i], nsaved'[i])]
  BY <1>1, <1>6, <1>10 DEF UnitsAre
<1>13. ASSUME NEW i \in 1..p PROVE w[i + 1] = u[i]
  <2>1. i + 1 \in 1..Len(callers)
    BY <1>3
  <2>2. UnitScopes(filenvmap', callers[i + 1], savedlst[i + 1], nsaved[i + 1])
          = UnitScopes(filenvmap, callers[i + 1], savedlst[i + 1], nsaved[i + 1])
    BY <2>1, UnitStays
  <2>3. Unit(filenvmap', callers[i + 1], savedlst[i + 1], nsaved[i + 1])
          = Unit(filenvmap, callers[i + 1], savedlst[i + 1], nsaved[i + 1])
    BY <2>2 DEF Unit
  <2>4. w[i + 1] = Unit(filenvmap, callers[i + 1], savedlst[i + 1], nsaved[i + 1])
    BY <1>3, <1>11, <2>1
  <2>5. u[i] = Unit(filenvmap', callers[i + 1], savedlst[i + 1], nsaved[i + 1])
    BY <1>6, <1>7, <1>8, <1>12
  <2>6. QED
    BY <2>3, <2>4, <2>5
<1>14. Extends(w, w[1], u, p)
  BY <1>11, <1>12, <1>13 DEF Extends
<1>15. w = <<w[1]>> \o u
  BY <1>14, ExtendsFacts
<1>16. IsList(u)
  BY <1>12, ListOf
<1>17. Tail(w) = u
  BY <1>15, <1>16, TopFacts
<1>18. 1 \in 1..(p + 1)
  OBVIOUS
<1>19. w # <<>> /\ w[1] = Unit(filenvmap, callers[1], savedlst[1], nsaved[1])
  BY <1>11, <1>18
<1>20. QED
  BY <1>3, <1>9, <1>10, <1>17, <1>18, <1>19

\* The frames of a file whose translation begins.
LEMMA FramesEmptied ==
  ASSUME IInv, IInv', trans2_env_save, kinds' = <<"top">>
  PROVE  Frames' = <<Lexical!Frame("top", Lexical!Nil, Lexical!Nil)>>
<1>1. Frames' = <<Top'>> \o Rest'
  BY FramesNext
<1>2. Head(kinds') = "top" /\ Tail(kinds') = <<>>
  OBVIOUS
<1>3. map' = Nil /\ maplst' = <<>> /\ fenvlst' = <<>> /\ fenvlstlst' = <<>>
  BY DEF trans2_env_save
<1>4. Rest' = <<>>
  BY <1>2 DEF Rest, ScopesIn
<1>5. Top' = Scope(filenvmap', "top", Nil, <<>>, <<>>, <<>>)
  BY <1>2, <1>3 DEF Top
<1>6. PICK tab : tab = filenvmap'
  OBVIOUS
<1>7. Vis(<<>>) = Nil /\ OpenIn(tab, <<>>) = Nil
  BY VisNone, OpenFacts
<1>8. Scope(tab, "top", Nil, <<>>, <<>>, <<>>) = Lexical!Frame("top", Nil, Nil)
  BY <1>7, FrameScope
<1>9. PICK x : x = Lexical!Frame("top", Nil, Nil)
  OBVIOUS
<1>10. Frames' = <<x>> \o <<>>
  BY <1>1, <1>4, <1>5, <1>6, <1>8, <1>9
<1>11. QED
  BY <1>9, <1>10, SameOps

\* The frames of a file whose translation goes on.
LEMMA FramesRestored ==
  ASSUME IInv, IInv', Next, Restoring, kinds' = Head(callers).kinds,
         maplst' = Head(savedlst).maplst, fenvlstlst' = Head(nsaved).lst
  PROVE  /\ Units[1].frames[1] = Scope(filenvmap', Head(kinds'), Head(savedlst).map, maplst',
                                       Head(nsaved).cur, fenvlstlst')
         /\ Tail(Units[1].frames) = Rest'
         /\ Units[1].file = Head(callers).file
         /\ Head(savedlst).map \in Map /\ Head(nsaved).cur \in Seq(File)
<1>1. Units[1] = Unit(filenvmap, callers[1], savedlst[1], nsaved[1]) /\ 1 \in 1..Len(callers)
  BY UnitsRestored
<1>2. UnitScopes(filenvmap', callers[1], savedlst[1], nsaved[1])
        = UnitScopes(filenvmap, callers[1], savedlst[1], nsaved[1])
  BY <1>1, UnitStays
<1>3. /\ Head(callers) = callers[1] /\ Head(savedlst) = savedlst[1] /\ Head(nsaved) = nsaved[1]
  <2>1. /\ savedlst \in Seq([map : Map, maplst : Seq(Map)])
        /\ nsaved \in Seq([cur : Seq(File), lst : Seq(Seq(File))])
        /\ callers \in Seq([kinds : Seq(Kind), file : File \cup {Main}])
    BY DEF IInv, TypeOK
  <2>2. callers # <<>> /\ savedlst # <<>> /\ nsaved # <<>>
    BY Suffice DEF IInv, Restoring, StacksSuffice
  <2>3. QED
    BY <2>1, <2>2, TailFacts
<1>4. PICK ks : ks = callers[1].kinds
  OBVIOUS
<1>5. PICK m : m = savedlst[1].map
  OBVIOUS
<1>6. PICK ms : ms = savedlst[1].maplst
  OBVIOUS
<1>7. PICK fs : fs = nsaved[1].cur
  OBVIOUS
<1>8. PICK fss : fss = nsaved[1].lst
  OBVIOUS
<1>9. PICK tab : tab = filenvmap'
  OBVIOUS
<1>10. /\ ks \in Seq(Kind) /\ m \in Map /\ ms \in Seq(Map)
       /\ fs \in Seq(File) /\ fss \in Seq(Seq(File)) /\ Shape(ks, ms, fss)
  BY <1>1, <1>4, <1>5, <1>6, <1>7, <1>8, SavedFacts, LoadedFiles
<1>11. PICK k : k = Head(ks)
  OBVIOUS
<1>12. PICK ks1 : ks1 = Tail(ks)
  OBVIOUS
<1>13. ks = Put(k, ks1) /\ k \in Kind /\ ks1 \in Seq(Kind) /\ Deep(ms, fss, ks1)
  BY <1>10, <1>11, <1>12, SavedDeep
<1>14. ScopesIn(tab, Put(m, ms), Put(fs, fss), Put(k, ks1))
         = Put(Scope(tab, k, m, ms, fs, fss), ScopesIn(tab, ms, fss, ks1))
  BY <1>10, <1>13, ScopesCons
<1>15. PICK r : r = ScopesIn(tab, ms, fss, ks1)
  OBVIOUS
<1>16. PICK s0 : s0 = Scope(tab, k, m, ms, fs, fss)
  OBVIOUS
<1>17. IsList(r)
  BY <1>13, <1>15, ScopesList
<1>18. Units[1].frames = <<s0>> \o r
  <2>1. UnitScopes(tab, callers[1], savedlst[1], nsaved[1]) = <<s0>> \o r
    BY <1>4, <1>5, <1>6, <1>7, <1>8, <1>13, <1>14, <1>15, <1>16 DEF UnitScopes, Put
  <2>2. Units[1].frames = UnitScopes(filenvmap, callers[1], savedlst[1], nsaved[1])
    BY <1>1 DEF Unit
  <2>3. QED
    BY <1>2, <1>9, <2>1, <2>2
<1>19. Units[1].frames[1] = s0 /\ Tail(Units[1].frames) = r
  BY <1>17, <1>18, TopFacts
<1>20. Rest' = r
  BY <1>3, <1>4, <1>6, <1>8, <1>9, <1>12, <1>15 DEF Rest
<1>21. Units[1].file = Head(callers).file
  BY <1>1, <1>3 DEF Unit
<1>22. Scope(filenvmap', Head(kinds'), Head(savedlst).map, maplst', Head(nsaved).cur, fenvlstlst')
         = s0
  BY <1>3, <1>4, <1>5, <1>6, <1>7, <1>8, <1>9, <1>11, <1>16
<1>23. QED
  BY <1>3, <1>5, <1>7, <1>10, <1>19, <1>20, <1>21, <1>22

\* The end of a file: what it exports, and where its names go.
LEMMA EndFacts ==
  ASSUME IInv, IInv', Next, StaloadEnd
  PROVE  /\ file \in File /\ filenvmap'[file] = {map} /\ Frames[1] = Top
         /\ Units # <<>> /\ Top.kind = "top" /\ Top.own = map
         /\ file' = Units[1].file /\ Units' = Tail(Units)
         /\ Frames' = <<Top'>> \o Tail(Units[1].frames)
         /\ Units[1].frames[1] = Scope(filenvmap', Head(kinds'), Head(savedlst).map, maplst',
                                       Head(nsaved).cur, fenvlstlst')
         /\ Head(savedlst).map \in Map /\ Head(nsaved).cur \in Seq(File)
<1>1. Restoring /\ kinds' = Head(callers).kinds /\ file' = Head(callers).file
      /\ maplst' = Head(savedlst).maplst /\ fenvlstlst' = Head(nsaved).lst
  BY DEF StaloadEnd, Restoring
<1>2. file \in File
  BY DEF IInv, Phase, StaloadEnd
<1>3. filenvmap'[file] = {map}
  BY <1>2 DEF StaloadEnd, IInv, TypeOK
<1>4. Frames[1] = Top /\ Frames' = <<Top'>> \o Rest'
  BY FramesNow, FramesNext
<1>5. Top.kind = "top" /\ Top.own = map
  BY TopSees DEF StaloadEnd
<1>6. Units # <<>> /\ Units' = Tail(Units)
  BY <1>1, UnitsRestored
<1>7. /\ Units[1].frames[1] = Scope(filenvmap', Head(kinds'), Head(savedlst).map, maplst',
                                    Head(nsaved).cur, fenvlstlst')
      /\ Tail(Units[1].frames) = Rest' /\ Units[1].file = Head(callers).file
      /\ Head(savedlst).map \in Map /\ Head(nsaved).cur \in Seq(File)
  BY <1>1, FramesRestored
<1>8. QED
  BY <1>1, <1>2, <1>3, <1>4, <1>5, <1>6, <1>7

\* A staloaded file is opened.
LEMMA StepEndOpen ==
  ASSUME IInv, IInv', Next, StaloadEndOpen
  PROVE  Lexical!StaloadEndOpen
<1>1. StaloadEnd /\ fenvlst' = <<file>> \o Head(nsaved).cur /\ map' = Head(savedlst).map
  BY DEF StaloadEndOpen
<1>2. /\ file \in File /\ filenvmap'[file] = {map} /\ Frames[1] = Top
      /\ Units # <<>> /\ Top.kind = "top" /\ Top.own = map
      /\ file' = Units[1].file /\ Units' = Tail(Units)
      /\ Frames' = <<Top'>> \o Tail(Units[1].frames)
  BY <1>1, EndFacts
<1>3. PICK tab : tab = filenvmap'
  OBVIOUS
<1>4. PICK s0 : s0 = Units[1].frames[1]
  OBVIOUS
<1>5. PICK f : f = file
  OBVIOUS
<1>6. PICK fs : fs = Head(nsaved).cur
  OBVIOUS
<1>7. PICK fss : fss = fenvlstlst'
  OBVIOUS
<1>8. PICK ms : ms = maplst'
  OBVIOUS
<1>9. PICK k : k = Head(kinds')
  OBVIOUS
<1>10. PICK m : m = map'
  OBVIOUS
<1>11. fs \in Seq(File) /\ f \in File /\ s0 = Scope(tab, k, m, ms, fs, fss)
  BY <1>1, <1>2, <1>3, <1>4, <1>5, <1>6, <1>7, <1>8, <1>9, <1>10, EndFacts
<1>12. Top' = Scope(tab, k, m, ms, Put(f, fs), fss)
  BY <1>1, <1>3, <1>5, <1>6, <1>7, <1>8, <1>9, <1>10 DEF Top, Put
<1>13. Top' = Lexical!Opened(s0, ExportsIn(tab)[f])
  BY <1>11, <1>12, OpenedScope
<1>14. ExportsIn(tab)[f] = Lexical!Public(map)
  <2>1. OneOf({map}) = map
    BY DEF OneOf
  <2>2. tab[f] = {map}
    BY <1>2, <1>3, <1>5
  <2>3. QED
    BY <1>11, <2>1, <2>2, SameOps DEF ExportsIn
<1>15. /\ filenvmap' = [filenvmap EXCEPT ![file] = {map}] /\ UNCHANGED <<pervasive, started>>
  BY <1>1 DEF StaloadEnd
<1>16. Frames' = <<Lexical!Opened(Units[1].frames[1], Lexical!Public(Frames[1].own))>>
                   \o Tail(Units[1].frames)
  BY <1>2, <1>4, <1>13, <1>14
<1>17. QED
  BY <1>2, <1>15, <1>16 DEF Lexical!StaloadEndOpen, Lexical!top

\* A staloaded file is named.
LEMMA StepEndNamed ==
  ASSUME IInv, IInv', Next, NEW n \in Name, StaloadEndNamed(n)
  PROVE  Lexical!StaloadEndNamed(n)
<1>1. StaloadEnd /\ fenvlst' = Head(nsaved).cur /\ map' = [Head(savedlst).map EXCEPT ![n] = file]
  BY DEF StaloadEndNamed
<1>2. /\ file \in File /\ Frames[1] = Top
      /\ Units # <<>> /\ Top.kind = "top" /\ Top.own = map
      /\ file' = Units[1].file /\ Units' = Tail(Units)
      /\ Frames' = <<Top'>> \o Tail(Units[1].frames)
  BY <1>1, EndFacts
<1>3. PICK tab : tab = filenvmap'
  OBVIOUS
<1>4. PICK s0 : s0 = Units[1].frames[1]
  OBVIOUS
<1>5. PICK f : f = file
  OBVIOUS
<1>6. PICK fs : fs = fenvlst'
  OBVIOUS
<1>7. PICK fss : fss = fenvlstlst'
  OBVIOUS
<1>8. PICK ms : ms = maplst'
  OBVIOUS
<1>9. PICK k : k = Head(kinds')
  OBVIOUS
<1>10. PICK m : m = Head(savedlst).map
  OBVIOUS
<1>11. m \in Map /\ f \in Item /\ s0 = Scope(tab, k, m, ms, fs, fss)
  BY <1>1, <1>2, <1>3, <1>4, <1>5, <1>6, <1>7, <1>8, <1>9, <1>10, EndFacts DEF Item
<1>12. Top' = Scope(tab, k, With(m, n, f), ms, fs, fss)
  BY <1>1, <1>3, <1>5, <1>6, <1>7, <1>8, <1>9, <1>10 DEF Top, With
<1>13. Top' = Lexical!Bound(s0, n, f)
  BY <1>11, <1>12, BoundScope
<1>14. /\ filenvmap' = [filenvmap EXCEPT ![file] = {map}] /\ UNCHANGED <<pervasive, started>>
  BY <1>1 DEF StaloadEnd
<1>15. Frames' = <<Lexical!Bound(Units[1].frames[1], n, file)>> \o Tail(Units[1].frames)
  BY <1>2, <1>4, <1>5, <1>13
<1>16. QED
  BY <1>2, <1>14, <1>15 DEF Lexical!StaloadEndNamed, Lexical!top

\* A file begins to be translated.
LEMMA StepStaload ==
  ASSUME IInv, IInv', NEW f \in File, Staload(f)
  PROVE  Lexical!Staload(f)
<1>1. /\ started /\ filenvmap[f] = {} /\ f \notin Busy /\ trans2_env_save
      /\ kinds' = <<"top">> /\ file' = f /\ UNCHANGED <<filenvmap, started>>
      /\ callers' = <<[kinds |-> kinds, file |-> file]>> \o callers
  BY DEF Staload
<1>2. Frames' = <<Lexical!Frame("top", Lexical!Nil, Lexical!Nil)>>
  BY <1>1, FramesEmptied
<1>3. Units' = <<[file |-> file, frames |-> Frames]>> \o Units
  BY <1>1, UnitsSaved
<1>4. f # file /\ \A i \in DOMAIN Units : Units[i].file # f
  BY <1>1 DEF Busy, Units
<1>5. UNCHANGED pervasive
  BY <1>1 DEF trans2_env_save
<1>6. QED
  BY <1>1, <1>2, <1>3, <1>4, <1>5 DEF Lexical!Staload

\* The end of a file of the prelude.
LEMMA StepPreludeEnd ==
  ASSUME IInv, IInv', PreludeEnd
  PROVE  Lexical!PreludeEnd
<1>1. /\ Leave("prelude", Tail(kinds)) /\ SymenvPop /\ pervasive' = Join(pervasive, map)
      /\ filenvmap' = [filenvmap EXCEPT ![file] = {map}] /\ file' = Main
      /\ UNCHANGED <<savedlst, namespace, callers, started, ndecls>>
  BY DEF PreludeEnd
<1>2. Head(kinds) = "prelude" /\ kinds' = Tail(kinds)
  BY <1>1 DEF Leave
<1>3. ~started
  <2>1. kinds[1] = "prelude" /\ 1 \in DOMAIN kinds
    BY <1>2, StackFacts, TailFacts, EmptySeq, LenProperties
  <2>2. QED
    BY <2>1 DEF IInv, Phase, NoPrelude
<1>4. callers = <<>> /\ fenvlst = <<>> /\ AllEmpty(fenvlstlst)
  BY <1>3 DEF IInv, Phase
<1>5. Units = <<>> /\ Units' = <<>>
  BY <1>1, <1>4 DEF Units
<1>6. maplst # <<>>
  BY <1>2, Suffice DEF IInv, StacksSuffice
<1>7. Maps' = maplst
  BY <1>1, <1>6, StackFacts, SplitFacts DEF SymenvPop, Maps
<1>8. Files' = Files
  BY <1>1 DEF namespace, Files
<1>9. AllEmpty(Files) /\ Len(Files) = Len(fenvlstlst) + 1
  <2>1. PICK D : D = Seq(File)
    OBVIOUS
  <2>2. fenvlst \in D /\ fenvlstlst \in Seq(D)
    BY <2>1, StackFacts
  <2>3. PICK q \in Nat : q = Len(fenvlstlst)
    BY <2>2, LenProperties
  <2>4. /\ DOMAIN Files = 1..(q + 1) /\ Files[1] = fenvlst /\ Len(Files) = q + 1
        /\ \A i \in 1..q : Files[i + 1] = fenvlstlst[i]
    BY <2>2, <2>3, ConsFacts DEF Files
  <2>5. \A i \in 1..q : fenvlstlst[i] = <<>>
    BY <1>4, <2>2, <2>3, LenProperties DEF AllEmpty
  <2>6. ASSUME NEW j \in 1..(q + 1) PROVE Files[j] = <<>>
    <3>1. CASE j = 1
      BY <1>4, <2>4, <3>1
    <3>2. CASE j # 1
      <4>1. j - 1 \in 1..q /\ j = (j - 1) + 1
        BY <3>2
      <4>2. PICK i \in 1..q : j = i + 1
        BY <4>1
      <4>3. QED
        BY <2>4, <2>5, <4>2
    <3>3. QED
      BY <3>1, <3>2
  <2>7. QED
    BY <2>3, <2>4, <2>6 DEF AllEmpty
<1>10. Frames' = Rest
  <2>1. PICK ks : ks = Tail(kinds)
    OBVIOUS
  <2>2. PICK tab2 : tab2 = filenvmap'
    OBVIOUS
  <2>3. /\ ks \in Seq(Kind) /\ maplst \in Seq(Map)
        /\ fenvlstlst \in Seq(Seq(File)) /\ Files \in Seq(Seq(File))
        /\ Deep(maplst, fenvlstlst, ks)
    BY <2>1, StackFacts
  <2>4. Len(maplst) \in Nat /\ Len(fenvlstlst) \in Nat
    BY <2>3, LenProperties
  <2>5. Deep(maplst, Files, ks)
    BY <1>9, <2>3, <2>4 DEF Deep
  <2>6. PICK gss : gss = Files
    OBVIOUS
  <2>7. gss \in Seq(Seq(File)) /\ Deep(maplst, gss, ks) /\ AllEmpty(gss)
    BY <1>9, <2>3, <2>5, <2>6
  <2>8. ScopesIn(tab2, maplst, gss, ks) = ScopesIn(filenvmap, maplst, fenvlstlst, ks)
    BY <1>4, <2>3, <2>4, <2>7, ScopesEmpty
  <2>9. Frames' = ScopesIn(filenvmap', Maps', Files', kinds')
    BY FramesNext
  <2>10. QED
    BY <1>2, <1>7, <1>8, <2>1, <2>2, <2>6, <2>8, <2>9 DEF Rest
<1>11. Frames' = Tail(Frames) /\ Frames[1] = Top /\ Top.kind = "prelude" /\ Top.own = map
  BY <1>2, <1>10, FramesNow, TopSees
<1>12. QED
  BY <1>1, <1>5, <1>11, SameOps DEF Lexical!PreludeEnd, Lexical!top

\* Find gives a name the meaning that lexical scoping gives it.
LEMMA FindResolves ==
  ASSUME IInv, NEW n \in Name
  PROVE  Find(n) = Lexical!Resolve(n)
<1>1. /\ Frames[1] = Top /\ Top.vis = Vis(Maps) /\ Top.open = OpenIn(filenvmap, Files)
  BY FramesNow, TopSees
<1>2. Vis(Maps)[n] = Search(Maps, n)
  BY DEF Vis
<1>3. OpenIn(filenvmap, Files)[n] = NamespaceSearch(Files, n)
  <2>1. Frames = Scopes(Maps, Files, kinds) /\ Frames[1] = Top
    BY FramesNow DEF Frames
  <2>2. 1 \in DOMAIN kinds /\ SubSeq(Files, 1, Len(Files)) = Files
    BY StackFacts, EmptySeq, LenProperties
  <2>3. Frames[1].open = [i \in Name |-> NamespaceSearch(SubSeq(Files, 1, Len(Files)), i)]
    BY <2>1, <2>2 DEF Scopes
  <2>4. QED
    BY <1>1, <2>2, <2>3
<1>4. QED
  BY <1>1, <1>2, <1>3 DEF Find, Lexical!Resolve, Lexical!top

\* Each declaration, opening or naming of a namespace, and each scope, is a step
\* of LexicalScope.
LEMMA StepBinds ==
  ASSUME IInv, IInv', NEW n \in Name
  PROVE  /\ \A tag \in {"d2cst", "d2var"} :
              Declare(n, tag) => \E x \in Decl : Lexical!Declare(n, x)
         /\ \A f \in File : StaloadAgainNamed(f, n) => Lexical!StaloadAgainNamed(f, n)
         /\ \A m \in Name : AliasName(n, m) => Lexical!AliasName(n, m)
<1>1. ASSUME NEW tag \in {"d2cst", "d2var"}, Declare(n, tag)
      PROVE  \E x \in Decl : Lexical!Declare(n, x)
  <2>1. PICK x : x = <<tag, ndecls>>
    OBVIOUS
  <2>2. x \in Decl
    BY <2>1, DeclType DEF IInv, TypeOK
  <2>3. x \in Item
    BY <2>2 DEF Item
  <2>4. /\ map' = [map EXCEPT ![n] = x]
        /\ UNCHANGED <<maplst, savedlst, pervasive, namespace, filenvmap, control>>
    BY <1>1, <2>1 DEF Declare
  <2>5. Frames' = Lexical!SetTop(Lexical!Bound(Frames[1], n, x))
    BY <2>3, <2>4, FramesBound DEF control
  <2>6. UNCHANGED Units
    BY <2>4, UnitsSame DEF control, namespace
  <2>7. started \/ Frames[1].kind # "top"
    BY <1>1, FramesNow, TopSees DEF Declare, Translating
  <2>8. Lexical!Declare(n, x)
    BY <2>4, <2>5, <2>6, <2>7 DEF Lexical!Declare, Lexical!top, control
  <2>9. QED
    BY <2>2, <2>8
<1>2. ASSUME NEW f \in File, namespace_name(f, n)
      PROVE  /\ Frames' = Lexical!SetTop(Lexical!Bound(Frames[1], n, f))
             /\ UNCHANGED <<Units, file, pervasive, filenvmap, started>>
  <2>1. /\ map' = [map EXCEPT ![n] = f]
        /\ UNCHANGED <<maplst, savedlst, pervasive, namespace, filenvmap, control>>
    BY <1>2 DEF namespace_name
  <2>2. f \in Item
    BY DEF Item
  <2>3. Frames' = Lexical!SetTop(Lexical!Bound(Frames[1], n, f))
    BY <2>1, <2>2, FramesBound DEF control
  <2>4. UNCHANGED Units
    BY <2>1, UnitsSame DEF control, namespace
  <2>5. QED
    BY <2>1, <2>3, <2>4 DEF control
<1>3. ASSUME NEW f \in File, StaloadAgainNamed(f, n) PROVE Lexical!StaloadAgainNamed(f, n)
  BY <1>2, <1>3 DEF StaloadAgainNamed, Lexical!StaloadAgainNamed, Lexical!top
<1>4. ASSUME NEW m \in Name, AliasName(n, m) PROVE Lexical!AliasName(n, m)
  <2>1. PICK f : f = Find(m)
    OBVIOUS
  <2>2. f \in File /\ started /\ namespace_name(f, n) /\ Lexical!Resolve(m) = f
    BY <1>4, <2>1, FindResolves DEF AliasName
  <2>3. QED
    BY <1>2, <2>2 DEF Lexical!AliasName, Lexical!top
<1>5. QED
  BY <1>1, <1>3, <1>4

\* A namespace is opened.
LEMMA StepOpens ==
  ASSUME IInv, IInv'
  PROVE  /\ \A f \in File : StaloadAgainOpen(f) => Lexical!StaloadAgainOpen(f)
         /\ \A n \in Name : OpenName(n) => Lexical!OpenName(n)
<1>1. ASSUME NEW f \in Loaded, namespace_add(f)
      PROVE  /\ \E m \in filenvmap[f] :
                   Frames' = Lexical!SetTop(Lexical!Opened(Frames[1], Lexical!Public(m)))
             /\ UNCHANGED <<Units, file, pervasive, filenvmap, started>>
  <2>1. /\ fenvlst' = <<f>> \o fenvlst
        /\ UNCHANGED <<symenv, fenvlstlst, nsaved, filenvmap, control>>
    BY <1>1 DEF namespace_add
  <2>2. \E m \in filenvmap[f] :
            Frames' = Lexical!SetTop(Lexical!Opened(Frames[1], Lexical!Public(m)))
    BY <2>1, FramesOpened DEF control
  <2>3. UNCHANGED Units
    BY <2>1, UnitsSame DEF control, symenv
  <2>4. QED
    BY <2>1, <2>2, <2>3 DEF control, symenv
<1>2. ASSUME NEW f \in File, StaloadAgainOpen(f) PROVE Lexical!StaloadAgainOpen(f)
  <2>1. f \in Loaded
    BY <1>2 DEF StaloadAgainOpen, Loaded
  <2>2. QED
    BY <1>1, <1>2, <2>1 DEF StaloadAgainOpen, Lexical!StaloadAgainOpen, Lexical!top
<1>3. ASSUME NEW n \in Name, OpenName(n) PROVE Lexical!OpenName(n)
  <2>1. PICK f : f = Find(n)
    OBVIOUS
  <2>2. started /\ f \in File /\ namespace_add(f) /\ Lexical!Resolve(n) = f
    BY <1>3, <2>1, FindResolves DEF OpenName
  <2>3. f \in Loaded
    BY <2>1, <2>2, FindLoaded DEF IInv, AllLoaded
  <2>4. QED
    BY <1>1, <2>2, <2>3 DEF Lexical!OpenName, Lexical!top
<1>4. QED
  BY <1>2, <1>3

\* A scope is entered or left.
LEMMA StepScopes ==
  ASSUME IInv, IInv'
  PROVE  /\ Let => Lexical!Let
         /\ LetEnd => Lexical!LetEnd
         /\ Local => Lexical!Local
         /\ LocalIn => Lexical!LocalIn
         /\ LocalEnd => Lexical!LocalEnd
<1>1. Frames[1] = Top /\ Top.kind = Head(kinds)
  BY FramesNow, TopSees
<1>2. ASSUME Let PROVE Lexical!Let
  <2>1. /\ Translating /\ Within("let") /\ trans2_env_push
        /\ UNCHANGED <<filenvmap, file, callers, started>>
    BY <1>2 DEF Let
  <2>2. Lexical!Enter("let")
    BY <2>1, FramesEnter
  <2>3. UNCHANGED Units
    BY <2>1, UnitsSame DEF trans2_env_push
  <2>4. UNCHANGED <<Units, file, pervasive, filenvmap, started>>
    BY <2>1, <2>3 DEF trans2_env_push
  <2>5. started \/ Frames[1].kind # "top"
    BY <1>1, <2>1 DEF Translating
  <2>6. QED
    BY <2>2, <2>4, <2>5 DEF Lexical!Let, Lexical!top
<1>3. ASSUME Local PROVE Lexical!Local
  <2>1. /\ Translating /\ Within("head") /\ trans2_env_push
        /\ UNCHANGED <<filenvmap, file, callers, started>>
    BY <1>3 DEF Local
  <2>2. Lexical!Enter("head")
    BY <2>1, FramesEnter
  <2>3. UNCHANGED Units
    BY <2>1, UnitsSame DEF trans2_env_push
  <2>4. UNCHANGED <<Units, file, pervasive, filenvmap, started>>
    BY <2>1, <2>3 DEF trans2_env_push
  <2>5. started \/ Frames[1].kind # "top"
    BY <1>1, <2>1 DEF Translating
  <2>6. QED
    BY <2>2, <2>4, <2>5 DEF Lexical!Local, Lexical!top
<1>4. ASSUME LocalIn PROVE Lexical!LocalIn
  <2>1. /\ Head(kinds) = "head" /\ Within("body") /\ trans2_env_push
        /\ UNCHANGED <<filenvmap, file, callers, started>>
    BY <1>4 DEF LocalIn
  <2>2. Lexical!Enter("body")
    BY <2>1, FramesEnter
  <2>3. UNCHANGED Units
    BY <2>1, UnitsSame DEF trans2_env_push
  <2>4. UNCHANGED <<Units, file, pervasive, filenvmap, started>>
    BY <2>1, <2>3 DEF trans2_env_push
  <2>5. Frames[1].kind = "head"
    BY <1>1, <2>1
  <2>6. QED
    BY <2>2, <2>4, <2>5 DEF Lexical!LocalIn, Lexical!top
<1>5. ASSUME LetEnd PROVE Lexical!LetEnd
  <2>1. /\ Leave("let", Tail(kinds)) /\ trans2_env_pop
        /\ UNCHANGED <<filenvmap, file, callers, started>>
    BY <1>5 DEF LetEnd
  <2>2. Frames' = Tail(Frames)
    BY <2>1, FramesLeave
  <2>3. UNCHANGED Units
    BY <2>1, UnitsSame DEF trans2_env_pop
  <2>4. UNCHANGED <<Units, file, pervasive, filenvmap, started>>
    BY <2>1, <2>3 DEF trans2_env_pop
  <2>5. Frames[1].kind = "let"
    BY <1>1, <2>1 DEF Leave
  <2>6. QED
    BY <2>2, <2>4, <2>5 DEF Lexical!LetEnd, Lexical!top
<1>6. ASSUME LocalEnd PROVE Lexical!LocalEnd
  <2>1. /\ Leave("body", Tail(Tail(kinds))) /\ trans2_env_localjoin
        /\ UNCHANGED <<filenvmap, file, callers, started>>
    BY <1>6 DEF LocalEnd
  <2>2. Frames' = <<Lexical!Joined(Frames[3], Frames[1])>> \o Tail(Tail(Tail(Frames)))
    BY <2>1, FramesJoined
  <2>3. UNCHANGED Units
    BY <2>1, UnitsSame DEF trans2_env_localjoin
  <2>4. UNCHANGED <<Units, file, pervasive, filenvmap, started>>
    BY <2>1, <2>3 DEF trans2_env_localjoin
  <2>5. Frames[1].kind = "body"
    BY <1>1, <2>1 DEF Leave
  <2>6. QED
    BY <2>2, <2>4, <2>5 DEF Lexical!LocalEnd, Lexical!top
<1>7. QED
  BY <1>2, <1>3, <1>4, <1>5, <1>6

\* The prelude begins to be loaded, and has been loaded.
LEMMA StepPrelude ==
  ASSUME IInv, IInv'
  PROVE  /\ \A f \in File : Prelude(f) => Lexical!Prelude(f)
         /\ Start => Lexical!Start
<1>1. ASSUME NEW f \in File, Prelude(f) PROVE Lexical!Prelude(f)
  <2>1. /\ ~started /\ file = Main /\ filenvmap[f] = {} /\ Within("prelude")
        /\ trans2_env_push /\ file' = f /\ UNCHANGED <<filenvmap, callers, started>>
    BY <1>1 DEF Prelude
  <2>2. Lexical!Enter("prelude")
    BY <2>1, FramesEnter
  <2>3. UNCHANGED Units
    BY <2>1, UnitsSame DEF trans2_env_push
  <2>4. QED
    BY <2>1, <2>2, <2>3 DEF Lexical!Prelude, trans2_env_push
<1>2. ASSUME Start PROVE Lexical!Start
  <2>1. /\ ~started /\ file = Main /\ started' = TRUE
        /\ UNCHANGED <<symenv, namespace, filenvmap, kinds, file, callers>>
    BY <1>2 DEF Start
  <2>2. UNCHANGED Units
    BY <2>1, UnitsSame DEF symenv, namespace
  <2>3. UNCHANGED Frames
    <3>1. Frames' = ScopesIn(filenvmap', Maps', Files', kinds')
      BY FramesNext
    <3>2. Maps' = Maps /\ Files' = Files
      BY <2>1 DEF symenv, namespace, Maps, Files
    <3>3. QED
      BY <2>1, <3>1, <3>2, FramesNow
  <2>4. UNCHANGED <<Frames, Units, file, pervasive, filenvmap>>
    BY <2>1, <2>2, <2>3 DEF symenv
  <2>5. QED
    BY <2>1, <2>4 DEF Lexical!Start
<1>3. QED
  BY <1>1, <1>2

\* Every step of the translation is a step of LexicalScope.
LEMMA LexicalStep ==
  ASSUME IInv, IInv', Next
  PROVE  Lexical!Next
<1>1. ASSUME NEW n \in Name, NEW tag \in {"d2cst", "d2var"}, Declare(n, tag)
      PROVE  Lexical!Next
  BY <1>1, StepBinds DEF Lexical!Next
<1>2. CASE Let \/ LetEnd \/ Local \/ LocalIn \/ LocalEnd
  BY <1>2, StepScopes DEF Lexical!Next
<1>3. ASSUME NEW f \in File, Staload(f) PROVE Lexical!Next
  BY <1>3, StepStaload DEF Lexical!Next
<1>4. ASSUME NEW f \in File, StaloadAgainOpen(f) PROVE Lexical!Next
  BY <1>4, StepOpens DEF Lexical!Next
<1>5. ASSUME NEW f \in File, Prelude(f) PROVE Lexical!Next
  BY <1>5, StepPrelude DEF Lexical!Next
<1>6. CASE StaloadEndOpen
  BY <1>6, StepEndOpen DEF Lexical!Next
<1>7. CASE PreludeEnd
  BY <1>7, StepPreludeEnd DEF Lexical!Next
<1>8. CASE Start
  BY <1>8, StepPrelude DEF Lexical!Next
<1>9. ASSUME NEW n \in Name, StaloadEndNamed(n) PROVE Lexical!Next
  BY <1>9, StepEndNamed DEF Lexical!Next
<1>10. ASSUME NEW n \in Name, OpenName(n) PROVE Lexical!Next
  BY <1>10, StepOpens DEF Lexical!Next
<1>11. ASSUME NEW n \in Name, NEW f \in File, StaloadAgainNamed(f, n) PROVE Lexical!Next
  BY <1>11, StepBinds DEF Lexical!Next
<1>12. ASSUME NEW n \in Name, NEW m \in Name, AliasName(n, m) PROVE Lexical!Next
  BY <1>12, StepBinds DEF Lexical!Next
<1>13. QED
  BY <1>1, <1>2, <1>3, <1>4, <1>5, <1>6, <1>7, <1>8, <1>9, <1>10, <1>11, <1>12 DEF Next

\* The translation begins with one empty frame.
LEMMA LexicalInit == Init => Lexical!Init
<1> SUFFICES ASSUME Init PROVE Lexical!Init
  OBVIOUS
<1>1. IInv
  BY IInvInit
<1>2. Frames = <<Top>> \o Rest
  BY <1>1, FramesNow
<1>3. /\ kinds = <<"top">> /\ map = Nil /\ maplst = <<>> /\ fenvlst = <<>> /\ fenvlstlst = <<>>
  BY DEF Init
<1>4. Head(kinds) = "top" /\ Tail(kinds) = <<>>
  BY <1>3
<1>5. Rest = <<>>
  BY <1>4 DEF Rest, ScopesIn
<1>6. PICK tab : tab = filenvmap
  OBVIOUS
<1>7. Vis(<<>>) = Nil /\ OpenIn(tab, <<>>) = Nil
  BY VisNone, OpenFacts
<1>8. Scope(tab, "top", Nil, <<>>, <<>>, <<>>) = Lexical!Frame("top", Nil, Nil)
  BY <1>7, FrameScope
<1>9. Top = Lexical!Frame("top", Lexical!Nil, Lexical!Nil)
  BY <1>3, <1>4, <1>6, <1>8, SameOps DEF Top
<1>10. Frames = <<Lexical!Frame("top", Lexical!Nil, Lexical!Nil)>>
  <2>1. PICK x : x = Lexical!Frame("top", Lexical!Nil, Lexical!Nil)
    OBVIOUS
  <2>2. Frames = <<x>> \o <<>>
    BY <1>2, <1>5, <1>9, <2>1
  <2>3. QED
    BY <2>1, <2>2
<1>11. Units = <<>>
  BY DEF Init, Units
<1>12. QED
  BY <1>10, <1>11, SameOps DEF Init, Lexical!Init

\* The stacks that are pushed, joined, set aside and brought back give each name
\* the meaning that lexical scoping gives it: at every point of the translation
\* what the_s2expenv_find and its like find is what LexicalScope says.
THEOREM Trans2EnvIsLexical == Spec => ImplementsLexicalScope
<1>1. IInv /\ IInv' /\ [Next]_vars => [Lexical!Next]_Lexical!vars
  <2> SUFFICES ASSUME IInv, IInv', [Next]_vars PROVE [Lexical!Next]_Lexical!vars
    OBVIOUS
  <2>1. CASE Next
    BY <2>1, LexicalStep
  <2>2. CASE UNCHANGED vars
    <3>1. UNCHANGED Units
      BY <2>2, UnitsSame DEF vars, symenv, namespace, control
    <3>2. UNCHANGED Frames
      <4>1. Frames' = ScopesIn(filenvmap', Maps', Files', kinds')
        BY FramesNext
      <4>2. Maps' = Maps /\ Files' = Files /\ filenvmap' = filenvmap /\ kinds' = kinds
        BY <2>2 DEF vars, symenv, namespace, control, Maps, Files
      <4>3. QED
        BY <4>1, <4>2, FramesNow
    <3>3. QED
      BY <2>2, <3>1, <3>2 DEF vars, symenv, control, Lexical!vars
  <2>3. QED
    BY <2>1, <2>2
<1>2. QED
  BY <1>1, LexicalInit, Invariant, PTL DEF Spec, ImplementsLexicalScope, Lexical!Spec

-----------------------------------------------------------------------------
(* The files of the first translation: Trans1Files.                        *)
(*                                                                         *)
(* Calls and files on the stack are numbered from the outermost one on, so *)
(* that an entry keeps its number.  Each call has put one file or two on   *)
(* the stack: H[d] is the height that the stack has with those of the      *)
(* first d calls.                                                          *)

Texts == UNION {Seq(T1!Written(f)) : f \in SourceFile}
FCall == {c \in [op : T1!Op \cup {"input"}, file : SourceFile, todo : Texts] :
             c.todo \in Seq(T1!Written(c.file))}

Nested(cs) == [d \in 1..Len(cs) |-> cs[Len(cs) + 1 - d]]
Height(s) == Len(s.lst) + 1
Piled(s) == [p \in 1..Height(s) |->
                IF p = Height(s) THEN s.cur ELSE s.lst[Height(s) - p]]

\* With k calls C the stack of files, from the bottom on, is the first h of P.
Heights(C, k, h, H) ==
    /\ H \in [0..k -> Nat] /\ H[0] = 1 /\ H[k] = h
    /\ \A d, e \in 0..k : d <= e => H[d] <= H[e]
    /\ \A d \in 1..k : H[d] = H[d - 1] + (IF C[d].op = "staload" THEN 2 ELSE 1)
Entries(C, k, P, H) == \A d \in 1..k :
    /\ C[d].op = "input" <=> d = 1
    /\ P[H[d]] = IF C[d].op = "include" THEN C[d - 1].file ELSE C[d].file
    /\ C[d].op = "staload" => P[H[d] - 1] = C[d - 1].file
Covered(C, k, P, H) ==
    \A d \in 1..k : \A p \in 2..H[d] : \E e \in 1..d : P[p] = C[e].file
Distinct(C, k) == \A d, e \in 1..k : C[d].file = C[e].file => d = e

Fits(C, k, P, h, H) ==
    /\ Heights(C, k, h, H) /\ Entries(C, k, P, H) /\ Covered(C, k, P, H)
    /\ Distinct(C, k) /\ P[1] = Main

SameCalls(C, D, k) == \A d \in 1..k : D[d].op = C[d].op /\ D[d].file = C[d].file
SamePile(P, Q, h) == \A p \in 1..h : Q[p] = P[p]

\* What the first k calls have pushed is there as long as they are.
LEMMA FitsPrefix ==
    ASSUME NEW C, NEW k \in Nat, NEW P, NEW h \in Nat, NEW H, Fits(C, k, P, h, H),
           NEW j \in 0..k, NEW D, SameCalls(C, D, j),
           NEW Q, SamePile(P, Q, H[j])
    PROVE  \E J : Fits(D, j, Q, H[j], J)
<1> DEFINE J == [d \in 0..j |-> H[d]]
<1>1. /\ H \in [0..k -> Nat] /\ H[0] = 1
      /\ \A d, e \in 0..k : d <= e => H[d] <= H[e]
    BY DEF Fits, Heights
<1>2. \A d \in 0..j : J[d] = H[d] /\ d \in 0..k
    OBVIOUS
<1>3. \A d \in 0..j : H[d] \in Nat /\ 1 <= H[d] /\ H[d] <= H[j]
    BY <1>1
<1>4. \A d \in 1..j : d - 1 \in 0..j /\ d \in 0..j /\ d \in 1..k /\ (d # 1 => d - 1 \in 1..j)
    OBVIOUS
<1>5. J \in [0..j -> Nat] /\ J[0] = 1 /\ J[j] = H[j]
    BY <1>1
<1> HIDE DEF J
<1>6. Heights(D, j, H[j], J)
    BY <1>1, <1>2, <1>4, <1>5 DEF Fits, Heights, SameCalls
<1>7. Entries(D, j, Q, J)
    <2> SUFFICES ASSUME NEW d \in 1..j
                 PROVE  /\ D[d].op = "input" <=> d = 1
                        /\ Q[J[d]] = IF D[d].op = "include"
                                       THEN D[d - 1].file ELSE D[d].file
                        /\ D[d].op = "staload" => Q[J[d] - 1] = D[d - 1].file
        BY DEF Entries
    <2>1. D[d].op = C[d].op /\ D[d].file = C[d].file /\ J[d] = H[d]
        BY <1>2, <1>4 DEF SameCalls
    <2>2. d # 1 => D[d - 1].file = C[d - 1].file
        BY <1>4 DEF SameCalls
    <2>3. Q[H[d]] = P[H[d]]
        BY <1>3, <1>4 DEF SamePile
    <2>4. C[d].op = "staload" => H[d] - 1 \in 1..H[j]
        BY SMTT(30), <1>1, <1>3, <1>4 DEF Fits, Heights
    <2>5. C[d].op = "staload" => Q[H[d] - 1] = P[H[d] - 1]
        BY <2>4 DEF SamePile
    <2>6. /\ C[d].op = "input" <=> d = 1
          /\ P[H[d]] = IF C[d].op = "include" THEN C[d - 1].file ELSE C[d].file
          /\ C[d].op = "staload" => P[H[d] - 1] = C[d - 1].file
        BY <1>4 DEF Fits, Entries
    <2> QED BY <2>1, <2>2, <2>3, <2>5, <2>6
<1>8. Covered(D, j, Q, J)
    <2> SUFFICES ASSUME NEW d \in 1..j, NEW p \in 2..J[d]
                 PROVE  \E e \in 1..d : Q[p] = D[e].file
        BY DEF Covered
    <2>1. J[d] = H[d] /\ H[d] \in Nat /\ H[d] <= H[j] /\ d \in 1..k
        BY <1>2, <1>3, <1>4
    <2>2. PICK e \in 1..d : P[p] = C[e].file
        BY <2>1 DEF Fits, Covered
    <2>3. p \in 1..H[j] /\ e \in 1..j
        BY <1>1, <2>1
    <2>4. Q[p] = P[p] /\ D[e].file = C[e].file
        BY <2>3 DEF SamePile, SameCalls
    <2> QED BY <2>2, <2>4
<1>9. Distinct(D, j)
    BY <1>4 DEF Fits, Distinct, SameCalls
<1>10. Q[1] = Main
    BY <1>3 DEF Fits, SamePile
<1> QED BY <1>6, <1>7, <1>8, <1>9, <1>10 DEF Fits

\* One more call, whose file is none of those that are being translated.
LEMMA FitsPush ==
    ASSUME NEW C, NEW k \in Nat, NEW P, NEW h \in Nat, NEW H, Fits(C, k, P, h, H),
           NEW D, SameCalls(C, D, k), NEW Q, SamePile(P, Q, h),
           D[k + 1].op = "input" <=> k = 0,
           NEW g \in Nat, g = h + (IF D[k + 1].op = "staload" THEN 2 ELSE 1),
           Q[g] = IF D[k + 1].op = "include" THEN D[k].file ELSE D[k + 1].file,
           D[k + 1].op = "staload" => Q[g - 1] = D[k].file,
           \A d \in 1..k : D[d].file # D[k + 1].file
    PROVE  \E J : Fits(D, k + 1, Q, g, J)
<1> DEFINE J == [d \in 0..(k + 1) |-> IF d = k + 1 THEN g ELSE H[d]]
<1>1. /\ H \in [0..k -> Nat] /\ H[0] = 1 /\ H[k] = h
      /\ \A d, e \in 0..k : d <= e => H[d] <= H[e]
    BY DEF Fits, Heights
<1>2. \A d \in 0..k : H[d] \in Nat /\ 1 <= H[d] /\ H[d] <= h
    BY <1>1
<1>3. /\ J[k + 1] = g
      /\ \A d \in 0..k : J[d] = H[d] /\ d \in 0..(k + 1)
    OBVIOUS
<1>4. J \in [0..(k + 1) -> Nat]
    BY <1>1
<1> HIDE DEF J
<1>5. \A d \in 1..k : d - 1 \in 0..k /\ d \in 0..k /\ (d # 1 => d - 1 \in 1..k)
    OBVIOUS
<1>6. \A d \in 0..(k + 1) : d \in 0..k \/ d = k + 1
    OBVIOUS
<1>7. Heights(D, k + 1, g, J)
    <2>1. J[0] = 1
        BY <1>1, <1>3
    <2>2. ASSUME NEW d \in 0..(k + 1), NEW e \in 0..(k + 1), d <= e PROVE J[d] <= J[e]
        <3>1. CASE e \in 0..k
            <4>1. d \in 0..k
                BY <2>2, <3>1
            <4> QED BY <1>1, <1>3, <2>2, <3>1, <4>1
        <3>2. CASE e = k + 1
            <4>1. d \in 0..k => H[d] <= g
                BY <1>2
            <4> QED BY <1>3, <1>6, <3>2, <4>1
        <3> QED BY <1>6, <3>1, <3>2
    <2>3. \A d \in 1..k : J[d] = J[d - 1] + (IF D[d].op = "staload" THEN 2 ELSE 1)
        BY <1>3, <1>5 DEF Fits, Heights, SameCalls
    <2>4. J[k + 1] = J[k] + (IF D[k + 1].op = "staload" THEN 2 ELSE 1)
        BY <1>1, <1>3
    <2>5. \A d \in 1..(k + 1) : d \in 1..k \/ d = k + 1
        OBVIOUS
    <2>6. (k + 1) - 1 = k
        OBVIOUS
    <2> QED BY <2>1, <2>2, <2>3, <2>4, <2>5, <2>6, <1>3, <1>4 DEF Heights
<1>8. Entries(D, k + 1, Q, J)
    <2> SUFFICES ASSUME NEW d \in 1..(k + 1)
                 PROVE  /\ D[d].op = "input" <=> d = 1
                        /\ Q[J[d]] = IF D[d].op = "include"
                                       THEN D[d - 1].file ELSE D[d].file
                        /\ D[d].op = "staload" => Q[J[d] - 1] = D[d - 1].file
        BY DEF Entries
    <2>1. ASSUME d = k + 1
          PROVE  /\ D[d].op = "input" <=> d = 1
                 /\ Q[J[d]] = IF D[d].op = "include" THEN D[d - 1].file ELSE D[d].file
                 /\ D[d].op = "staload" => Q[J[d] - 1] = D[d - 1].file
        <3>1. d - 1 = k /\ J[d] = g /\ (k = 0 <=> d = 1)
            BY <1>3, <2>1
        <3> QED BY <2>1, <3>1
    <2>2. ASSUME d \in 1..k
          PROVE  /\ D[d].op = "input" <=> d = 1
                 /\ Q[J[d]] = IF D[d].op = "include" THEN D[d - 1].file ELSE D[d].file
                 /\ D[d].op = "staload" => Q[J[d] - 1] = D[d - 1].file
        <3>1. D[d].op = C[d].op /\ D[d].file = C[d].file /\ J[d] = H[d]
            BY <1>3, <1>5, <2>2 DEF SameCalls
        <3>2. d # 1 => D[d - 1].file = C[d - 1].file
            BY <1>5, <2>2 DEF SameCalls
        <3>3. Q[H[d]] = P[H[d]]
            BY <1>2, <1>5, <2>2 DEF SamePile
        <3>4. C[d].op = "staload" => H[d] - 1 \in 1..h
            BY SMTT(30), <1>2, <1>5, <2>2 DEF Fits, Heights
        <3>5. C[d].op = "staload" => Q[H[d] - 1] = P[H[d] - 1]
            BY <3>4 DEF SamePile
        <3>6. /\ C[d].op = "input" <=> d = 1
              /\ P[H[d]] = IF C[d].op = "include" THEN C[d - 1].file ELSE C[d].file
              /\ C[d].op = "staload" => P[H[d] - 1] = C[d - 1].file
            BY <2>2 DEF Fits, Entries
        <3> QED BY <3>1, <3>2, <3>3, <3>5, <3>6
    <2> QED BY <2>1, <2>2
<1>9. Covered(D, k + 1, Q, J)
    <2> SUFFICES ASSUME NEW d \in 1..(k + 1), NEW p \in 2..J[d]
                 PROVE  \E e \in 1..d : Q[p] = D[e].file
        BY DEF Covered
    <2>1. ASSUME p \in 2..h PROVE \E e \in 1..k : Q[p] = D[e].file
        <3>1. k # 0
            BY <1>1, <2>1
        <3>2. PICK e \in 1..k : P[p] = C[e].file
            <4>1. k \in 1..k /\ p \in 2..H[k]
                BY <1>1, <2>1, <3>1
            <4> QED BY <4>1 DEF Fits, Covered
        <3> QED BY <2>1, <3>2 DEF SamePile, SameCalls
    <2>2. CASE d \in 1..k
        <3>1. p \in 2..H[d] /\ H[d] \in Nat
            BY <1>2, <1>3, <1>5, <2>2
        <3>2. PICK e \in 1..d : P[p] = C[e].file
            BY <2>2, <3>1 DEF Fits, Covered
        <3>3. p \in 1..h /\ e \in 1..k
            BY <1>2, <1>5, <2>2, <3>1
        <3> QED BY <3>2, <3>3 DEF SamePile, SameCalls
    <2>3. CASE d = k + 1
        <3>1. p \in 2..g /\ g \in {h + 1, h + 2}
            BY <1>3, <2>3
        <3>2. CASE p \in 2..h
            BY <2>1, <2>3, <3>2
        <3>3. CASE p = g
            <4>1. D[k + 1].op = "include" => k # 0
                OBVIOUS
            <4> QED BY <2>3, <3>3, <4>1
        <3>4. CASE p = g - 1 /\ D[k + 1].op = "staload"
            <4>1. k # 0
                BY <3>4
            <4> QED BY <2>3, <3>4, <4>1
        <3>5. p \in 2..h \/ p = g \/ (p = g - 1 /\ D[k + 1].op = "staload")
            BY <3>1
        <3> QED BY <3>2, <3>3, <3>4, <3>5
    <2> QED BY <2>2, <2>3
<1>10. Distinct(D, k + 1)
    <2>1. \A d, e \in 1..k : D[d].file = D[e].file => d = e
        BY DEF Fits, Distinct, SameCalls
    <2>2. \A d \in 1..(k + 1) : d \in 1..k \/ d = k + 1
        OBVIOUS
    <2> QED BY <2>1, <2>2 DEF Distinct
<1>11. Q[1] = Main
    BY <1>2 DEF Fits, SamePile
<1> QED BY <1>7, <1>8, <1>9, <1>10, <1>11 DEF Fits

\* r is s with x in front, or without its first element.
IsPut(r, x, s) == r = <<x>> \o s
IsRest(r, s) == s # <<>> /\ r = Tail(s)

\* A call more leaves the numbers of the others alone.
LEMMA NestPush ==
    ASSUME NEW S, NEW cs \in Seq(S), NEW x \in S, NEW r, IsPut(r, x, cs)
    PROVE  /\ r \in Seq(S) /\ Len(r) = Len(cs) + 1 /\ Len(cs) \in Nat
           /\ r[1] = x /\ Nested(r)[Len(r)] = x
           /\ \A d \in 1..Len(cs) : Nested(r)[d] = Nested(cs)[d]
<1>1. <<x>> \in Seq(S) /\ Len(<<x>>) = 1 /\ <<x>>[1] = x
    OBVIOUS
<1>2. /\ r \in Seq(S) /\ Len(r) = Len(cs) + 1 /\ Len(cs) \in Nat
      /\ \A i \in 1..Len(cs) + 1 : r[i] = IF i <= 1 THEN <<x>>[i] ELSE cs[i - 1]
    BY <1>1, ConcatProperties DEF IsPut
<1>3. r[1] = x /\ \A i \in 1..Len(cs) : r[i + 1] = cs[i]
    BY <1>1, <1>2
<1>4. Nested(r)[Len(r)] = r[1]
    BY <1>2 DEF Nested
<1>5. ASSUME NEW d \in 1..Len(cs) PROVE Nested(r)[d] = Nested(cs)[d]
    <2>0. Len(cs) + 1 - d \in 1..Len(cs)
        <3>1. PICK q \in Nat : q = Len(cs)
            BY <1>2
        <3> QED BY <3>1
    <2>1. PICK i \in 1..Len(cs) : i = Len(cs) + 1 - d
        BY <2>0
    <2>2. d \in 1..Len(r) /\ Len(r) + 1 - d = i + 1
        BY <1>2, <2>1
    <2>3. Nested(r)[d] = r[i + 1] /\ Nested(cs)[d] = cs[i]
        BY <2>1, <2>2 DEF Nested
    <2> QED BY <1>3, <2>3
<1> QED BY <1>2, <1>3, <1>4, <1>5

\* So does a call less.
LEMMA NestTail ==
    ASSUME NEW S, NEW cs \in Seq(S), NEW r, IsRest(r, cs)
    PROVE  /\ r \in Seq(S) /\ Len(r) = Len(cs) - 1 /\ Len(r) \in Nat
           /\ cs[1] \in S /\ cs[1] = Nested(cs)[Len(cs)]
           /\ \A d \in 1..Len(r) : Nested(r)[d] = Nested(cs)[d]
<1>1. /\ Len(cs) \in Nat /\ Len(cs) >= 1
      /\ r \in Seq(S) /\ Len(r) = Len(cs) - 1
      /\ \A i \in 1..Len(cs) - 1 : r[i] = cs[i + 1]
    BY HeadTailProperties, EmptySeq DEF IsRest
<1>2. cs[1] \in S
    BY <1>1, ElementOfSeq
<1>3. cs[1] = Nested(cs)[Len(cs)]
    BY <1>1 DEF Nested
<1>4. ASSUME NEW d \in 1..Len(r) PROVE Nested(r)[d] = Nested(cs)[d]
    <2>0. Len(r) + 1 - d \in 1..Len(r)
        <3>1. PICK q \in Nat : q = Len(cs)
            BY <1>1
        <3>2. Len(r) = q - 1
            BY <1>1, <3>1
        <3> QED BY <3>2
    <2>1. PICK i \in 1..Len(r) : i = Len(r) + 1 - d
        BY <2>0
    <2>2. d \in 1..Len(cs) /\ Len(cs) + 1 - d = i + 1
        BY <1>1, <2>1
    <2>3. Nested(r)[d] = r[i] /\ Nested(cs)[d] = cs[i + 1]
        BY <2>1, <2>2 DEF Nested
    <2> QED BY <1>1, <2>3
<1> QED BY <1>1, <1>2, <1>3, <1>4

\* Pushing a file puts it on top.
LEMMA PilePush ==
    ASSUME NEW S, NEW s, s.lst \in Seq(S), s.cur \in S, NEW f, NEW r, r = T1!ppush(s, f)
    PROVE  /\ r.cur = f /\ r.lst \in Seq(S)
           /\ Height(r) = Height(s) + 1 /\ Height(s) \in Nat /\ Height(s) >= 1
           /\ Piled(r)[Height(r)] = f
           /\ SamePile(Piled(s), Piled(r), Height(s))
           /\ Len(r.lst) = Len(s.lst) + 1 /\ r.lst[1] = s.cur
           /\ \A i \in 1..Len(s.lst) : r.lst[i + 1] = s.lst[i]
<1>1. r.cur = f /\ r.lst = <<s.cur>> \o s.lst
    BY DEF T1!ppush
<1>2. PICK l : l = s.lst
    OBVIOUS
<1>3. PICK x : x = s.cur
    OBVIOUS
<1>4. /\ <<x>> \o l \in Seq(S) /\ Len(<<x>> \o l) = Len(l) + 1 /\ Len(l) \in Nat
      /\ (<<x>> \o l)[1] = x /\ \A i \in 1..Len(l) : (<<x>> \o l)[i + 1] = l[i]
    <2>1. l \in Seq(S) /\ x \in S
        BY <1>2, <1>3
    <2>2. <<x>> \in Seq(S) /\ Len(<<x>>) = 1 /\ <<x>>[1] = x
        BY <2>1
    <2>3. /\ <<x>> \o l \in Seq(S) /\ Len(<<x>> \o l) = Len(l) + 1 /\ Len(l) \in Nat
          /\ \A i \in 1..Len(l) + 1 :
                (<<x>> \o l)[i] = IF i <= 1 THEN <<x>>[i] ELSE l[i - 1]
        BY <2>1, <2>2, ConcatProperties
    <2> QED BY <2>2, <2>3
<1>5. PICK m : m = <<x>> \o l
    OBVIOUS
<1>6. /\ r.lst = m /\ m \in Seq(S) /\ Len(m) = Len(l) + 1 /\ Len(l) \in Nat
      /\ m[1] = x /\ \A i \in 1..Len(l) : m[i + 1] = l[i]
    BY <1>1, <1>2, <1>3, <1>4, <1>5
<1>7. Height(s) = Len(l) + 1 /\ Height(r) = Len(l) + 2
    BY <1>2, <1>6 DEF Height
<1>8. Piled(r)[Height(r)] = f
    BY <1>1, <1>6, <1>7 DEF Piled
<1>9. ASSUME NEW p \in 1..Height(s) PROVE Piled(r)[p] = Piled(s)[p]
    <2>1. Piled(r)[p] = m[Height(r) - p]
        BY <1>6, <1>7 DEF Piled
    <2>2. CASE p = Height(s)
        BY <1>3, <1>6, <1>7, <2>1, <2>2 DEF Piled
    <2>3. CASE p # Height(s)
        <3>1. PICK i \in 1..Len(l) : i = Height(s) - p
            BY <1>6, <1>7, <2>3
        <3>2. Height(r) - p = i + 1
            BY <1>6, <1>7, <3>1
        <3>3. Piled(s)[p] = l[i]
            BY <1>2, <2>3, <3>1 DEF Piled
        <3> QED BY <1>6, <2>1, <3>1, <3>2, <3>3
    <2> QED BY <2>2, <2>3
<1> QED BY <1>1, <1>2, <1>3, <1>6, <1>7, <1>8, <1>9 DEF SamePile

\* Popping one uncovers what was below.
LEMMA PilePop ==
    ASSUME NEW S, NEW s, s.lst \in Seq(S), Height(s) >= 2, NEW r, r = T1!ppop(s)
    PROVE  /\ r.cur \in S /\ r.lst \in Seq(S)
           /\ Height(r) = Height(s) - 1
           /\ SamePile(Piled(s), Piled(r), Height(r))
<1>1. r.cur = Head(s.lst) /\ r.lst = Tail(s.lst)
    BY DEF T1!ppop
<1>2. PICK l : l = s.lst
    OBVIOUS
<1>3. l \in Seq(S) /\ Len(l) \in Nat /\ Len(l) >= 1 /\ Height(s) = Len(l) + 1
    <2>1. l \in Seq(S) /\ Height(s) = Len(l) + 1
        BY <1>2 DEF Height
    <2>2. Len(l) \in Nat
        BY <2>1, LenProperties
    <2> QED BY <2>1, <2>2
<1>4. PICK m : m = Tail(l)
    OBVIOUS
<1>5. /\ m \in Seq(S) /\ Len(m) = Len(l) - 1 /\ Head(l) = l[1] /\ Head(l) \in S
      /\ \A i \in 1..Len(l) - 1 : m[i] = l[i + 1]
    BY <1>3, <1>4, HeadTailProperties, EmptySeq
<1>6. r.lst = m /\ r.cur = l[1] /\ Height(r) = Len(l)
    BY <1>1, <1>2, <1>3, <1>4, <1>5 DEF Height
<1>7. ASSUME NEW p \in 1..Height(r) PROVE Piled(r)[p] = Piled(s)[p]
    <2>1. Piled(s)[p] = l[Height(s) - p]
        BY <1>2, <1>3, <1>6 DEF Piled
    <2>2. CASE p = Height(r)
        BY <1>3, <1>6, <2>1, <2>2 DEF Piled
    <2>3. CASE p # Height(r)
        <3>1. PICK i \in 1..Len(l) - 1 : i = Len(l) - p
            BY <1>3, <1>6, <2>3
        <3>2. Piled(r)[p] = m[i] /\ Height(s) - p = i + 1
            BY <1>3, <1>6, <2>3, <3>1 DEF Piled
        <3> QED BY <1>5, <2>1, <3>1, <3>2
    <2> QED BY <2>2, <2>3
<1> QED BY <1>3, <1>5, <1>6, <1>7 DEF SamePile

\* What the_filenamelst_push_check looks through is the stack as it is.
LEMMA ListedMeans ==
    ASSUME NEW S, NEW s, s.lst \in Seq(S), s.cur \in S, NEW f
    PROVE  T1!Listed(T1!ppush(s, f)) = {Piled(s)[p] : p \in 1..Height(s)}
<1>1. PICK v : v = T1!ppush(s, f)
    OBVIOUS
<1>2. /\ v.lst \in Seq(S) /\ Height(s) \in Nat /\ Height(s) = Len(s.lst) + 1
      /\ Len(v.lst) = Len(s.lst) + 1 /\ v.lst[1] = s.cur
      /\ \A i \in 1..Len(s.lst) : v.lst[i + 1] = s.lst[i]
    BY <1>1, PilePush DEF Height
<1>3. PICK h \in Nat : h = Height(s)
    BY <1>2
<1>4. DOMAIN v.lst = 1..h
    BY <1>2, <1>3, LenProperties
<1>5. ASSUME NEW i \in 1..h PROVE v.lst[i] = Piled(s)[h + 1 - i] /\ h + 1 - i \in 1..h
    <2>1. Piled(s)[h + 1 - i] = IF h + 1 - i = h THEN s.cur ELSE s.lst[i - 1]
        BY <1>3 DEF Piled
    <2>2. CASE i = 1
        BY <1>2, <1>3, <2>1, <2>2
    <2>3. CASE i # 1
        <3>1. i - 1 \in 1..Len(s.lst) /\ (i - 1) + 1 = i
            BY <1>2, <1>3, <2>3
        <3>2. v.lst[(i - 1) + 1] = s.lst[i - 1]
            BY <1>2, <3>1
        <3> QED BY <1>3, <2>1, <2>3, <3>1, <3>2
    <2> QED BY <2>2, <2>3
<1>6. ASSUME NEW p \in 1..h PROVE \E i \in 1..h : Piled(s)[p] = v.lst[i]
    <2>1. PICK i \in 1..h : i = h + 1 - p
        <3>1. h + 1 - p \in 1..h
            OBVIOUS
        <3> QED BY <3>1
    <2>2. h + 1 - i = p
        BY <2>1
    <2> QED BY <1>5, <2>2
<1>7. T1!Listed(v) = {v.lst[i] : i \in 1..h}
    BY <1>4 DEF T1!Listed
<1>8. T1!Listed(v) \subseteq {Piled(s)[p] : p \in 1..h}
    <2>1. ASSUME NEW i \in 1..h PROVE v.lst[i] \in {Piled(s)[p] : p \in 1..h}
        BY <1>5
    <2> QED BY <1>7, <2>1
<1>9. {Piled(s)[p] : p \in 1..h} \subseteq T1!Listed(v)
    <2>1. ASSUME NEW p \in 1..h PROVE Piled(s)[p] \in {v.lst[i] : i \in 1..h}
        BY <1>6
    <2> QED BY <1>7, <2>1
<1> QED BY <1>1, <1>3, <1>8, <1>9

FilesTyped ==
    /\ calls \in Seq(FCall)
    /\ DOMAIN text = SourceFile
    /\ \A f \in SourceFile : \A ds \in text[f] : ds \in Seq(T1!Written(f))
    /\ stack.cur \in SourceFile \cup {Main}
    /\ stack.lst \in Seq(SourceFile \cup {Main})
CallsWait == \A d \in 1..Len(calls) - 1 : Nested(calls)[d].todo # <<>>
FilesPhase ==
    /\ phase \in {"idle", "given", "translating", "refused"}
    /\ phase = "idle" <=> calls = <<>>
    /\ phase = "given" => Len(calls) = 1 /\ combined = 1
    /\ broken => phase = "idle"
Balanced == ~broken =>
    \E H : Fits(Nested(calls), Len(calls), Piled(stack), Height(stack), H)

FilesInv == FilesTyped /\ CallsWait /\ FilesPhase /\ Balanced /\ T1!RefusedLoops

\* The declaration of a call that is next was written in the file of the call.
LEMMA HeadWritten ==
    ASSUME NEW c \in FCall, c.todo # <<>>
    PROVE  /\ Head(c.todo).pfil = c.file /\ Head(c.todo).file \in SourceFile \cup {Main}
           /\ Head(c.todo).op \in T1!Op /\ c.file \in SourceFile
           /\ Head(c.todo) \in T1!Decl
<1>1. PICK g : g = c.file
    OBVIOUS
<1>2. PICK l : l = c.todo
    OBVIOUS
<1>3. l \in Seq(T1!Written(g)) /\ l # <<>> /\ g \in SourceFile
    BY <1>1, <1>2 DEF FCall
<1>4. Head(l) \in T1!Written(g)
    BY <1>3
<1>5. Head(l) \in T1!Decl
    BY <1>3, <1>4 DEF T1!Decl
<1> QED BY <1>1, <1>2, <1>3, <1>4, <1>5 DEF T1!Written

\* A file that is parsed has declarations that were written in it.
LEMMA ParseTyped ==
    ASSUME FilesTyped, NEW f \in SourceFile, NEW ds, T1!Parse(f, ds)
    PROVE  /\ ds \in Seq(T1!Written(f))
           /\ DOMAIN text' = SourceFile
           /\ \A g \in SourceFile : \A es \in text'[g] : es \in Seq(T1!Written(g))
<1>1. ds \in Seq(T1!Written(f))
    <2>1. CASE text[f] # {}
        BY <2>1 DEF T1!Parse, T1!Contents, FilesTyped
    <2>2. CASE text[f] = {}
        <3>1. PICK k \in 0..(MaxSource - T1!Parsed) : ds \in [1..k -> T1!Written(f)]
            BY <2>2 DEF T1!Parse, T1!Contents
        <3>2. k \in Nat
            OBVIOUS
        <3> QED BY <3>1, <3>2, SeqDef
    <2> QED BY <2>1, <2>2
<1>2. text' = [text EXCEPT ![f] = {ds}]
    BY DEF T1!Parse
<1>3. DOMAIN text' = SourceFile
    BY <1>2 DEF FilesTyped
<1>4. \A g \in SourceFile : text'[g] = IF g = f THEN {ds} ELSE text[g]
    BY <1>2 DEF FilesTyped
<1> QED BY <1>1, <1>3, <1>4 DEF FilesTyped

\* One declaration less to translate.
LEMMA DoneFacts ==
    ASSUME NEW cs \in Seq(FCall), cs # <<>>, cs[1].todo # <<>>, NEW r, r = T1!Done(cs)
    PROVE  /\ r \in Seq(FCall) /\ Len(r) = Len(cs) /\ Len(cs) \in Nat
           /\ SameCalls(Nested(cs), Nested(r), Len(cs))
           /\ \A d \in 1..Len(cs) - 1 : Nested(r)[d] = Nested(cs)[d]
<1>1. PICK c : c = cs[1]
    OBVIOUS
<1>2. PICK m : m = Tail(cs)
    OBVIOUS
<1>3. /\ m \in Seq(FCall) /\ Len(m) = Len(cs) - 1 /\ Len(m) \in Nat
      /\ c \in FCall /\ c = Nested(cs)[Len(cs)]
      /\ \A d \in 1..Len(m) : Nested(m)[d] = Nested(cs)[d]
    <2>1. IsRest(m, cs)
        BY <1>2 DEF IsRest
    <2> QED BY <1>1, <2>1, NestTail
<1>4. PICK x : x = [c EXCEPT !.todo = Tail(@)]
    OBVIOUS
<1>5. x \in FCall /\ x.op = c.op /\ x.file = c.file
    <2>1. PICK g : g = c.file
        OBVIOUS
    <2>2. PICK l : l = c.todo
        OBVIOUS
    <2>3. l \in Seq(T1!Written(g)) /\ l # <<>> /\ g \in SourceFile
        BY <1>1, <1>3, <2>1, <2>2 DEF FCall
    <2>4. Tail(l) \in Seq(T1!Written(g))
        BY <2>3
    <2>5. Tail(l) \in Texts
        BY <2>3, <2>4 DEF Texts
    <2> QED BY <1>3, <1>4, <2>1, <2>2, <2>4, <2>5 DEF FCall
<1>6. IsPut(r, x, m)
    BY <1>1, <1>2, <1>4 DEF T1!Done, IsPut
<1>7. /\ r \in Seq(FCall) /\ Len(r) = Len(m) + 1
      /\ Nested(r)[Len(r)] = x
      /\ \A d \in 1..Len(m) : Nested(r)[d] = Nested(m)[d]
    BY <1>3, <1>5, <1>6, NestPush
<1>8. PICK q \in Nat : q = Len(m)
    BY <1>3
<1>9. Len(cs) = q + 1 /\ Len(r) = q + 1
    BY <1>3, <1>7, <1>8
<1>10. \A d \in 1..q : Nested(r)[d] = Nested(cs)[d]
    BY <1>3, <1>7, <1>8
<1>11. SameCalls(Nested(cs), Nested(r), q + 1)
    <2>1. \A d \in 1..(q + 1) : d \in 1..q \/ d = q + 1
        OBVIOUS
    <2> QED BY <1>3, <1>5, <1>7, <1>9, <1>10, <2>1 DEF SameCalls
<1> QED BY <1>7, <1>9, <1>10, <1>11

\* Before the first input the stack has no file.
LEMMA FilesInit == ASSUME T1!Init PROVE FilesInv
<1>1. /\ calls = <<>> /\ Len(calls) = 0 /\ broken = FALSE /\ phase = "idle"
      /\ stack.cur = Main /\ stack.lst = <<>> /\ Len(stack.lst) = 0
      /\ text = [f \in SourceFile |-> {}]
    BY DEF T1!Init
<1>2. FilesTyped /\ CallsWait /\ FilesPhase /\ T1!RefusedLoops
    BY <1>1 DEF FilesTyped, CallsWait, FilesPhase, T1!RefusedLoops
<1>3. Height(stack) = 1 /\ Piled(stack)[1] = Main
    BY <1>1 DEF Height, Piled
<1> DEFINE H == [d \in 0..0 |-> 1]
<1>4. Fits(Nested(calls), 0, Piled(stack), 1, H)
    BY <1>3 DEF Fits, Heights, Entries, Covered, Distinct
<1> QED BY <1>1, <1>2, <1>3, <1>4 DEF FilesInv, Balanced

\* While something is translated, the stack is in order.
LEMMA FilesNow ==
    ASSUME FilesInv, calls # <<>>
    PROVE  /\ ~broken /\ Len(calls) \in Nat /\ Len(calls) >= 1
           /\ calls \in Seq(FCall) /\ calls[1] \in FCall
           /\ calls[1] = Nested(calls)[Len(calls)]
           /\ Height(stack) \in Nat /\ Height(stack) >= 1
           /\ \E H : Fits(Nested(calls), Len(calls), Piled(stack), Height(stack), H)
<1>1. ~broken /\ calls \in Seq(FCall)
    BY DEF FilesInv, FilesPhase, FilesTyped
<1>2. Len(calls) \in Nat /\ Len(calls) >= 1
    BY <1>1, EmptySeq, LenProperties
<1>3. calls[1] \in FCall
    BY <1>1, <1>2, ElementOfSeq
<1>4. calls[1] = Nested(calls)[Len(calls)]
    BY <1>2 DEF Nested
<1>5. Len(stack.lst) \in Nat
    BY LenProperties DEF FilesInv, FilesTyped
<1> QED BY <1>1, <1>2, <1>3, <1>4, <1>5 DEF FilesInv, Balanced, Height

\* The stack is as it was.
LEMMA FilesSameStack ==
    ASSUME FilesInv, stack'.cur = stack.cur, stack'.lst = stack.lst
    PROVE  Height(stack') = Height(stack) /\ Piled(stack') = Piled(stack)
BY DEF Height, Piled

\* --depgen and --taggen only parse.
LEMMA FilesScan ==
    ASSUME FilesInv, NEW f \in SourceFile, T1!Scan(f)
    PROVE  FilesInv'
<1>1. PICK ds : T1!Parse(f, ds)
    BY DEF T1!Scan
<1>2. UNCHANGED <<calls, broken, phase, combined>>
    BY DEF T1!Scan
<1>3. stack'.cur = stack.cur /\ stack'.lst = stack.lst
    <2>1. PICK S : S = SourceFile \cup {Main}
        OBVIOUS
    <2>2. PICK x : x = stack.cur
        OBVIOUS
    <2>3. PICK l : l = stack.lst
        OBVIOUS
    <2>4. x \in S /\ l \in Seq(S)
        BY <2>1, <2>2, <2>3 DEF FilesInv, FilesTyped
    <2>5. Head(<<x>> \o l) = x /\ Tail(<<x>> \o l) = l
        BY <2>4
    <2>6. stack'.cur = Head(<<x>> \o l) /\ stack'.lst = Tail(<<x>> \o l)
        BY <2>2, <2>3 DEF T1!Scan, T1!ppop, T1!ppush
    <2> QED BY <2>2, <2>3, <2>5, <2>6
<1>4. FilesTyped'
    BY <1>1, <1>2, <1>3, ParseTyped DEF FilesInv, FilesTyped
<1>5. CallsWait' /\ FilesPhase'
    BY <1>2 DEF FilesInv, CallsWait, FilesPhase
<1>6. Balanced'
    BY <1>2, <1>3, FilesSameStack DEF FilesInv, Balanced
<1>7. T1!RefusedLoops'
    <2>1. phase' # "refused"
        BY <1>2 DEF T1!Scan, T1!Given
    <2> QED BY <2>1 DEF T1!RefusedLoops
<1> QED BY <1>4, <1>5, <1>6, <1>7 DEF FilesInv

\* An input is parsed, and its file is put on the stack.
LEMMA FilesGive ==
    ASSUME FilesInv, NEW f \in SourceFile, T1!Give(f)
    PROVE  FilesInv'
<1>1. PICK ds : /\ T1!Parse(f, ds)
                /\ calls' = <<[op |-> "input", file |-> f, todo |-> ds]>>
    BY DEF T1!Give
<1>2. /\ stack' = T1!ppush(stack, f) /\ combined' = 1 /\ phase' = "given"
      /\ broken' = broken /\ phase = "idle" /\ ~broken
    BY DEF T1!Give, T1!Given
<1>3. PICK x : x = [op |-> "input", file |-> f, todo |-> ds]
    OBVIOUS
<1>4. x \in FCall /\ x.op = "input" /\ x.file = f
    <2>1. ds \in Texts
        BY <1>1, ParseTyped DEF FilesInv, Texts
    <2> QED BY <1>1, <1>3, <2>1, ParseTyped DEF FilesInv, FCall
<1>5. calls = <<>> /\ Len(calls) = 0 /\ calls' = <<x>>
    BY <1>1, <1>2, <1>3 DEF FilesInv, FilesPhase
<1>6. /\ calls' \in Seq(FCall) /\ Len(calls') = 1 /\ calls' # <<>>
      /\ Nested(calls')[1] = x
    BY <1>4, <1>5 DEF Nested
<1>7. /\ stack'.cur = f /\ stack'.lst \in Seq(SourceFile \cup {Main})
      /\ Height(stack') = Height(stack) + 1 /\ Height(stack) \in Nat
      /\ Piled(stack')[Height(stack')] = f
      /\ SamePile(Piled(stack), Piled(stack'), Height(stack))
    <2>1. PICK S : S = SourceFile \cup {Main}
        OBVIOUS
    <2>2. stack.cur \in S /\ stack.lst \in Seq(S)
        BY <2>1 DEF FilesInv, FilesTyped
    <2> QED BY <1>2, <2>1, <2>2, PilePush
<1>8. FilesTyped'
    BY <1>1, <1>6, <1>7, ParseTyped DEF FilesInv, FilesTyped
<1>9. CallsWait' /\ FilesPhase'
    BY <1>2, <1>6 DEF CallsWait, FilesPhase
<1>10. PICK H : Fits(Nested(calls), 0, Piled(stack), Height(stack), H)
    BY <1>2, <1>5 DEF FilesInv, Balanced
<1>11. \E J : Fits(Nested(calls'), 1, Piled(stack'), Height(stack'), J)
    <2>1. SameCalls(Nested(calls), Nested(calls'), 0)
        BY DEF SameCalls
    <2>2. Nested(calls')[0 + 1].op = "input" /\ Nested(calls')[0 + 1].file = f
        BY <1>4, <1>6
    <2>3. \E J : Fits(Nested(calls'), 0 + 1, Piled(stack'), Height(stack'), J)
        BY <1>7, <1>10, <2>1, <2>2, FitsPush
    <2> QED BY <2>3
<1>12. Balanced'
    BY <1>6, <1>11 DEF Balanced
<1>13. T1!RefusedLoops'
    BY <1>2 DEF T1!RefusedLoops
<1> QED BY <1>8, <1>9, <1>12, <1>13 DEF FilesInv

\* The last input is followed by the translation; it ends in order, or with
\* errors, after which no input is taken.
LEMMA FilesInput ==
    ASSUME FilesInv, T1!Translate \/ T1!InputEnd
    PROVE  FilesInv'
<1>1. CASE T1!Translate
    <2>1. UNCHANGED <<text, stack, calls, broken>> /\ phase = "given" /\ phase' = "translating"
        BY <1>1 DEF T1!Translate
    <2>2. FilesTyped' /\ CallsWait' /\ FilesPhase' /\ Balanced'
        BY <2>1 DEF FilesInv, FilesTyped, CallsWait, FilesPhase, Balanced
    <2>3. T1!RefusedLoops'
        BY <2>1 DEF T1!RefusedLoops
    <2> QED BY <2>2, <2>3 DEF FilesInv
<1>2. CASE T1!InputEnd
    <2>1. /\ Len(calls) = 1 /\ calls # <<>> /\ calls' = <<>> /\ phase' = "idle"
          /\ text' = text /\ Len(calls') = 0
        BY <1>2 DEF T1!InputEnd, FilesInv, FilesPhase
    <2>2. PICK H : Fits(Nested(calls), 1, Piled(stack), Height(stack), H)
        BY <2>1, FilesNow
    <2>3. H[0] = 1 /\ Height(stack) = 2
        <3>1. H[0] = 1 /\ H[1] = Height(stack)
            BY <2>2 DEF Fits, Heights
        <3>2. Nested(calls)[1].op = "input"
            BY <2>2 DEF Fits, Entries
        <3>3. H[1] = H[1 - 1] + (IF Nested(calls)[1].op = "staload" THEN 2 ELSE 1)
            BY <2>2 DEF Fits, Heights
        <3> QED BY <3>1, <3>2, <3>3
    <2>4. CASE failed
        <3>1. stack' = stack /\ broken'
            BY <1>2, <2>4 DEF T1!InputEnd
        <3>2. FilesTyped' /\ CallsWait' /\ FilesPhase' /\ Balanced' /\ T1!RefusedLoops'
            BY <2>1, <3>1 DEF FilesInv, FilesTyped, CallsWait, FilesPhase, Balanced,
               T1!RefusedLoops
        <3> QED BY <3>2 DEF FilesInv
    <2>5. CASE ~failed
        <3>1. stack' = T1!ppop(stack)
            BY <1>2, <2>5 DEF T1!InputEnd
        <3>2. PICK S : S = SourceFile \cup {Main}
            OBVIOUS
        <3>3. /\ stack'.cur \in S /\ stack'.lst \in Seq(S)
              /\ Height(stack') = Height(stack) - 1
              /\ SamePile(Piled(stack), Piled(stack'), Height(stack'))
            <4>1. stack.lst \in Seq(S)
                BY <3>2 DEF FilesInv, FilesTyped
            <4> QED BY <2>3, <3>1, <4>1, PilePop
        <3>4. \E J : Fits(Nested(calls'), 0, Piled(stack'), H[0], J)
            <4>1. SameCalls(Nested(calls), Nested(calls'), 0)
                BY DEF SameCalls
            <4>2. SamePile(Piled(stack), Piled(stack'), H[0])
                BY <2>3, <3>3
            <4>3. Height(stack) \in Nat /\ 0 \in 0..1
                BY <2>3
            <4> QED BY <2>2, <4>1, <4>2, <4>3, FitsPrefix
        <3>5. Balanced'
            BY <2>1, <2>3, <3>3, <3>4 DEF Balanced
        <3>6. FilesTyped' /\ CallsWait' /\ FilesPhase' /\ T1!RefusedLoops'
            BY <2>1, <3>2, <3>3 DEF FilesInv, FilesTyped, CallsWait, FilesPhase,
               T1!RefusedLoops
        <3> QED BY <3>5, <3>6 DEF FilesInv
    <2> QED BY <2>4, <2>5
<1> QED BY <1>1, <1>2

\* A declaration without effect on the stack is passed over.
LEMMA FilesDone ==
    ASSUME FilesInv, T1!Missing \/ T1!StaloadAgain
    PROVE  FilesInv'
<1>1. /\ phase = "translating" /\ calls[1].todo # <<>>
      /\ calls' = T1!Done(calls) /\ UNCHANGED <<text, stack, broken, combined, phase>>
    BY DEF T1!Missing, T1!StaloadAgain, T1!Meets
<1>2. calls # <<>>
    BY <1>1 DEF FilesInv, FilesPhase
<1>3. PICK k \in Nat : k = Len(calls)
    BY <1>2, FilesNow
<1>4. /\ calls' \in Seq(FCall) /\ Len(calls') = k /\ k >= 1
      /\ SameCalls(Nested(calls), Nested(calls'), k)
      /\ \A d \in 1..k - 1 : Nested(calls')[d] = Nested(calls)[d]
    BY <1>1, <1>2, <1>3, FilesNow, DoneFacts
<1>5. FilesTyped'
    BY <1>1, <1>4 DEF FilesInv, FilesTyped
<1>6. CallsWait'
    BY <1>3, <1>4 DEF FilesInv, CallsWait
<1>7. FilesPhase'
    <2>1. calls' # <<>>
        BY <1>4
    <2> QED BY <1>1, <1>2, <2>1 DEF FilesInv, FilesPhase
<1>8. PICK h \in Nat : h = Height(stack)
    BY <1>2, FilesNow
<1>9. PICK H : Fits(Nested(calls), k, Piled(stack), h, H)
    BY <1>2, <1>3, <1>8, FilesNow
<1>10. \E J : Fits(Nested(calls'), k, Piled(stack), h, J)
    <2>1. k \in 0..k /\ H[k] = h
        BY <1>9 DEF Fits, Heights
    <2>2. SamePile(Piled(stack), Piled(stack), h)
        BY DEF SamePile
    <2> QED BY <1>4, <1>9, <2>1, <2>2, FitsPrefix
<1>11. Balanced'
    BY <1>1, <1>4, <1>8, <1>10 DEF Balanced
<1>12. T1!RefusedLoops'
    BY <1>1 DEF T1!RefusedLoops
<1> QED BY <1>5, <1>6, <1>7, <1>11, <1>12 DEF FilesInv

\* A call whose next declaration is known is one of those in progress, and its
\* file is the one that the declaration was written in.
LEMMA WriterFacts ==
    ASSUME FilesInv, calls # <<>>, NEW d \in 1..Len(calls),
           d # Len(calls) \/ calls[1].todo # <<>>
    PROVE  /\ Len(calls) + 1 - d \in T1!Busy
           /\ T1!Writer(Len(calls) + 1 - d) = Nested(calls)[d].file
<1>1. PICK k \in Nat : k = Len(calls)
    BY FilesNow
<1>2. PICK i \in 1..k : i = k + 1 - d
    <2>1. k + 1 - d \in 1..k
        BY <1>1
    <2> QED BY <2>1
<1>3. Nested(calls)[d] = calls[i] /\ calls \in Seq(FCall)
    BY <1>1, <1>2, FilesNow DEF Nested
<1>4. PICK c : c = calls[i]
    OBVIOUS
<1>5. c \in FCall
    BY <1>1, <1>3, <1>4, ElementOfSeq
<1>6. c.todo # <<>>
    <2>1. CASE d = k
        BY <1>1, <1>2, <1>4, <2>1
    <2>2. CASE d # k
        <3>1. d \in 1..k - 1
            BY <1>1, <2>2
        <3> QED BY <1>1, <1>3, <1>4, <3>1 DEF FilesInv, CallsWait
    <2> QED BY <2>1, <2>2
<1>7. Head(c.todo).pfil = c.file
    BY <1>5, <1>6, HeadWritten
<1>8. DOMAIN calls = 1..k
    BY <1>1, <1>3, LenProperties
<1> QED BY <1>1, <1>2, <1>3, <1>4, <1>6, <1>7, <1>8 DEF T1!Busy, T1!Writer

\* The file that the next declaration d was written in is on top while its name
\* is resolved.
LEMMA WritingFacts ==
    ASSUME FilesInv, NEW d, T1!Meets(d)
    PROVE  /\ calls # <<>> /\ calls[1].todo # <<>> /\ d = Head(calls[1].todo)
           /\ d.pfil = Nested(calls)[Len(calls)].file
           /\ d.file \in SourceFile \cup {Main} /\ d.pfil \in SourceFile
           /\ d.op \in T1!Op /\ d \in T1!Decl
           /\ T1!Writing(d).cur = d.pfil
           /\ T1!Writing(d).lst \in Seq(SourceFile \cup {Main})
           /\ Height(T1!Writing(d)) = Height(stack) + 1
           /\ Piled(T1!Writing(d))[Height(stack) + 1] = d.pfil
           /\ SamePile(Piled(stack), Piled(T1!Writing(d)), Height(stack))
<1>1. phase = "translating" /\ calls[1].todo # <<>> /\ d = Head(calls[1].todo)
    BY DEF T1!Meets
<1>2. calls # <<>>
    BY <1>1 DEF FilesInv, FilesPhase
<1>3. PICK c : c = calls[1]
    OBVIOUS
<1>4. c \in FCall /\ c.todo # <<>> /\ d = Head(c.todo) /\ c = Nested(calls)[Len(calls)]
    BY <1>1, <1>2, <1>3, FilesNow
<1>5. /\ d.pfil = c.file /\ d.file \in SourceFile \cup {Main} /\ c.file \in SourceFile
      /\ d.op \in T1!Op /\ d \in T1!Decl
    BY <1>4, HeadWritten
<1>6. PICK S : S = SourceFile \cup {Main}
    OBVIOUS
<1>7. stack.cur \in S /\ stack.lst \in Seq(S)
    BY <1>6 DEF FilesInv, FilesTyped
<1>8. PICK w : w = T1!ppush(stack, d.pfil)
    OBVIOUS
<1>9. /\ w.cur = d.pfil /\ w.lst \in Seq(S)
      /\ Height(w) = Height(stack) + 1
      /\ Piled(w)[Height(w)] = d.pfil
      /\ SamePile(Piled(stack), Piled(w), Height(stack))
    BY <1>7, <1>8, PilePush
<1> QED BY <1>1, <1>2, <1>4, <1>5, <1>6, <1>8, <1>9 DEF T1!Writing

\* The check finds the files on the stack and the one of the declaration.
LEMMA LoopsMeans ==
    ASSUME FilesInv, NEW d, T1!Meets(d)
    PROVE  T1!Loops(d) <=>
              /\ d.file # Main
              /\ \/ d.file = d.pfil
                 \/ \E p \in 1..Height(stack) : d.file = Piled(stack)[p]
<1>1. PICK w : w = T1!Writing(d)
    OBVIOUS
<1>2. PICK h \in Nat : h = Height(stack)
    BY WritingFacts, FilesNow
<1>3. /\ w.cur \in SourceFile \cup {Main} /\ w.lst \in Seq(SourceFile \cup {Main})
      /\ Height(w) = h + 1 /\ Piled(w)[h + 1] = d.pfil
      /\ \A p \in 1..h : Piled(w)[p] = Piled(stack)[p]
    BY <1>1, <1>2, WritingFacts DEF SamePile
<1>4. T1!Listed(T1!ppush(w, d.file)) = {Piled(w)[p] : p \in 1..Height(w)}
    BY <1>3, ListedMeans
<1>5. T1!Loops(d) <=> d.file # Main /\ d.file \in {Piled(w)[p] : p \in 1..h + 1}
    BY <1>1, <1>3, <1>4 DEF T1!Loops, T1!push_check
<1>6. \A p \in 1..h + 1 : p \in 1..h \/ p = h + 1
    OBVIOUS
<1>7. d.file \in {Piled(w)[p] : p \in 1..h + 1}
         <=> d.file = d.pfil \/ \E p \in 1..h : d.file = Piled(stack)[p]
    BY <1>3, <1>6
<1> QED BY <1>2, <1>5, <1>7

\* What is refused would be a cycle.
LEMMA FilesRefuse ==
    ASSUME T1!Trans1FilesAssumption, FilesInv, T1!Refuse
    PROVE  FilesInv'
<1>1. PICK d \in T1!Decl : T1!Meets(d) /\ T1!Loops(d)
    BY DEF T1!Refuse
<1>2. UNCHANGED <<text, stack, calls, broken, combined>> /\ phase' = "refused"
    BY DEF T1!Refuse
<1>3. calls # <<>> /\ calls[1].todo # <<>> /\ d = Head(calls[1].todo)
    BY <1>1, WritingFacts
<1>4. PICK k \in Nat : k = Len(calls)
    BY <1>3, FilesNow
<1>5. PICK h \in Nat : h = Height(stack)
    BY <1>3, FilesNow
<1>6. PICK H : Fits(Nested(calls), k, Piled(stack), h, H)
    BY <1>3, <1>4, <1>5, FilesNow
<1>7. k >= 1
    BY <1>3, <1>4, FilesNow
<1>8. PICK e \in 1..k : d.file = Nested(calls)[e].file
    <2>1. CASE d.file = d.pfil
        BY <1>1, <1>4, <1>7, <2>1, WritingFacts
    <2>2. ASSUME NEW p \in 1..h, d.file = Piled(stack)[p]
          PROVE  \E e \in 1..k : d.file = Nested(calls)[e].file
        <3>1. d.file # Main
            BY <1>1, LoopsMeans
        <3>2. p # 1
            BY <1>6, <2>2, <3>1 DEF Fits
        <3>3. p \in 2..H[k] /\ k \in 1..k
            BY <1>6, <1>7, <2>2, <3>2 DEF Fits, Heights
        <3> QED BY <1>6, <2>2, <3>3 DEF Fits, Covered
    <2> QED BY <1>1, <1>5, <2>1, <2>2, LoopsMeans
<1>9. k + 1 - e \in T1!Busy /\ T1!Writer(k + 1 - e) = d.file
    BY <1>3, <1>4, <1>8, WriterFacts
<1>10. T1!RefusedLoops'
    BY <1>2, <1>3, <1>9 DEF T1!RefusedLoops, T1!Busy, T1!Writer
<1>11. FilesTyped' /\ CallsWait' /\ FilesPhase' /\ Balanced'
    BY <1>1, <1>2, <1>3, FilesNow DEF T1!Meets, FilesInv, FilesTyped, CallsWait, FilesPhase, Balanced
<1> QED BY <1>10, <1>11 DEF FilesInv

\* A file that is entered is none of those being translated.
LEMMA EnteredFresh ==
    ASSUME FilesInv, NEW d, T1!Meets(d), ~T1!Loops(d), d.file # Main,
           NEW e \in 1..Len(calls)
    PROVE  Nested(calls)[e].file # d.file
<1>1. calls # <<>>
    BY WritingFacts
<1>2. PICK k \in Nat : k = Len(calls)
    BY <1>1, FilesNow
<1>3. PICK h \in Nat : h = Height(stack)
    BY <1>1, FilesNow
<1>4. PICK H : Fits(Nested(calls), k, Piled(stack), h, H)
    BY <1>1, <1>2, <1>3, FilesNow
<1>5. CASE e = k
    BY <1>2, <1>5, WritingFacts, LoopsMeans
<1>6. CASE e # k
    <2>1. PICK c \in 1..k : c = e + 1
        <3>1. e + 1 \in 1..k
            BY <1>2, <1>6
        <3> QED BY <3>1
    <2>2. /\ H[c] = H[c - 1] + (IF Nested(calls)[c].op = "staload" THEN 2 ELSE 1)
          /\ H[c] \in Nat /\ H[c - 1] \in Nat /\ H[c] <= h /\ H[c - 1] >= 1
        <3>1. c \in 0..k /\ c - 1 \in 0..k /\ 0 \in 0..k /\ k \in 0..k
            OBVIOUS
        <3>2. H[0] <= H[c - 1] /\ H[c] <= H[k] /\ H[0] = 1 /\ H[k] = h
            BY <1>4, <3>1 DEF Fits, Heights
        <3> QED BY <1>4, <3>1, <3>2 DEF Fits, Heights
    <2>3. c - 1 = e
        BY <2>1
    <2>4. \E p \in 1..h : Piled(stack)[p] = Nested(calls)[e].file
        <3>1. /\ Piled(stack)[H[c]] = IF Nested(calls)[c].op = "include"
                                        THEN Nested(calls)[c - 1].file
                                        ELSE Nested(calls)[c].file
              /\ Nested(calls)[c].op = "staload" =>
                    Piled(stack)[H[c] - 1] = Nested(calls)[c - 1].file
              /\ Nested(calls)[c].op # "input"
            BY <1>4, <2>1 DEF Fits, Entries
        <3>2. Nested(calls)[c].op \in {"include", "staload"}
            <4>1. PICK i \in 1..k : i = k + 1 - c
                <5>1. k + 1 - c \in 1..k
                    OBVIOUS
                <5> QED BY <5>1
            <4>2. Nested(calls)[c] = calls[i]
                BY <1>2, <4>1 DEF Nested
            <4>3. calls[i] \in FCall
                BY <1>1, <1>2, FilesNow, ElementOfSeq
            <4> QED BY <3>1, <4>2, <4>3 DEF FCall, T1!Op
        <3>3. CASE Nested(calls)[c].op = "include"
            <4>1. H[c] \in 1..h
                BY <2>2
            <4> QED BY <2>3, <3>1, <3>3, <4>1
        <3>4. CASE Nested(calls)[c].op = "staload"
            <4>1. H[c] - 1 \in 1..h
                BY <2>2, <3>4
            <4> QED BY <2>3, <3>1, <3>4, <4>1
        <3> QED BY <3>2, <3>3, <3>4
    <2> QED BY <1>3, <2>4, LoopsMeans
<1> QED BY <1>5, <1>6

\* The declarations of another file are translated within those of this one.
LEMMA FilesEnter ==
    ASSUME FilesInv, NEW d, T1!Include(d) \/ T1!Staload(d)
    PROVE  FilesInv'
<1>1. /\ T1!Meets(d) /\ ~T1!Loops(d) /\ d.file # Main /\ T1!Enter(d)
      /\ UNCHANGED <<broken, combined, phase>>
      /\ \/ d.op = "include" /\ stack' = T1!Writing(d)
         \/ d.op = "staload" /\ stack' = T1!ppush(T1!Writing(d), d.file)
    BY DEF T1!Include, T1!Staload
<1>2. /\ calls # <<>> /\ d.file \in SourceFile /\ d.pfil \in SourceFile
      /\ d.pfil = Nested(calls)[Len(calls)].file
    BY <1>1, WritingFacts
<1>3. PICK ds : /\ T1!Parse(d.file, ds)
                /\ calls' = <<[op |-> d.op, file |-> d.file, todo |-> ds]>> \o calls
    BY <1>1 DEF T1!Enter
<1>4. PICK x : x = [op |-> d.op, file |-> d.file, todo |-> ds]
    OBVIOUS
<1>5. x \in FCall /\ x.op = d.op /\ x.file = d.file
    <2>1. PICK g \in SourceFile : g = d.file
        BY <1>2
    <2>2. ds \in Seq(T1!Written(g))
        BY <1>3, <2>1, ParseTyped DEF FilesInv
    <2>3. ds \in Texts
        BY <2>2 DEF Texts
    <2> QED BY <1>1, <1>4, <2>1, <2>2, <2>3 DEF FCall, T1!Op
<1>6. PICK k \in Nat : k = Len(calls)
    BY <1>2, FilesNow
<1>7. /\ calls' \in Seq(FCall) /\ Len(calls') = k + 1 /\ k >= 1
      /\ Nested(calls')[k + 1] = x
      /\ \A e \in 1..k : Nested(calls')[e] = Nested(calls)[e]
    <2>1. IsPut(calls', x, calls)
        BY <1>3, <1>4 DEF IsPut
    <2> QED BY <1>2, <1>5, <1>6, <2>1, FilesNow, NestPush
<1>8. PICK h \in Nat : h = Height(stack)
    BY <1>2, FilesNow
<1>9. PICK w : w = T1!Writing(d)
    OBVIOUS
<1>10. PICK S : S = SourceFile \cup {Main}
    OBVIOUS
<1>11. /\ w.cur \in S /\ w.lst \in Seq(S) /\ w.cur = d.pfil
       /\ Height(w) = h + 1 /\ Piled(w)[h + 1] = d.pfil
       /\ \A p \in 1..h : Piled(w)[p] = Piled(stack)[p]
    BY <1>1, <1>2, <1>8, <1>9, <1>10, WritingFacts DEF SamePile
<1>12. PICK g \in Nat : g = h + (IF d.op = "staload" THEN 2 ELSE 1)
    OBVIOUS
<1>13. /\ stack'.cur \in S /\ stack'.lst \in Seq(S) /\ Height(stack') = g
       /\ SamePile(Piled(stack), Piled(stack'), h)
       /\ Piled(stack')[g] = IF d.op = "include" THEN d.pfil ELSE d.file
       /\ d.op = "staload" => Piled(stack')[g - 1] = d.pfil
    <2>1. CASE d.op = "include"
        <3>1. stack' = w /\ g = h + 1
            BY <1>1, <1>9, <1>12, <2>1
        <3> QED BY <1>11, <2>1, <3>1 DEF SamePile
    <2>2. CASE d.op = "staload"
        <3>1. PICK v : v = T1!ppush(w, d.file)
            OBVIOUS
        <3>2. stack' = v /\ g = h + 2
            BY <1>1, <1>9, <1>12, <2>2, <3>1
        <3>3. /\ v.cur = d.file /\ v.lst \in Seq(S) /\ Height(v) = h + 2
              /\ Piled(v)[h + 2] = d.file
              /\ \A p \in 1..h + 1 : Piled(v)[p] = Piled(w)[p]
            <4>1. /\ v.cur = d.file /\ v.lst \in Seq(S) /\ Height(v) = Height(w) + 1
                  /\ Piled(v)[Height(v)] = d.file
                  /\ SamePile(Piled(w), Piled(v), Height(w))
                BY <1>11, <3>1, PilePush
            <4>2. Height(w) + 1 = h + 2
                BY <1>11
            <4> QED BY <1>11, <4>1, <4>2 DEF SamePile
        <3>4. d.file \in S
            BY <1>2, <1>10
        <3>5. \A p \in 1..h : p \in 1..h + 1
            OBVIOUS
        <3>6. g - 1 = h + 1 /\ h + 1 \in 1..h + 1
            BY <3>2
        <3> QED BY <1>11, <2>2, <3>2, <3>3, <3>4, <3>5, <3>6 DEF SamePile
    <2> QED BY <1>1, <2>1, <2>2
<1>14. FilesTyped'
    <2>1. DOMAIN text' = SourceFile
          /\ \A f \in SourceFile : \A es \in text'[f] : es \in Seq(T1!Written(f))
        BY <1>2, <1>3, ParseTyped DEF FilesInv
    <2> QED BY <1>7, <1>10, <1>13, <2>1 DEF FilesTyped
<1>15. CallsWait'
    <2>1. ASSUME NEW e \in 1..k PROVE Nested(calls')[e].todo # <<>>
        <3>1. Nested(calls')[e] = Nested(calls)[e]
            BY <1>7
        <3>2. CASE e = k
            BY <1>1, <1>2, <1>6, <3>1, <3>2, FilesNow, WritingFacts
        <3>3. CASE e # k
            <4>1. e \in 1..Len(calls) - 1
                BY <1>6, <3>3
            <4> QED BY <3>1, <4>1 DEF FilesInv, CallsWait
        <3> QED BY <3>2, <3>3
    <2>2. Len(calls') - 1 = k
        BY <1>7
    <2> QED BY <2>1, <2>2 DEF CallsWait
<1>16. FilesPhase' /\ T1!RefusedLoops'
    <2>1. phase = "translating" /\ calls' # <<>>
        BY <1>1, <1>7 DEF T1!Meets
    <2> QED BY <1>1, <1>2, <2>1 DEF FilesInv, FilesPhase, T1!RefusedLoops
<1>17. PICK H : Fits(Nested(calls), k, Piled(stack), h, H)
    BY <1>2, <1>6, <1>8, FilesNow
<1>18. \E J : Fits(Nested(calls'), k + 1, Piled(stack'), g, J)
    <2>1. SameCalls(Nested(calls), Nested(calls'), k)
        BY <1>7 DEF SameCalls
    <2>2. /\ Nested(calls')[k + 1].op = d.op /\ Nested(calls')[k + 1].file = d.file
          /\ Nested(calls')[k].file = d.pfil
        BY <1>2, <1>5, <1>6, <1>7
    <2>3. \A e \in 1..k : Nested(calls')[e].file # Nested(calls')[k + 1].file
        <3>1. ASSUME NEW e \in 1..k PROVE Nested(calls)[e].file # d.file
            BY <1>1, <1>6, EnteredFresh
        <3> QED BY <1>7, <2>2, <3>1
    <2>4. Nested(calls')[k + 1].op = "input" <=> k = 0
        BY <1>1, <1>7, <2>2
    <2>5. /\ g = h + (IF Nested(calls')[k + 1].op = "staload" THEN 2 ELSE 1)
          /\ Piled(stack')[g] = IF Nested(calls')[k + 1].op = "include"
                                   THEN Nested(calls')[k].file
                                   ELSE Nested(calls')[k + 1].file
          /\ Nested(calls')[k + 1].op = "staload" =>
                Piled(stack')[g - 1] = Nested(calls')[k].file
        BY <1>12, <1>13, <2>2
    <2> QED BY <1>13, <1>17, <2>1, <2>3, <2>4, <2>5, FitsPush
<1>19. Balanced'
    BY <1>7, <1>13, <1>18 DEF Balanced
<1> QED BY <1>14, <1>15, <1>16, <1>19 DEF FilesInv

\* A file ends: what its call has put on the stack is taken off.
LEMMA FilesEnd ==
    ASSUME FilesInv, T1!EndInclude \/ T1!EndStaload
    PROVE  FilesInv'
<1>1. /\ phase = "translating" /\ calls[1].op \in {"include", "staload"}
      /\ calls' = T1!Done(Tail(calls)) /\ UNCHANGED <<text, broken, combined, phase>>
      /\ calls[1].op = "include" => stack' = T1!ppop(stack)
      /\ calls[1].op = "staload" => stack' = T1!ppop(T1!ppop(stack))
    BY DEF T1!EndInclude, T1!EndStaload, T1!Ends
<1>2. calls # <<>>
    BY <1>1 DEF FilesInv, FilesPhase
<1>3. PICK k \in Nat : k = Len(calls)
    BY <1>2, FilesNow
<1>4. PICK h \in Nat : h = Height(stack)
    BY <1>2, FilesNow
<1>5. PICK H : Fits(Nested(calls), k, Piled(stack), h, H)
    BY <1>2, <1>3, <1>4, FilesNow
<1>6. /\ k >= 2 /\ H[k] = h /\ H[k - 1] \in Nat /\ H[k - 1] >= 1
      /\ H[k] = H[k - 1] + (IF calls[1].op = "staload" THEN 2 ELSE 1)
    <2>1. k >= 1 /\ calls[1] = Nested(calls)[k]
        BY <1>2, <1>3, FilesNow
    <2>2. k \in 1..k /\ k - 1 \in 0..k /\ 0 \in 0..k
        BY <2>1
    <2>3. k # 1
        BY <1>1, <1>5, <2>1, <2>2 DEF Fits, Entries
    <2>4. H[0] = 1 /\ H[0] <= H[k - 1] /\ H[k - 1] \in Nat
        BY <1>5, <2>2 DEF Fits, Heights
    <2> QED BY <1>5, <2>1, <2>2, <2>3, <2>4 DEF Fits, Heights
<1>7. PICK m : m = Tail(calls)
    OBVIOUS
<1>8. /\ m \in Seq(FCall) /\ Len(m) = k - 1
      /\ \A d \in 1..k - 1 : Nested(m)[d] = Nested(calls)[d]
    <2>1. IsRest(m, calls)
        BY <1>2, <1>7 DEF IsRest
    <2> QED BY <1>2, <1>3, <2>1, FilesNow, NestTail
<1>9. m # <<>> /\ m[1] = Nested(calls)[k - 1] /\ m[1].todo # <<>>
    <2>1. m # <<>>
        BY <1>6, <1>8
    <2>2. m[1] = Nested(m)[k - 1]
        BY <1>6, <1>8 DEF Nested
    <2>3. k - 1 \in 1..k - 1
        BY <1>6
    <2> QED BY <1>3, <1>8, <2>1, <2>2, <2>3 DEF FilesInv, CallsWait
<1>10. PICK j \in Nat : j = k - 1
    BY <1>6
<1>11. /\ calls' \in Seq(FCall) /\ Len(calls') = j
       /\ SameCalls(Nested(m), Nested(calls'), j)
       /\ \A d \in 1..j - 1 : Nested(calls')[d] = Nested(m)[d]
    <2>1. m \in Seq(FCall) /\ m # <<>> /\ m[1].todo # <<>> /\ Len(m) = j
        BY <1>8, <1>9, <1>10
    <2>2. PICK r : r = T1!Done(m)
        OBVIOUS
    <2>3. /\ r \in Seq(FCall) /\ Len(r) = j /\ SameCalls(Nested(m), Nested(r), j)
          /\ \A d \in 1..j - 1 : Nested(r)[d] = Nested(m)[d]
        BY <2>1, <2>2, DoneFacts
    <2> QED BY <1>1, <1>7, <2>2, <2>3
<1>12. PICK S : S = SourceFile \cup {Main}
    OBVIOUS
<1>13. stack.lst \in Seq(S)
    BY <1>12 DEF FilesInv, FilesTyped
<1>14. /\ stack'.cur \in S /\ stack'.lst \in Seq(S) /\ Height(stack') = H[j]
       /\ SamePile(Piled(stack), Piled(stack'), H[j])
    <2>1. PICK v : v = T1!ppop(stack)
        OBVIOUS
    <2>2. /\ v.cur \in S /\ v.lst \in Seq(S) /\ Height(v) = h - 1
          /\ SamePile(Piled(stack), Piled(v), h - 1)
        <3>1. Height(stack) >= 2 /\ Height(stack) = h
            BY <1>4, <1>6
        <3>2. /\ v.cur \in S /\ v.lst \in Seq(S) /\ Height(v) = Height(stack) - 1
              /\ SamePile(Piled(stack), Piled(v), Height(v))
            BY <1>13, <2>1, <3>1, PilePop
        <3> QED BY <3>1, <3>2
    <2>3. CASE calls[1].op = "include"
        <3>1. stack' = v /\ H[j] = h - 1
            BY <1>1, <1>6, <1>10, <2>1, <2>3
        <3> QED BY <2>2, <3>1
    <2>4. CASE calls[1].op = "staload"
        <3>1. PICK u : u = T1!ppop(v)
            OBVIOUS
        <3>2. stack' = u /\ H[j] = h - 2 /\ h >= 3
            BY <1>1, <1>6, <1>10, <2>1, <2>4, <3>1
        <3>3. /\ u.cur \in S /\ u.lst \in Seq(S) /\ Height(u) = h - 2
              /\ SamePile(Piled(v), Piled(u), h - 2)
            <4>1. Height(v) >= 2 /\ Height(v) - 1 = h - 2
                BY <2>2, <3>2
            <4> QED BY <2>2, <3>1, <4>1, PilePop
        <3>4. SamePile(Piled(stack), Piled(u), h - 2)
            BY <2>2, <3>2, <3>3 DEF SamePile
        <3> QED BY <3>2, <3>3, <3>4
    <2> QED BY <1>1, <2>3, <2>4
<1>15. FilesTyped'
    BY <1>1, <1>11, <1>12, <1>14 DEF FilesInv, FilesTyped
<1>16. CallsWait'
    <2>1. ASSUME NEW d \in 1..j - 1 PROVE Nested(calls')[d].todo # <<>>
        <3>1. d \in 1..k - 1
            BY <1>10
        <3>2. Nested(calls')[d] = Nested(calls)[d]
            BY <1>8, <1>11, <3>1
        <3> QED BY <1>3, <3>1, <3>2 DEF FilesInv, CallsWait
    <2> QED BY <1>11, <2>1 DEF CallsWait
<1>17. FilesPhase' /\ T1!RefusedLoops'
    <2>1. calls' # <<>>
        BY <1>6, <1>10, <1>11
    <2> QED BY <1>1, <1>2, <2>1 DEF FilesInv, FilesPhase, T1!RefusedLoops
<1>18. \E J : Fits(Nested(calls'), j, Piled(stack'), H[j], J)
    <2>1. SameCalls(Nested(calls), Nested(calls'), j)
        BY <1>8, <1>10, <1>11 DEF SameCalls
    <2>2. j \in 0..k
        BY <1>10
    <2> QED BY <1>5, <1>14, <2>1, <2>2, FitsPrefix
<1>19. Balanced'
    BY <1>11, <1>14, <1>18 DEF Balanced
<1> QED BY <1>15, <1>16, <1>17, <1>19 DEF FilesInv

\* FilesInv is inductive; inputs are not combined (-dd).
LEMMA FilesNext ==
    ASSUME T1!Trans1FilesAssumption, FilesInv, T1!Next \/ UNCHANGED trans1files
    PROVE  FilesInv'
<1>1. CASE UNCHANGED trans1files
    BY <1>1 DEF trans1files, FilesInv, FilesTyped, CallsWait, FilesPhase, Balanced,
       T1!RefusedLoops, T1!Busy, T1!Writer
<1>2. ASSUME NEW f \in SourceFile, T1!GiveMore(f) PROVE FALSE
    BY <1>2 DEF T1!GiveMore, FilesInv, FilesPhase
<1> QED BY <1>1, <1>2, FilesScan, FilesGive, FilesInput, FilesDone, FilesRefuse,
        FilesEnter, FilesEnd DEF T1!Next

\* What a reader of the compiler may count on.
LEMMA FilesMeans == ASSUME FilesInv PROVE CyclesRefused /\ CurrentFile
<1>1. T1!NoCycle
    <2> SUFFICES ASSUME NEW i \in T1!Busy, NEW j \in T1!Busy,
                        T1!Writer(i) = T1!Writer(j)
                 PROVE  i = j
        BY DEF T1!NoCycle
    <2>1. calls # <<>>
        BY DEF T1!Busy
    <2>2. PICK k \in Nat : k = Len(calls)
        BY <2>1, FilesNow
    <2>3. DOMAIN calls = 1..k
        BY <2>1, <2>2, FilesNow, LenProperties
    <2>4. i \in 1..k /\ j \in 1..k /\ calls[i].todo # <<>> /\ calls[j].todo # <<>>
        BY <2>3 DEF T1!Busy
    <2>5. ASSUME NEW l \in 1..k, calls[l].todo # <<>>
          PROVE  k + 1 - l \in 1..k /\ T1!Writer(l) = Nested(calls)[k + 1 - l].file
        <3>1. k + 1 - l \in 1..k /\ k + 1 - (k + 1 - l) = l
            OBVIOUS
        <3>2. k + 1 - l # k \/ calls[1].todo # <<>>
            BY <2>5
        <3> QED BY <2>1, <2>2, <3>1, <3>2, WriterFacts
    <2>6. Distinct(Nested(calls), k)
        BY <2>1, <2>2, FilesNow DEF Fits
    <2>7. k + 1 - i = k + 1 - j
        BY <2>4, <2>5, <2>6 DEF Distinct
    <2> QED BY <2>4, <2>7
<1>2. CyclesRefused
    BY <1>1 DEF FilesInv, CyclesRefused
<1>3. CurrentFile
    <2> SUFFICES ASSUME ~broken PROVE stack.cur = T1!Current
        BY DEF CurrentFile, T1!CurrentFile
    <2>1. PICK k \in Nat : k = Len(calls) /\ (k = 0 <=> calls = <<>>)
        BY LenProperties, EmptySeq DEF FilesInv, FilesTyped
    <2>2. PICK h \in Nat : h = Height(stack) /\ h >= 1
        <3>1. Len(stack.lst) \in Nat
            BY LenProperties DEF FilesInv, FilesTyped
        <3> QED BY <3>1 DEF Height
    <2>3. PICK H : Fits(Nested(calls), k, Piled(stack), h, H)
        BY <2>1, <2>2 DEF FilesInv, Balanced
    <2>4. Piled(stack)[h] = stack.cur
        BY <2>2 DEF Piled
    <2>5. CASE k = 0
        <3>1. h = 1
            BY <2>3, <2>5 DEF Fits, Heights
        <3> QED BY <2>1, <2>3, <2>4, <2>5, <3>1 DEF Fits, T1!Current
    <2>6. CASE k # 0
        <3>1. k \in 1..k /\ H[k] = h
            BY <2>3, <2>6 DEF Fits, Heights
        <3>2. calls # <<>> /\ calls[1] = Nested(calls)[k]
            BY <2>1, <2>6, FilesNow
        <3>3. /\ stack.cur = IF calls[1].op = "include" THEN Nested(calls)[k - 1].file
                             ELSE calls[1].file
              /\ calls[1].op = "include" => k # 1
            BY <2>3, <2>4, <3>1, <3>2 DEF Fits, Entries
        <3>4. ASSUME calls[1].op = "include" PROVE T1!Writer(2) = Nested(calls)[k - 1].file
            <4>1. k - 1 \in 1..k /\ k - 1 # k /\ k + 1 - (k - 1) = 2
                BY <2>6, <3>3, <3>4
            <4> QED BY <2>1, <3>2, <4>1, WriterFacts
        <3> QED BY <3>2, <3>3, <3>4 DEF T1!Current
    <2> QED BY <2>5, <2>6
<1> QED BY <1>2, <1>3

-----------------------------------------------------------------------------
(* The trys: TrywithProofs, when no try is left by $break or $continue.    *)

TryP == INSTANCE TrywithProofs WITH JumpOut <- FALSE, calls <- within

\* Assumption and initial state are those of TrywithProofs.
LEMMA TryInit ==
    ASSUME TW!TrywithAssumption, TW!Init PROVE TryP!TrywithAssumption /\ TryP!IInv
<1>1. TryP!TrywithAssumption /\ TryP!Init
    BY DEF TW!TrywithAssumption, TW!Init, TryP!TrywithAssumption, TryP!Init
<1> QED BY <1>1, TryP!InitIInv

\* So are the steps.
LEMMA TryNext ==
    ASSUME TW!TrywithAssumption, TryP!IInv, TW!Next \/ UNCHANGED trywith
    PROVE  TryP!IInv'
<1>1. TryP!TrywithAssumption
    BY DEF TW!TrywithAssumption, TryP!TrywithAssumption
<1>2. CASE TW!Next
    <2>1. TryP!Next
        BY <1>2
           DEF TW!Call, TW!Lost, TW!Return, TW!TailCall, TW!Try, TW!TryEnd, TW!Loop,
               TW!LoopEnd, TW!Jump, TW!Raise, TW!RaiseWild, TW!RaiseUncaught,
               TW!Next, TW!Running, TW!Here, TW!After, TW!Within,
               TryP!Call, TryP!Lost, TryP!Return, TryP!TailCall, TryP!Try,
               TryP!TryEnd, TryP!Loop, TryP!LoopEnd, TryP!Jump, TryP!Raise,
               TryP!RaiseWild, TryP!RaiseUncaught, TryP!Next, TryP!Running,
               TryP!Here, TryP!After, TryP!Within
    <2> QED BY <1>1, <2>1, TryP!NextIInv
<1>3. CASE UNCHANGED trywith
    <2>1. UNCHANGED TryP!vars
        BY <1>3 DEF trywith, TryP!vars
    <2> QED BY <1>1, <2>1, TryP!NextIInv
<1> QED BY <1>2, <1>3

\* And what is proved of a step that raises an exception.
LEMMA TryRaise ==
    ASSUME TW!TrywithAssumption, TryP!IInv,
           TW!Raise \/ TW!RaiseWild \/ TW!RaiseUncaught
    PROVE  TW!Handled
<1>1. TryP!TrywithAssumption
    BY DEF TW!TrywithAssumption, TryP!TrywithAssumption
<1>2. TryP!Raise \/ TryP!RaiseWild \/ TryP!RaiseUncaught
    BY DEF TW!Raise, TW!RaiseWild, TW!RaiseUncaught, TW!Running,
           TryP!Raise, TryP!RaiseWild, TryP!RaiseUncaught, TryP!Running
<1>3. TryP!Handled
    BY <1>1, <1>2, TryP!StepHandled
<1> QED BY <1>3 DEF TW!Handled, TW!Trying, TW!Innermost,
                    TryP!Handled, TryP!Trying, TryP!Innermost

-----------------------------------------------------------------------------
(* The behaviours of MCTrans2Env: one module moves, the others rest.       *)

MCInv == FilesInv /\ TryP!IInv

\* Whatever module is in use, the others stay as they start.
LEMMA MCInitHolds == ASSUME MCInit PROVE MCInv
BY FilesInit, TryInit, TrywithAssumption DEF MCInit, MCInv

\* The invariants hold together.
LEMMA MCNextHolds == ASSUME MCInv, [MCNext]_mcvars PROVE MCInv'
<1>1. T1!Next \/ UNCHANGED trans1files
    BY DEF MCNext, mcvars
<1>2. TW!Next \/ UNCHANGED trywith
    BY DEF MCNext, mcvars
<1> QED BY <1>1, <1>2, FilesNext, TryNext, Trans1FilesAssumption, TrywithAssumption DEF MCInv

\* The stack of files matches the calls of the first translation, and the list
\* of exception frames the trys, in every behaviour of the run.
THEOREM MCInvariant == MCSpec => []MCInv
BY MCInitHolds, MCNextHolds, PTL DEF MCSpec

\* No file is translated within itself, and a file is refused for nothing else:
\* for any number of files, declarations and inputs, if no two inputs are
\* combined (-dd).
THEOREM CyclesRefusedHolds == MCSpec => []CyclesRefused
<1>1. MCInv => CyclesRefused
    BY FilesMeans DEF MCInv
<1> QED BY <1>1, MCInvariant, PTL

\* The current file is the one that is being translated.
THEOREM CurrentFileHolds == MCSpec => []CurrentFile
<1>1. MCInv => CurrentFile
    BY FilesMeans DEF MCInv
<1> QED BY <1>1, MCInvariant, PTL

\* A raised exception goes to the innermost try.
THEOREM MCHandledInnermost == MCSpec => HandledInnermost
<1>1. MCInv /\ [MCNext]_mcvars
        => [TW!Raise \/ TW!RaiseWild \/ TW!RaiseUncaught => TW!Handled]_(TW!vars)
    BY TryRaise, TrywithAssumption DEF MCInv
<1> QED BY <1>1, MCInvariant, PTL DEF MCSpec, HandledInnermost, TW!HandledInnermost
=============================================================================
