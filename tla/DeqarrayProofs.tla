--------------------------- MODULE DeqarrayProofs ---------------------------
(***************************************************************************)
(* The ring of Deqarray, for every capacity and every set of elements:     *)
(* its pointer arithmetic, its invariants, and that it implements          *)
(* BoundedDeque.                                                           *)
(***************************************************************************)
EXTENDS Deqarray, SequenceTheorems, TLAPS

-----------------------------------------------------------------------------
(* The ring arithmetic of libats/CATS/deqarray.cats. *)

(* Successor and predecessor stay inside the block and are inverse.        *)
LEMMA PtrRing ==
    ASSUME NEW p \in Slot
    PROVE  /\ PtrSucc(p) \in Slot
           /\ PtrPred(p) \in Slot
           /\ PtrSucc(PtrPred(p)) = p
           /\ PtrPred(PtrSucc(p)) = p
BY CapAssumption DEF Slot, PtrSucc, PtrPred, End

(* The comparisons of pointers that is_full and is_nil make agree with the *)
(* number of elements get_size computes.                                   *)
LEMMA RingSize ==
    ASSUME frnt \in Slot, rear \in Slot
    PROVE  /\ Size \in 0 .. Cap
           /\ IsFull <=> Size = Cap
           /\ IsNil <=> Size = 0
BY CapAssumption DEF Slot, Size, IsFull, IsNil, PtrSucc, End

(* Indexing from rear reaches the slots of the elements and only those:    *)
(* distinct indices are distinct slots, and frnt is the slot of index      *)
(* Size.                                                                   *)
LEMMA RingIndex ==
    ASSUME frnt \in Slot, rear \in Slot
    PROVE  /\ \A i \in Slot : RefAt(i) \in Slot
           /\ \A i, j \in Slot : RefAt(i) = RefAt(j) => i = j
           /\ RefAt(0) = rear
           /\ RefAt(Size) = frnt
           /\ Size > 0 => RefAt(Size - 1) = PtrPred(frnt)
BY CapAssumption DEF Slot, Size, RefAt, End, PtrPred

-----------------------------------------------------------------------------
(* The inductive invariant: the types, and that the elements have been     *)
(* written.                                                                *)
IInv == TypeOK /\ LiveInitialised

\* A ring that deqarray_make_cap has made is empty.
LEMMA InitIInv == Init => IInv
<1> SUFFICES ASSUME Init PROVE IInv
    OBVIOUS
<1>1. TypeOK
    BY CapAssumption DEF Init, TypeOK, FreshSlots, Slot
<1>2. LiveInitialised
    BY CapAssumption DEF Init, LiveInitialised, Size, Slot
<1> QED BY <1>1, <1>2 DEF IInv

(* A step that leaves the ring alone keeps the invariant. *)
LEMMA QuietIInv ==
    ASSUME IInv, UNCHANGED <<alive, slots, frnt, rear>>
    PROVE  IInv'
BY DEF IInv, TypeOK, LiveInitialised, Size, RefAt, End, Slot

\* deqarray_insert_atbeg moves the first mark one slot back.
LEMMA InsertAtBegIInv ==
    ASSUME IInv, NEW x \in Value, InsertAtBeg(x)
    PROVE  IInv'
<1> USE CapAssumption DEF IInv, TypeOK
<1>1. /\ frnt \in Slot /\ rear \in Slot /\ frnt' = frnt
      /\ rear' = PtrPred(rear)
      /\ slots' = [slots EXCEPT ![PtrPred(rear)] = x]
      /\ ~IsFull
    BY DEF InsertAtBeg, PutAtBeg
<1>2. PtrPred(rear) \in Slot
    BY <1>1, PtrRing
<1>3. TypeOK'
    BY <1>1, <1>2 DEF InsertAtBeg
<1>4. ASSUME NEW i \in Slot, i < Size'
      PROVE  slots'[RefAt(i)'] \in Value
    <2>1. CASE i = 0
        <3>1. RefAt(i)' = PtrPred(rear)
            BY <1>1, <2>1 DEF RefAt, Slot, PtrPred, End
        <3> QED BY <3>1, <1>1, <1>2
    <2>2. CASE i # 0
        <3>1. /\ i - 1 \in Slot /\ i - 1 < Size
              /\ RefAt(i)' = RefAt(i - 1)
              /\ RefAt(i - 1) # PtrPred(rear)
              /\ RefAt(i - 1) \in Slot
            BY <1>1, <1>4, <2>2
               DEF RefAt, Slot, PtrPred, PtrSucc, End, Size, IsFull
        <3>2. slots[RefAt(i - 1)] \in Value
            BY <3>1 DEF LiveInitialised
        <3> QED BY <3>1, <3>2, <1>1, <1>2
    <2> QED BY <2>1, <2>2
<1>5. LiveInitialised'
    BY <1>4 DEF LiveInitialised, Slot
<1> QED BY <1>3, <1>5

\* deqarray_insert_atend moves the last mark one slot forth.
LEMMA InsertAtEndIInv ==
    ASSUME IInv, NEW x \in Value, InsertAtEnd(x)
    PROVE  IInv'
<1> USE CapAssumption DEF IInv, TypeOK
<1>1. /\ frnt \in Slot /\ rear \in Slot /\ rear' = rear
      /\ frnt' = PtrSucc(frnt)
      /\ slots' = [slots EXCEPT ![frnt] = x]
      /\ ~IsFull
    BY DEF InsertAtEnd, PutAtEnd
<1>2. TypeOK'
    BY <1>1, PtrRing DEF InsertAtEnd
<1>3. ASSUME NEW i \in Slot, i < Size'
      PROVE  slots'[RefAt(i)'] \in Value
    <2>1. RefAt(i)' = RefAt(i) /\ RefAt(i) \in Slot
        BY <1>1, RingIndex DEF RefAt, End
    <2>2. i < Size \/ RefAt(i) = frnt
        BY <1>1, <1>3 DEF RefAt, Slot, PtrSucc, End, Size, IsFull
    <2>3. CASE RefAt(i) = frnt
        BY <2>1, <2>3, <1>1
    <2>4. CASE i < Size /\ RefAt(i) # frnt
        BY <2>1, <2>4, <1>1 DEF LiveInitialised
    <2> QED BY <2>2, <2>3, <2>4
<1>4. LiveInitialised'
    BY <1>3 DEF LiveInitialised, Slot
<1> QED BY <1>2, <1>4

\* deqarray_takeout_atbeg moves the first mark one slot forth.
LEMMA TakeoutAtBegIInv ==
    ASSUME IInv, TakeoutAtBeg
    PROVE  IInv'
<1> USE CapAssumption DEF IInv, TypeOK
<1>1. /\ frnt \in Slot /\ rear \in Slot /\ frnt' = frnt
      /\ rear' = PtrSucc(rear) /\ slots' = slots /\ ~IsNil
    BY DEF TakeoutAtBeg
<1>2. TypeOK'
    BY <1>1, PtrRing DEF TakeoutAtBeg
<1>3. ASSUME NEW i \in Slot, i < Size'
      PROVE  slots'[RefAt(i)'] \in Value
    <2>1. i + 1 \in Slot /\ i + 1 < Size /\ RefAt(i)' = RefAt(i + 1)
        BY <1>1, <1>3 DEF RefAt, Slot, PtrSucc, End, Size, IsNil
    <2> QED BY <2>1, <1>1 DEF LiveInitialised
<1>4. LiveInitialised'
    BY <1>3 DEF LiveInitialised, Slot
<1> QED BY <1>2, <1>4

\* deqarray_takeout_atend moves the last mark one slot back.
LEMMA TakeoutAtEndIInv ==
    ASSUME IInv, TakeoutAtEnd
    PROVE  IInv'
<1> USE CapAssumption DEF IInv, TypeOK
<1>1. /\ frnt \in Slot /\ rear \in Slot /\ rear' = rear
      /\ frnt' = PtrPred(frnt) /\ slots' = slots /\ ~IsNil
    BY DEF TakeoutAtEnd
<1>2. TypeOK'
    BY <1>1, PtrRing DEF TakeoutAtEnd
<1>3. ASSUME NEW i \in Slot, i < Size'
      PROVE  slots'[RefAt(i)'] \in Value
    <2>1. i < Size /\ RefAt(i)' = RefAt(i)
        BY <1>1, <1>3 DEF RefAt, Slot, PtrPred, End, Size, IsNil
    <2> QED BY <2>1, <1>1 DEF LiveInitialised
<1>4. LiveInitialised'
    BY <1>3 DEF LiveInitialised, Slot
<1> QED BY <1>2, <1>4

\* deqarray_set_at overwrites an occupied slot.
LEMMA SetAtIInv ==
    ASSUME IInv, NEW i \in Slot, NEW x \in Value, SetAt(i, x)
    PROVE  IInv'
<1> USE CapAssumption DEF IInv, TypeOK
<1>1. /\ frnt \in Slot /\ rear \in Slot /\ frnt' = frnt /\ rear' = rear
      /\ slots' = [slots EXCEPT ![RefAt(i)] = x]
    BY DEF SetAt
<1>2. \A j \in Slot : RefAt(j) \in Slot /\ RefAt(j)' = RefAt(j)
    BY <1>1, RingIndex DEF RefAt, End
<1>3. TypeOK'
    BY <1>1, <1>2 DEF SetAt
<1>4. LiveInitialised'
    BY <1>1, <1>2 DEF LiveInitialised, Size, Slot, End
<1> QED BY <1>3, <1>4

\* deqarray_make_cap again, after the ring was freed.
LEMMA MakeCapIInv == ASSUME MakeCap PROVE IInv'
<1>1. TypeOK'
    BY CapAssumption DEF MakeCap, TypeOK, FreshSlots, Slot
<1>2. LiveInitialised'
    BY CapAssumption DEF MakeCap, LiveInitialised, Size, Slot
<1> QED BY <1>1, <1>2 DEF IInv

\* deqarray_free_nil is called of an empty ring only.
LEMMA FreeNilIInv == ASSUME IInv, FreeNil PROVE IInv'
BY DEF IInv, FreeNil, TypeOK, LiveInitialised, Size, RefAt, End, Slot

\* IInv is inductive: one lemma above for each operation.
LEMMA NextIInv == IInv /\ [Next]_vars => IInv'
<1> SUFFICES ASSUME IInv, [Next]_vars PROVE IInv'
    OBVIOUS
<1>1. ASSUME NEW x \in Value, InsertAtBegOpt(x) \/ InsertAtEndOpt(x)
      PROVE  IInv'
    BY <1>1, InsertAtBegIInv, InsertAtEndIInv, QuietIInv
       DEF InsertAtBegOpt, InsertAtEndOpt, InsertOptFull
<1>2. CASE TakeoutAtBegOpt \/ TakeoutAtEndOpt
    BY <1>2, TakeoutAtBegIInv, TakeoutAtEndIInv, QuietIInv
       DEF TakeoutAtBegOpt, TakeoutAtEndOpt, TakeoutOptNil
<1>3. ASSUME NEW i \in Slot, GetAt(i) \/ \E x \in Value : SetAt(i, x)
      PROVE  IInv'
    BY <1>3, SetAtIInv, QuietIInv DEF GetAt
<1>4. ASSUME NEW stop \in SUBSET Value, Foreach(stop)
      PROVE  IInv'
    BY <1>4, QuietIInv DEF Foreach
<1>5. CASE FreeNil
    BY <1>5, FreeNilIInv
<1>6. CASE MakeCap
    BY <1>6, MakeCapIInv
<1>7. CASE UNCHANGED vars
    BY <1>7, QuietIInv DEF vars
<1> QED BY <1>1, <1>2, <1>3, <1>4, <1>5, <1>6, <1>7 DEF Next

\* IInv is an invariant of every ring, whatever its capacity.
THEOREM InvariantHolds == Spec => []IInv
BY InitIInv, NextIInv, PTL DEF Spec

(* Every pointer stays inside the block, whatever is inserted, taken out,  *)
(* freed and made again (the pointer arithmetic of deqarray.cats).         *)
THEOREM TypeCorrect == Spec => []TypeOK
BY InvariantHolds, PTL DEF IInv

(* No operation hands out a slot that deqarray_make_cap left unwritten.    *)
THEOREM LiveInitialisedHolds == Spec => []LiveInitialised
BY InvariantHolds, PTL DEF IInv

(* is_full, is_nil and get_size agree in every reachable state.            *)
THEOREM SizeAgreesHolds == Spec => []SizeAgrees
<1>1. IInv => SizeAgrees
    BY RingSize DEF IInv, TypeOK, SizeAgrees
<1> QED BY <1>1, InvariantHolds, PTL

-----------------------------------------------------------------------------
(* The refinement of BoundedDeque. *)

(* A function on 1 .. n with values in S is a sequence of length n. *)
LEMMA FunctionIsSeq ==
    ASSUME NEW S, NEW n \in Nat, NEW f \in [1 .. n -> S]
    PROVE  f \in Seq(S) /\ Len(f) = n
<1>1. f \in Seq(S)
    BY SeqDef
<1>2. Len(f) \in Nat /\ DOMAIN f = 1 .. Len(f) /\ DOMAIN f = 1 .. n
    BY <1>1, LenProperties
<1> QED BY <1>1, <1>2

(* The contents of the ring are a sequence of Size elements. *)
LEMMA ContentsSeq ==
    ASSUME IInv
    PROVE  /\ Contents \in Seq(Value)
           /\ Len(Contents) = Size
           /\ Size \in 0 .. Cap
           /\ \A k \in 1 .. Size : Contents[k] = slots[RefAt(k - 1)]
<1>1. Size \in 0 .. Cap
    BY RingSize DEF IInv, TypeOK
<1>2. Contents \in [1 .. Size -> Value]
    <2>1. ASSUME NEW k \in 1 .. Size PROVE slots[RefAt(k - 1)] \in Value
        <3>1. k - 1 \in Slot /\ k - 1 < Size
            BY <1>1, CapAssumption DEF Slot
        <3> QED BY <3>1 DEF IInv, LiveInitialised
    <2> QED BY <2>1 DEF Contents
<1>3. Contents \in Seq(Value) /\ Len(Contents) = Size
    BY <1>1, <1>2, FunctionIsSeq, CapAssumption
<1> QED BY <1>1, <1>3 DEF Contents

\* ContentsSeq, after a step.
LEMMA ContentsSeqNext ==
    ASSUME IInv'
    PROVE  /\ Contents' \in Seq(Value)
           /\ Len(Contents') = Size'
           /\ Size' \in 0 .. Cap
           /\ \A k \in 1 .. Size' : Contents'[k] = slots'[RefAt(k - 1)']
<1>1. Size' \in 0 .. Cap
    <2>1. frnt' \in 0 .. Cap /\ rear' \in 0 .. Cap
        BY DEF IInv, TypeOK, Slot
    <2>2. Size' = IF frnt' >= rear' THEN frnt' - rear'
                  ELSE (frnt' + (Cap + 1)) - rear'
        BY DEF Size, End
    <2>3. \A f, r \in 0 .. Cap :
             (IF f >= r THEN f - r ELSE (f + (Cap + 1)) - r) \in 0 .. Cap
        BY CapAssumption
    <2> QED BY <2>1, <2>2, <2>3
<1>2. Contents' \in [1 .. Size' -> Value]
    <2>1. ASSUME NEW k \in 1 .. Size' PROVE slots'[RefAt(k - 1)'] \in Value
        <3>1. k - 1 \in Slot /\ k - 1 < Size'
            BY <1>1, CapAssumption DEF Slot
        <3> QED BY <3>1 DEF IInv, LiveInitialised
    <2> QED BY <2>1 DEF Contents
<1>3. Contents' \in Seq(Value) /\ Len(Contents') = Size'
    BY <1>1, <1>2, FunctionIsSeq, CapAssumption
<1> QED BY <1>1, <1>3 DEF Contents

(* The contents depend on the ring only. *)
LEMMA ContentsStay ==
    ASSUME UNCHANGED <<slots, frnt, rear>>
    PROVE  Contents' = Contents
BY DEF Contents, Size, RefAt

\* deqarray_insert_atbeg puts an element in front of the others.
LEMMA AbsInsertAtBeg ==
    ASSUME IInv, IInv', NEW x \in Value, InsertAtBeg(x)
    PROVE  Abs!InsertAtBeg(x)
<1>1. /\ frnt \in Slot /\ rear \in Slot /\ frnt' = frnt
      /\ rear' = PtrPred(rear) /\ slots' = [slots EXCEPT ![PtrPred(rear)] = x]
      /\ slots \in [Slot -> Value \cup {Uninit}] /\ ~IsFull
    BY DEF InsertAtBeg, PutAtBeg, IInv, TypeOK
<1>2. PtrPred(rear) \in Slot /\ RefAt(0)' = rear'
    BY <1>1, PtrRing, CapAssumption DEF RefAt, End, Slot
<1>3. Size' = Size + 1 /\ Size < Cap
    BY <1>1, CapAssumption DEF Size, PtrPred, PtrSucc, End, Slot, IsFull
<1>4. /\ <<x>> \o Contents \in Seq(Value)
      /\ Len(<<x>> \o Contents) = Size + 1
      /\ \A k \in 1 .. Size + 1 :
            (<<x>> \o Contents)[k] = IF k = 1 THEN x ELSE Contents[k - 1]
    <2>1. <<x>> \in Seq(Value) /\ Len(<<x>>) = 1 /\ <<x>>[1] = x
        OBVIOUS
    <2> QED BY <2>1, ContentsSeq, ConcatProperties, CapAssumption
<1>5. ASSUME NEW k \in 1 .. Size + 1
      PROVE  Contents'[k] = (<<x>> \o Contents)[k]
    <2>1. Contents'[k] = slots'[RefAt(k - 1)']
        BY <1>3, ContentsSeqNext
    <2>2. CASE k = 1
        <3>1. RefAt(k - 1)' = PtrPred(rear)
            BY <2>2, <1>1, <1>2
        <3> QED BY <3>1, <2>1, <2>2, <1>1, <1>2, <1>4
    <2>3. CASE k # 1
        <3>1. /\ RefAt(k - 1)' = RefAt(k - 2)
              /\ RefAt(k - 2) # PtrPred(rear) /\ RefAt(k - 2) \in Slot
              /\ k - 1 \in 1 .. Size /\ (k - 1) - 1 = k - 2
            BY <1>1, <1>3, <2>3, CapAssumption, ContentsSeq
               DEF RefAt, Slot, PtrPred, PtrSucc, End, Size, IsFull
        <3>2. slots'[RefAt(k - 1)'] = slots[RefAt(k - 2)]
            BY <3>1, <1>1
        <3>3. Contents[k - 1] = slots[RefAt(k - 2)]
            BY <3>1, ContentsSeq
        <3> QED BY <3>2, <3>3, <2>1, <2>3, <1>4
    <2> QED BY <2>2, <2>3
<1>6. Contents' = <<x>> \o Contents
    BY <1>3, <1>4, <1>5, ContentsSeqNext, SeqEqual
<1> QED BY <1>3, <1>6, ContentsSeq DEF Abs!InsertAtBeg, InsertAtBeg

\* deqarray_insert_atend puts an element after the others.
LEMMA AbsInsertAtEnd ==
    ASSUME IInv, IInv', NEW x \in Value, InsertAtEnd(x)
    PROVE  Abs!InsertAtEnd(x)
<1>1. /\ frnt \in Slot /\ rear \in Slot /\ rear' = rear
      /\ frnt' = PtrSucc(frnt) /\ slots' = [slots EXCEPT ![frnt] = x]
      /\ slots \in [Slot -> Value \cup {Uninit}] /\ ~IsFull
    BY DEF InsertAtEnd, PutAtEnd, IInv, TypeOK
<1>2. Size' = Size + 1 /\ Size < Cap
    BY <1>1, CapAssumption DEF Size, PtrSucc, End, Slot, IsFull
<1>3. /\ Append(Contents, x) \in Seq(Value)
      /\ Len(Append(Contents, x)) = Size + 1
      /\ \A k \in 1 .. Size : Append(Contents, x)[k] = Contents[k]
      /\ Append(Contents, x)[Size + 1] = x
    BY ContentsSeq, AppendProperties
<1>4. ASSUME NEW k \in 1 .. Size + 1
      PROVE  Contents'[k] = Append(Contents, x)[k]
    <2>1. Contents'[k] = slots'[RefAt(k - 1)']
        BY <1>2, ContentsSeqNext
    <2>2. RefAt(k - 1)' = RefAt(k - 1)
        BY <1>1 DEF RefAt
    <2>3. CASE k = Size + 1
        <3>1. RefAt(k - 1) = frnt
            BY <2>3, <1>1, <1>2, ContentsSeq, RingIndex, CapAssumption
        <3> QED BY <3>1, <2>1, <2>2, <2>3, <1>1, <1>3
    <2>4. CASE k # Size + 1
        <3>1. k \in 1 .. Size
            BY <2>4, ContentsSeq, CapAssumption
        <3>2. RefAt(k - 1) \in Slot /\ RefAt(k - 1) # frnt
            BY <3>1, <1>1, <1>2, ContentsSeq, CapAssumption
               DEF RefAt, Slot, Size, End
        <3>3. Contents[k] = slots[RefAt(k - 1)]
            BY <3>1, ContentsSeq
        <3> QED BY <3>1, <3>2, <3>3, <2>1, <2>2, <1>1, <1>3
    <2> QED BY <2>3, <2>4
<1>5. Contents' = Append(Contents, x)
    BY <1>2, <1>3, <1>4, ContentsSeqNext, SeqEqual
<1> QED BY <1>2, <1>5, ContentsSeq DEF Abs!InsertAtEnd, InsertAtEnd

(* A deque that is not nil has a non-empty sequence of elements. *)
LEMMA ContentsNonEmpty ==
    ASSUME IInv
    PROVE  /\ IsNil <=> Contents = <<>>
           /\ IsNil <=> Size = 0
           /\ IsFull <=> Len(Contents) = Cap
<1>1. IsNil <=> Size = 0
    BY RingSize DEF IInv, TypeOK
<1>2. IsFull <=> Size = Cap
    BY RingSize DEF IInv, TypeOK
<1>3. Contents = <<>> <=> Len(Contents) = 0
    BY ContentsSeq, EmptySeq
<1> QED BY <1>1, <1>2, <1>3, ContentsSeq

\* deqarray_takeout_atbeg returns the first element.
LEMMA AbsTakeoutAtBeg ==
    ASSUME IInv, IInv', TakeoutAtBeg
    PROVE  Abs!TakeoutAtBeg
<1>1. /\ frnt \in Slot /\ rear \in Slot /\ frnt' = frnt
      /\ rear' = PtrSucc(rear) /\ slots' = slots /\ ~IsNil
      /\ ret' = <<slots[rear]>>
    BY DEF TakeoutAtBeg, IInv, TypeOK
<1>2. Size' = Size - 1 /\ Size > 0
    BY <1>1, CapAssumption DEF Size, PtrSucc, End, Slot, IsNil
<1>3. /\ Contents # <<>> /\ Head(Contents) = Contents[1]
      /\ Tail(Contents) \in Seq(Value) /\ Len(Tail(Contents)) = Size - 1
      /\ \A k \in 1 .. Size - 1 : Tail(Contents)[k] = Contents[k + 1]
    BY <1>1, ContentsNonEmpty, ContentsSeq, HeadTailProperties
<1>4. ASSUME NEW k \in 1 .. Size - 1
      PROVE  Contents'[k] = Tail(Contents)[k]
    <2>1. Contents'[k] = slots[RefAt(k - 1)']
        BY <1>1, <1>2, ContentsSeqNext
    <2>2. k + 1 \in 1 .. Size /\ RefAt(k - 1)' = RefAt(k) /\ (k + 1) - 1 = k
        BY <1>1, <1>2, ContentsSeq, CapAssumption
           DEF RefAt, Slot, PtrSucc, End, Size
    <2>3. Contents[k + 1] = slots[RefAt(k)]
        BY <2>2, ContentsSeq
    <2> QED BY <2>1, <2>2, <2>3, <1>3
<1>5. Contents' = Tail(Contents)
    BY <1>2, <1>3, <1>4, ContentsSeqNext, SeqEqual
<1>6. Contents[1] = slots[rear]
    BY <1>1, <1>2, ContentsSeq, RingIndex, CapAssumption
<1> QED BY <1>1, <1>3, <1>5, <1>6 DEF Abs!TakeoutAtBeg

\* deqarray_takeout_atend returns the last element.
LEMMA AbsTakeoutAtEnd ==
    ASSUME IInv, IInv', TakeoutAtEnd
    PROVE  Abs!TakeoutAtEnd
<1>1. /\ frnt \in Slot /\ rear \in Slot /\ rear' = rear
      /\ frnt' = PtrPred(frnt) /\ slots' = slots /\ ~IsNil
      /\ ret' = <<slots[PtrPred(frnt)]>>
    BY DEF TakeoutAtEnd, IInv, TypeOK
<1>2. Size' = Size - 1 /\ Size > 0 /\ Size \in Nat /\ Len(Contents) = Size
    BY <1>1, ContentsSeq, CapAssumption
       DEF Size, PtrPred, End, Slot, IsNil
<1> DEFINE front == SubSeq(Contents, 1, Size - 1)
<1>3. /\ front \in Seq(Value) /\ Len(front) = Size - 1
      /\ \A k \in 1 .. Size - 1 : front[k] = Contents[k]
    <2>1. \A k \in 1 .. Size - 1 : Contents[k] \in Value
        BY <1>2, ContentsSeq, ElementOfSeq
    <2>2. /\ front \in Seq(Value)
          /\ Len(front) = IF 1 <= Size - 1 THEN (Size - 1) - 1 + 1 ELSE 0
          /\ \A k \in 1 .. (Size - 1) - 1 + 1 : front[k] = Contents[1 + k - 1]
        BY <2>1, <1>2, SubSeqProperties
    <2>3. /\ (Size - 1) - 1 + 1 = Size - 1
          /\ \A k \in 1 .. Size - 1 : 1 + k - 1 = k
        BY <1>2
    <2> QED BY <2>2, <2>3, <1>2
<1>4. ASSUME NEW k \in 1 .. Size - 1
      PROVE  Contents'[k] = front[k]
    <2>1. Contents'[k] = slots[RefAt(k - 1)']
        BY <1>1, <1>2, ContentsSeqNext
    <2>2. k \in 1 .. Size /\ RefAt(k - 1)' = RefAt(k - 1)
        BY <1>1, <1>2 DEF RefAt
    <2>3. Contents[k] = slots[RefAt(k - 1)]
        BY <2>2, ContentsSeq
    <2> QED BY <2>1, <2>2, <2>3, <1>3
<1>5. Contents' = front
    BY <1>2, <1>3, <1>4, ContentsSeqNext, SeqEqual
<1>6. Contents[Size] = slots[PtrPred(frnt)]
    BY <1>1, <1>2, ContentsSeq, RingIndex, CapAssumption
<1>7. Contents # <<>>
    BY <1>1, ContentsNonEmpty
<1> QED BY <1>1, <1>2, <1>5, <1>6, <1>7 DEF Abs!TakeoutAtEnd

\* deqarray_get_at(i) reads the element that is the i-th from the front.
LEMMA AbsGetAt ==
    ASSUME IInv, NEW i \in Slot, GetAt(i)
    PROVE  Abs!GetAt(i)
<1>1. i + 1 \in 1 .. Size /\ i < Size /\ (i + 1) - 1 = i /\ Contents' = Contents
    BY ContentsSeq, ContentsStay, CapAssumption DEF GetAt, Slot
<1>2. Contents[i + 1] = slots[RefAt(i)]
    BY <1>1, ContentsSeq
<1> QED BY <1>1, <1>2, ContentsSeq DEF GetAt, Abs!GetAt

\* deqarray_set_at(i) replaces it, and only it.
LEMMA AbsSetAt ==
    ASSUME IInv, IInv', NEW i \in Slot, NEW x \in Value, SetAt(i, x)
    PROVE  Abs!SetAt(i, x)
<1>1. /\ frnt \in Slot /\ rear \in Slot /\ frnt' = frnt /\ rear' = rear
      /\ slots' = [slots EXCEPT ![RefAt(i)] = x] /\ i < Size
      /\ slots \in [Slot -> Value \cup {Uninit}]
    BY DEF SetAt, IInv, TypeOK
<1>2. Size' = Size /\ Size \in 0 .. Cap /\ i + 1 \in 1 .. Size
    BY <1>1, ContentsSeq, CapAssumption DEF Size, End, Slot
<1> DEFINE new == [Contents EXCEPT ![i + 1] = x]
<1>3. /\ new \in Seq(Value) /\ Len(new) = Size
      /\ \A k \in 1 .. Size : new[k] = IF k = i + 1 THEN x ELSE Contents[k]
    BY <1>2, ContentsSeq, ExceptSeq
<1>4. ASSUME NEW k \in 1 .. Size
      PROVE  Contents'[k] = new[k]
    <2>1. k - 1 \in Slot /\ RefAt(k - 1)' = RefAt(k - 1)
        BY <1>1, <1>2, CapAssumption DEF Slot, RefAt, End
    <2>2. Contents'[k] = slots'[RefAt(k - 1)]
        BY <2>1, <1>2, ContentsSeqNext
    <2>3. RefAt(k - 1) \in Slot /\ RefAt(i) \in Slot
        BY <2>1, <1>1, RingIndex
    <2>4. CASE k = i + 1
        <3>1. RefAt(k - 1) = RefAt(i)
            BY <2>4 DEF Slot
        <3> QED BY <3>1, <2>2, <2>3, <2>4, <1>1, <1>3
    <2>5. CASE k # i + 1
        <3>1. k - 1 # i
            BY <2>5, <1>2, CapAssumption DEF Slot
        <3>2. RefAt(k - 1) # RefAt(i)
            BY <3>1, <2>1, <1>1, RingIndex
        <3>3. Contents[k] = slots[RefAt(k - 1)]
            BY ContentsSeq
        <3> QED BY <3>2, <3>3, <2>2, <2>3, <2>5, <1>1, <1>3
    <2> QED BY <2>4, <2>5
<1>5. Contents' = new
    BY <1>2, <1>3, <1>4, ContentsSeqNext, SeqEqual
<1> QED BY <1>1, <1>2, <1>5, ContentsSeq DEF SetAt, Abs!SetAt

(* Freeing an empty deque and making a new one leave the contents empty.   *)
(* MakeCap may find a ring that was freed while empty only.                *)
FreedEmpty == ~alive => IsNil

\* Only an empty ring is freed, and nothing is put in a freed one.
LEMMA FreedEmptyNext == IInv /\ FreedEmpty /\ [Next]_vars => FreedEmpty'
BY DEF FreedEmpty, IsNil, Next, vars, InsertAtBegOpt, InsertAtEndOpt,
       InsertAtBeg, InsertAtEnd, InsertOptFull, TakeoutAtBegOpt,
       TakeoutAtEndOpt, TakeoutAtBeg, TakeoutAtEnd, TakeoutOptNil, GetAt,
       SetAt, Foreach, FreeNil, MakeCap

\* Every operation on the ring is that operation of the deque, or a step
\* that the deque does not see.
LEMMA AbsStep ==
    ASSUME IInv, IInv', FreedEmpty, [Next]_vars
    PROVE  [Abs!Next]_Abs!vars
<1>1. ASSUME NEW x \in Value, InsertAtBegOpt(x) \/ InsertAtEndOpt(x)
      PROVE  Abs!Next
    <2>1. CASE InsertOptFull(x)
        <3>1. Abs!InsertRefused(x)
            BY <2>1, ContentsNonEmpty, ContentsStay
               DEF InsertOptFull, Abs!InsertRefused
        <3> QED BY <3>1 DEF Abs!Next
    <2> QED BY <1>1, <2>1, AbsInsertAtBeg, AbsInsertAtEnd
            DEF InsertAtBegOpt, InsertAtEndOpt, Abs!Next
<1>2. CASE TakeoutAtBegOpt \/ TakeoutAtEndOpt
    <2>1. CASE TakeoutOptNil
        <3>1. Abs!TakeoutRefused
            BY <2>1, ContentsNonEmpty, ContentsStay
               DEF TakeoutOptNil, Abs!TakeoutRefused
        <3> QED BY <3>1 DEF Abs!Next
    <2> QED BY <1>2, <2>1, AbsTakeoutAtBeg, AbsTakeoutAtEnd
            DEF TakeoutAtBegOpt, TakeoutAtEndOpt, Abs!Next
<1>3. ASSUME NEW i \in Slot, GetAt(i) \/ \E x \in Value : SetAt(i, x)
      PROVE  Abs!Next
    BY <1>3, AbsGetAt, AbsSetAt DEF Abs!Next, Slot
<1>4. ASSUME NEW stop \in SUBSET Value, Foreach(stop)
      PROVE  Abs!Next
    BY <1>4, ContentsStay DEF Foreach, Abs!Quiet, Abs!Next
<1>5. CASE FreeNil
    BY <1>5, ContentsStay DEF FreeNil, Abs!Quiet, Abs!Next
<1>6. CASE MakeCap
    <2>1. Contents = <<>>
        BY <1>6, ContentsNonEmpty DEF FreedEmpty, MakeCap
    <2>2. Size' = 0
        BY <1>6 DEF MakeCap, Size
    <2>3. Contents' = <<>>
        BY <2>2, ContentsSeqNext, EmptySeq
    <2> QED BY <1>6, <2>1, <2>3 DEF MakeCap, Abs!Quiet, Abs!Next
<1>7. CASE UNCHANGED vars
    BY <1>7, ContentsStay DEF vars, Abs!vars
<1> QED BY <1>1, <1>2, <1>3, <1>4, <1>5, <1>6, <1>7 DEF Next

(* The ring implements the bounded deque that deqarray.sats promises, for  *)
(* every capacity: each operation returns what the abstract one returns    *)
(* and leaves the contents it leaves.                                      *)
THEOREM RingImplementsDeque == Spec => ImplementsDeque
<1>1. Init => Abs!Init /\ FreedEmpty
    <2> SUFFICES ASSUME Init PROVE Abs!Init /\ FreedEmpty
        OBVIOUS
    <2>1. IInv /\ Size = 0
        BY InitIInv DEF Init, Size
    <2>2. Contents = <<>>
        BY <2>1, ContentsSeq, EmptySeq
    <2> QED BY <2>2 DEF Abs!Init, Init, FreedEmpty
<1>2. IInv /\ IInv' /\ FreedEmpty /\ [Next]_vars => [Abs!Next]_Abs!vars
    BY AbsStep
<1> QED BY <1>1, <1>2, FreedEmptyNext, InvariantHolds, PTL
        DEF Spec, ImplementsDeque, Abs!Spec

-----------------------------------------------------------------------------
(* deqarray_foreach_env on a deque that is not empty. *)

(* A segment that is never told to stop is the whole segment. *)
LEMMA WholeSegment ==
    ASSUME NEW p0 \in Nat, NEW p1 \in Nat, p0 <= p1
    PROVE  Segment(p0, p1, {}) = [i \in 1 .. (p1 - p0) |-> slots[p0 + i - 1]]
<1> DEFINE ahead(n) == p0 + n = p1 \/ slots[p0 + n] \in {}
<1> DEFINE first(n) == ahead(n) /\ \A k \in 0 .. (n - 1) : ~ahead(k)
<1>1. first(p1 - p0) /\ p1 - p0 \in 0 .. (p1 - p0)
    OBVIOUS
<1>2. \A n \in 0 .. (p1 - p0) : first(n) => n = p1 - p0
    OBVIOUS
<1>3. (CHOOSE n \in 0 .. (p1 - p0) : first(n)) = p1 - p0
    BY <1>1, <1>2
<1> QED BY <1>3 DEF Segment

\* Over an occupied ring deqarray_foreach_env visits the elements in order.
LEMMA ForeachStep ==
    ASSUME IInv, Foreach({}), ~IsNil
    PROVE  visited' = Contents
<1>1. frnt \in Slot /\ rear \in Slot /\ frnt # rear
    BY DEF IInv, TypeOK, IsNil
<1>2. CASE frnt > rear
    <2>1. visited' = [i \in 1 .. (frnt - rear) |-> slots[rear + i - 1]]
        <3>1. rear \in Nat /\ frnt \in Nat /\ rear <= frnt
            BY <1>1, <1>2 DEF Slot
        <3>2. Segment(rear, frnt, {}) =
                [i \in 1 .. (frnt - rear) |-> slots[rear + i - 1]]
            BY <3>1, WholeSegment
        <3> QED BY <3>2, <1>2 DEF Foreach, Visits
    <2>2. Size = frnt - rear
        BY <1>1, <1>2 DEF Size, Slot
    <2>3. \A i \in 1 .. Size : RefAt(i - 1) = rear + i - 1
        BY <1>1, <1>2, <2>2, CapAssumption DEF RefAt, Slot, End
    <2> QED BY <2>1, <2>2, <2>3 DEF Contents
<1>3. CASE frnt < rear
    <2> DEFINE hi == [i \in 1 .. (End - rear) |-> slots[rear + i - 1]]
    <2> DEFINE lo == [i \in 1 .. (frnt - 0) |-> slots[0 + i - 1]]
    <2> HIDE DEF hi, lo
    <2>1. Segment(rear, End, {}) = hi
        <3>1. rear \in Nat /\ End \in Nat /\ rear <= End
            BY <1>1, CapAssumption DEF End, Slot
        <3> QED BY <3>1, WholeSegment DEF hi
    <2>2. Segment(0, frnt, {}) = lo
        <3>1. 0 \in Nat /\ frnt \in Nat /\ 0 <= frnt
            BY <1>1 DEF Slot
        <3> QED BY <3>1, WholeSegment DEF lo
    <2>3. visited' = hi \o lo
        BY <1>1, <1>3, <2>1, <2>2 DEF Foreach, Visits, Slot
    <2>4. Size = (End - rear) + frnt /\ Size \in 0 .. Cap /\ End - rear \in Nat
        BY <1>1, <1>3, CapAssumption DEF Size, Slot, End
    <2>5. ASSUME NEW k \in 1 .. Size
          PROVE  IF k <= End - rear
                 THEN Contents[k] = slots[rear + k - 1]
                 ELSE Contents[k] = slots[0 + (k - (End - rear)) - 1]
        <3>1. RefAt(k - 1) = IF k <= End - rear THEN rear + k - 1
                             ELSE 0 + (k - (End - rear)) - 1
            BY <1>1, <1>3, <2>4, CapAssumption DEF RefAt, End, Slot
        <3>2. Contents[k] = slots[RefAt(k - 1)]
            BY ContentsSeq
        <3> QED BY <3>1, <3>2
    <2>6. /\ hi \in Seq(Value) /\ Len(hi) = End - rear
          /\ \A k \in 1 .. End - rear : hi[k] = Contents[k]
        <3>1. \A k \in 1 .. End - rear : k \in 1 .. Size /\ k <= End - rear
            BY <2>4, <1>1 DEF Slot
        <3>2. \A k \in 1 .. End - rear : hi[k] = Contents[k]
            BY <3>1, <2>5 DEF hi
        <3>3. \A k \in 1 .. End - rear : hi[k] \in Value
            BY <3>1, <3>2, ContentsSeq, ElementOfSeq
        <3>4. hi \in [1 .. End - rear -> Value]
            BY <3>3 DEF hi
        <3> QED BY <3>2, <3>4, <2>4, FunctionIsSeq
    <2>7. /\ lo \in Seq(Value) /\ Len(lo) = frnt
          /\ \A k \in 1 .. frnt : lo[k] = Contents[(End - rear) + k]
        <3>0. frnt \in Nat /\ frnt - 0 = frnt
            BY <1>1 DEF Slot
        <3>1. \A k \in 1 .. frnt :
                 /\ (End - rear) + k \in 1 .. Size
                 /\ ~((End - rear) + k <= End - rear)
                 /\ ((End - rear) + k) - (End - rear) = k
            BY <2>4, <3>0
        <3>2. \A k \in 1 .. frnt : lo[k] = Contents[(End - rear) + k]
            <4> TAKE k \in 1 .. frnt
            <4>1. Contents[(End - rear) + k] =
                    slots[0 + (((End - rear) + k) - (End - rear)) - 1]
                BY <3>1, <2>5
            <4>2. lo[k] = slots[0 + k - 1]
                BY <3>0 DEF lo
            <4> QED BY <4>1, <4>2, <3>1
        <3>3. \A k \in 1 .. frnt : lo[k] \in Value
            BY <3>1, <3>2, ContentsSeq, ElementOfSeq
        <3>4. lo \in [1 .. frnt -> Value]
            BY <3>3, <3>0 DEF lo
        <3> QED BY <3>0, <3>2, <3>4, FunctionIsSeq
    <2>8. /\ hi \o lo \in Seq(Value) /\ Len(hi \o lo) = Size
          /\ \A k \in 1 .. Size :
                (hi \o lo)[k] = IF k <= End - rear THEN hi[k]
                                ELSE lo[k - (End - rear)]
        <3>1. /\ Len(hi) + Len(lo) = Size
              /\ \A k \in 1 .. Size : k <= Len(hi) <=> k <= End - rear
            BY <2>4, <2>6, <2>7
        <3>2. /\ hi \o lo \in Seq(Value)
              /\ Len(hi \o lo) = Len(hi) + Len(lo)
              /\ \A k \in 1 .. Len(hi) + Len(lo) :
                    (hi \o lo)[k] = IF k <= Len(hi) THEN hi[k]
                                    ELSE lo[k - Len(hi)]
            BY <2>6, <2>7, ConcatProperties
        <3> QED BY <3>1, <3>2, <2>6
    <2>9. ASSUME NEW k \in 1 .. Size PROVE (hi \o lo)[k] = Contents[k]
        <3>1. CASE k <= End - rear
            BY <3>1, <2>4, <2>6, <2>8
        <3>2. CASE ~(k <= End - rear)
            <4>1. /\ k - (End - rear) \in 1 .. frnt
                  /\ (End - rear) + (k - (End - rear)) = k
                BY <3>2, <2>4, <1>1 DEF Slot
            <4> QED BY <4>1, <3>2, <2>7, <2>8
        <3> QED BY <3>1, <3>2
    <2>10. hi \o lo = Contents
        BY <2>8, <2>9, ContentsSeq, SeqEqual
    <2> QED BY <2>3, <2>10
<1> QED BY <1>1, <1>2, <1>3 DEF Slot

(* foreach walks a non-empty deque from first to last, across the wrap,    *)
(* and visits nothing else (deqarray_foreach_env).                         *)
THEOREM ForeachInOrderHolds == Spec => ForeachInOrder
<1>1. IInv /\ [Next]_vars => [Foreach({}) /\ ~IsNil => visited' = Contents]_vars
    BY ForeachStep
<1> QED BY <1>1, InvariantHolds, PTL DEF Spec, ForeachInOrder
=============================================================================
