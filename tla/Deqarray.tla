------------------------------ MODULE Deqarray ------------------------------
(***************************************************************************)
(* libats/DATS/deqarray.dats over libats/CATS/deqarray.cats: a deque in a  *)
(* ring of Cap + 1 slots.  A pointer into the block is the index of its    *)
(* slot (pointers are always beg + k * sizeof(a)), so deqarray_beg is 0    *)
(* and deqarray_end is Cap + 1.  rear is the slot of the first element,    *)
(* frnt the slot after the last; one slot always stays unused, which is    *)
(* what tells a full ring from an empty one.                               *)
(*                                                                         *)
(* PtrPredKeepsEnd, IsFullUnwrapped, PutAtEndAdvanceFirst,                 *)
(* TakeoutAtEndStale and VisitsSwapped are mutants: slips of the           *)
(* definition that follows each, which the properties must catch.          *)
(***************************************************************************)
EXTENDS Naturals, Sequences

CONSTANTS
    Value,     \* the elements
    Cap,       \* the capacity given to deqarray_make_cap
    Uninit     \* what a slot that was never written holds

ASSUME CapAssumption == Cap \in Nat
ASSUME UninitAssumption == Uninit \notin Value

VARIABLES
    alive,     \* the block is allocated
    slots,     \* the array of Cap + 1 slots
    frnt,
    rear,
    ret,       \* the result of the last operation (<<>>: None_vt or void)
    visited    \* what the last operation applied foreach$fwork to

vars == <<alive, slots, frnt, rear, ret, visited>>

Slot == 0 .. Cap
End == Cap + 1

\* deqarray_ptr_succ, deqarray_ptr_pred
PtrSucc(p) == IF p + 1 < End THEN p + 1 ELSE 0
PtrPredKeepsEnd(p) == IF p > 0 THEN p - 1 ELSE End
PtrPred(p) == IF p > 0 THEN p - 1 ELSE End - 1

IsNil == frnt = rear
IsFullUnwrapped == frnt + 1 = rear
IsFull == PtrSucc(frnt) = rear

\* deqarray_get_size, deqarray_getref_at
Size == IF frnt >= rear THEN frnt - rear ELSE (frnt + End) - rear
RefAt(i) == IF rear + i >= End THEN (rear + i) - End ELSE rear + i

\* The deque that the ring stands for.
Contents == [i \in 1 .. Size |-> slots[RefAt(i - 1)]]

-----------------------------------------------------------------------------
\* deqarray_make_cap leaves the slots uninitialised.
FreshSlots == [p \in Slot |-> Uninit]

Init ==
    /\ alive = TRUE
    /\ slots = FreshSlots /\ frnt = 0 /\ rear = 0
    /\ ret = <<>> /\ visited = <<>>

PutAtBeg(x) ==
    /\ slots' = [slots EXCEPT ![PtrPred(rear)] = x]
    /\ rear' = PtrPred(rear)
    /\ UNCHANGED frnt

PutAtEndAdvanceFirst(x) ==
    /\ slots' = [slots EXCEPT ![PtrSucc(frnt)] = x]
    /\ frnt' = PtrSucc(frnt)
    /\ UNCHANGED rear

PutAtEnd(x) ==
    /\ slots' = [slots EXCEPT ![frnt] = x]
    /\ frnt' = PtrSucc(frnt)
    /\ UNCHANGED rear

\* The type of insert requires m > n, which a caller shows by testing is_full.
InsertAtBeg(x) ==
    /\ alive /\ ~IsFull
    /\ PutAtBeg(x)
    /\ ret' = <<>> /\ visited' = <<>> /\ UNCHANGED alive

InsertAtEnd(x) ==
    /\ alive /\ ~IsFull
    /\ PutAtEnd(x)
    /\ ret' = <<>> /\ visited' = <<>> /\ UNCHANGED alive

\* Both _opt insertions give the element back when the ring is full.
InsertOptFull(x) ==
    /\ alive /\ IsFull
    /\ ret' = <<x>>
    /\ visited' = <<>> /\ UNCHANGED <<alive, slots, frnt, rear>>

InsertAtBegOpt(x) == InsertAtBeg(x) \/ InsertOptFull(x)
InsertAtEndOpt(x) == InsertAtEnd(x) \/ InsertOptFull(x)

\* The slot keeps its bits; it is dead once rear (frnt) has moved.
TakeoutAtBeg ==
    /\ alive /\ ~IsNil
    /\ ret' = <<slots[rear]>>
    /\ rear' = PtrSucc(rear)
    /\ visited' = <<>> /\ UNCHANGED <<alive, slots, frnt>>

TakeoutAtEndStale ==
    /\ alive /\ ~IsNil
    /\ ret' = <<slots[frnt]>>
    /\ frnt' = PtrPred(frnt)
    /\ visited' = <<>> /\ UNCHANGED <<alive, slots, rear>>

TakeoutAtEnd ==
    /\ alive /\ ~IsNil
    /\ ret' = <<slots[PtrPred(frnt)]>>
    /\ frnt' = PtrPred(frnt)
    /\ visited' = <<>> /\ UNCHANGED <<alive, slots, rear>>

TakeoutOptNil ==
    /\ alive /\ IsNil
    /\ ret' = <<>>
    /\ visited' = <<>> /\ UNCHANGED <<alive, slots, frnt, rear>>

TakeoutAtBegOpt == TakeoutAtBeg \/ TakeoutOptNil
TakeoutAtEndOpt == TakeoutAtEnd \/ TakeoutOptNil

GetAt(i) ==
    /\ alive /\ i < Size
    /\ ret' = <<slots[RefAt(i)]>>
    /\ visited' = <<>> /\ UNCHANGED <<alive, slots, frnt, rear>>

SetAt(i, x) ==
    /\ alive /\ i < Size
    /\ slots' = [slots EXCEPT ![RefAt(i)] = x]
    /\ ret' = <<>> /\ visited' = <<>> /\ UNCHANGED <<alive, frnt, rear>>

-----------------------------------------------------------------------------
(* foreach(p0, p1) applies fwork to the slots p0 .. p1 - 1 in order and    *)
(* stops at the first one for which foreach$cont is false; stop is the set *)
(* of elements for which it is.                                            *)
Segment(p0, p1, stop) ==
    LET ahead(n) == p0 + n = p1 \/ slots[p0 + n] \in stop
        len == CHOOSE n \in 0 .. (p1 - p0) :
                   ahead(n) /\ \A k \in 0 .. (n - 1) : ~ahead(k)
    IN  [i \in 1 .. len |-> slots[p0 + i - 1]]

VisitsSwapped(stop) ==
    IF frnt > rear
    THEN Segment(rear, frnt, stop)
    ELSE Segment(0, frnt, stop) \o Segment(rear, End, stop)

Visits(stop) ==
    IF frnt > rear
    THEN Segment(rear, frnt, stop)
    ELSE Segment(rear, End, stop) \o Segment(0, frnt, stop)

Foreach(stop) ==
    /\ alive
    /\ visited' = Visits(stop)
    /\ ret' = <<>> /\ UNCHANGED <<alive, slots, frnt, rear>>

\* The type of free_nil requires n = 0.
FreeNil ==
    /\ alive /\ IsNil
    /\ alive' = FALSE
    /\ ret' = <<>> /\ visited' = <<>> /\ UNCHANGED <<slots, frnt, rear>>

MakeCap ==
    /\ ~alive
    /\ alive' = TRUE
    /\ slots' = FreshSlots /\ frnt' = 0 /\ rear' = 0
    /\ ret' = <<>> /\ visited' = <<>>

Next ==
    \/ \E x \in Value : InsertAtBegOpt(x) \/ InsertAtEndOpt(x)
    \/ TakeoutAtBegOpt \/ TakeoutAtEndOpt
    \/ \E i \in Slot : GetAt(i) \/ \E x \in Value : SetAt(i, x)
    \/ \E stop \in SUBSET Value : Foreach(stop)
    \/ FreeNil \/ MakeCap

Spec == Init /\ [][Next]_vars

-----------------------------------------------------------------------------
(* Every pointer stays inside the block and every slot holds an element or *)
(* was never written.                                                      *)
TypeOK ==
    /\ alive \in BOOLEAN
    /\ slots \in [Slot -> Value \cup {Uninit}]
    /\ frnt \in Slot /\ rear \in Slot

(* The n slots between rear and frnt have all been written: no operation   *)
(* of the interface hands out memory that deqarray_make_cap left           *)
(* uninitialised.                                                          *)
LiveInitialised == \A i \in Slot : i < Size => slots[RefAt(i)] \in Value

(* deqarray_is_full answers bool(m == n) and deqarray_is_nil bool(n == 0), *)
(* as their types in deqarray.sats say, for the size that get_size         *)
(* computes: the pointer comparisons never confuse a full ring with an     *)
(* empty one.                                                              *)
SizeAgrees ==
    /\ Size \in 0 .. Cap
    /\ IsFull <=> Size = Cap
    /\ IsNil <=> Size = 0

(* The ring implements the bounded deque of deqarray.sats: every operation *)
(* returns what the abstract one returns and leaves the abstract contents. *)
Abs == INSTANCE BoundedDeque WITH content <- Contents
ImplementsDeque == Abs!Spec

(* A foreach that is never told to stop walks a non-empty deque from its   *)
(* first element to its last, across the wrap, and visits nothing else.    *)
ForeachInOrder ==
    [][Foreach({}) /\ ~IsNil => visited' = Contents]_vars

(* deqarray.sats: foreach$fwork takes x: &a, an initialised element, so    *)
(* foreach may apply it to elements of the deque only.                     *)
ForeachVisitsElements ==
    \A i \in 1 .. Len(visited) : visited[i] \in Value
=============================================================================
