------------------------------ MODULE LinChannel ------------------------------
(***************************************************************************)
(* The sharing of a linear channel, threadkit/DATS/channel_vt.dats:        *)
(* channel_ref makes another reference and channel_unref gives one up; the *)
(* last unref destroys the locks and hands the queue back.  channel_ref    *)
(* increments rfcnt under the spinlock.  channel_unref reads it under the  *)
(* spinlock and writes it after the unlock.  mysession-g's uchan_ref and   *)
(* uchan_unref do the same.                                                *)
(*                                                                         *)
(* A call is made through a reference; different references may be in the  *)
(* hands of different threads.  insert and takeout are in Channel.         *)
(***************************************************************************)
EXTENDS Naturals, FiniteSets

CONSTANTS
    Reference,     \* bound: the references that are ever made
    First          \* the one that channel_create_exn returns

LinChannelAssumption == IsFiniteSet(Reference) /\ First \in Reference

VARIABLES
    rfcnt,    \* the count
    spin,     \* is the spinlock held?
    pc,       \* pc[r]: "none", or where the reference is
    seen,     \* seen[r]: the count that the call through r has read
    freed,    \* has the channel been freed?
    crossed   \* history: the functions that have written rfcnt between the
              \* reading of it and the writing of it by another call

vars == <<rfcnt, spin, pc, seen, freed, crossed>>

\* "ref", "unref": in channel_ref or channel_unref, rfcnt has been read.
\* "given": given up.
PC == {"none", "held", "ref", "unref", "given"}
Holders == {r \in Reference : pc[r] \in {"held", "ref", "unref"}}
Calling == {r \in Reference : pc[r] \in {"ref", "unref"}}
Unused == {r \in Reference : pc[r] = "none"}

\* The count is positive as long as it is written at all, and each reference is
\* in one of the states of its calls.
TypeOK ==
    /\ rfcnt \in Nat \ {0}
    /\ spin \in BOOLEAN
    /\ pc \in [Reference -> PC]
    /\ seen \in [Reference -> Nat]
    /\ freed \in BOOLEAN
    /\ crossed \subseteq {"ref", "unref"}

Init ==
    /\ rfcnt = 1
    /\ spin = FALSE
    /\ pc = [r \in Reference |-> IF r = First THEN "held" ELSE "none"]
    /\ seen = [r \in Reference |-> 0]
    /\ freed = FALSE
    /\ crossed = {}

\* A local variable ends with its call.
Forget(r) == seen' = [seen EXCEPT ![r] = 0]

\* The call through r, of the function f, writes rfcnt.
Write(r, f, count) ==
    /\ rfcnt' = count
    /\ crossed' = IF Calling = {r} THEN crossed ELSE crossed \cup {f}

MayCall(r) == pc[r] = "held" /\ ~freed

\* spin_lock, and rfcnt is read.
Ref(r) ==
    /\ MayCall(r) /\ ~spin /\ Unused # {}
    /\ spin' = TRUE
    /\ seen' = [seen EXCEPT ![r] = rfcnt]
    /\ pc' = [pc EXCEPT ![r] = "ref"]
    /\ UNCHANGED <<rfcnt, freed, crossed>>

RefReturnUncounted(r, s) ==
    /\ pc[r] = "ref" /\ s \in Unused /\ ~freed
    /\ Write(r, "ref", seen[r])
    /\ spin' = FALSE
    /\ pc' = [pc EXCEPT ![r] = "held", ![s] = "held"]
    /\ Forget(r)
    /\ UNCHANGED freed

\* rfcnt is written, spin_unlock, and the new reference s is returned.
RefReturn(r, s) ==
    /\ pc[r] = "ref" /\ s \in Unused /\ ~freed
    /\ Write(r, "ref", seen[r] + 1)
    /\ spin' = FALSE
    /\ pc' = [pc EXCEPT ![r] = "held", ![s] = "held"]
    /\ Forget(r)
    /\ UNCHANGED freed

\* The whole section under the spinlock.
Unref(r) ==
    /\ MayCall(r) /\ ~spin
    /\ seen' = [seen EXCEPT ![r] = rfcnt]
    /\ pc' = [pc EXCEPT ![r] = "unref"]
    /\ UNCHANGED <<rfcnt, spin, freed, crossed>>

UnrefReturn(r) ==
    /\ pc[r] = "unref" /\ seen[r] >= 2 /\ ~freed
    /\ Write(r, "unref", seen[r] - 1)
    /\ pc' = [pc EXCEPT ![r] = "given"]
    /\ Forget(r)
    /\ UNCHANGED <<spin, freed>>

UnrefFree(r) ==
    /\ pc[r] = "unref" /\ seen[r] < 2 /\ ~freed
    /\ freed' = TRUE
    /\ pc' = [pc EXCEPT ![r] = "given"]
    /\ Forget(r)
    /\ UNCHANGED <<rfcnt, spin, crossed>>

Next == \E r \in Reference :
    \/ Ref(r) \/ Unref(r) \/ UnrefReturn(r) \/ UnrefFree(r)
    \/ \E s \in Reference : RefReturn(r, s)

Spec == Init /\ [][Next]_vars

-----------------------------------------------------------------------------
\* Calls of channel_ref and channel_unref overlap in any way.  As long as no
\* channel_ref has returned between the reading and the writing of the count
\* by a channel_unref, the count is not below the number of references and the
\* channel is not freed while somebody has one, whatever else has overlapped.
NeverTooLow == "ref" \notin crossed =>
    /\ ~freed => rfcnt >= Cardinality(Holders)
    /\ freed => Holders = {}

\* As long as nobody has written the count between the reading and the writing
\* by another, it is the number of references, and the last channel_unref, no
\* other, frees the channel.
Exact == crossed = {} =>
    /\ ~freed => rfcnt = Cardinality(Holders)
    /\ freed <=> Holders = {}

CountAgrees == NeverTooLow /\ Exact
=============================================================================
