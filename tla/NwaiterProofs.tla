---------------------------- MODULE NwaiterProofs ----------------------------
(***************************************************************************)
(* What is true of a nwaiter for any number of tickets.  If tickets are    *)
(* put one at a time, or if the nwaiter is used for one round in which     *)
(* they are put in any way, waitfor comes through only when all tickets    *)
(* have been put; and a put that has met no other between its decrement    *)
(* and its test finds the mutex locked if it finds the count at zero, and  *)
(* is over before the nwaiter is freed.  (MCNwaiter shows that a put that  *)
(* has met another may find it free.)                                      *)
(*                                                                         *)
(* The argument: the count is the number of tickets that are out, and the  *)
(* mutex is locked as long as one is out (IInv).  Who decrements the count *)
(* when no other is before its test therefore finds no other after it      *)
(* either, and keeps the owner waiting until its own end (Lone).           *)
(***************************************************************************)
EXTENDS NwaiterMeeting, FiniteSetTheorems, TLAPS

CountsHeld == owner \in {"working", "waiting", "passed"} => n = Cardinality(Held)
HeldInside == owner \in {"idle", "locking", "passed", "destroyed"} => Held = {}
HeldLocked == mtx = "free" => Held = {}
UnlockingLast == (\E k \in Ticket : pc[k] = "unlocking") => Held = {}
LockingOne == owner = "locking" => n = 1 /\ round < Rounds
OneRound == Rounds = 1 =>
    /\ round = 0 => \A k \in Ticket : pc[k] = "none"
    /\ owner = "locking" => round = 0
Serial == ~Overlapping =>
    /\ Putting # {} => owner \in {"working", "waiting"} /\ mtx = "locked"
    /\ \A j, k \in Putting : j = k

IInv ==
    /\ TypeOK /\ CountsHeld /\ HeldInside /\ HeldLocked /\ UnlockingLast
    /\ LockingOne /\ OneRound /\ Serial

\* The number of tickets out, in the terms the proof needs.
LEMMA HeldCardinality ==
    ASSUME NwaiterAssumption
    PROVE  /\ IsFiniteSet(Held)
           /\ Cardinality(Held) \in Nat
           /\ Cardinality(Held) = 0 <=> Held = {}
<1>1. IsFiniteSet(Held)
    BY FS_Subset DEF Held, NwaiterAssumption
<1> QED BY <1>1, FS_CardinalityType, FS_EmptySet

\* A waiter that has been created has no ticket.
LEMMA InitHolds == ASSUME NwaiterAssumption, Init PROVE IInv
<1>1. Held = {} /\ Putting = {}
    BY DEF Init, Held, Putting
<1> QED BY <1>1 DEF Init, IInv, TypeOK, CountsHeld, HeldInside, HeldLocked,
           UnlockingLast, LockingOne, OneRound, Serial, NwaiterAssumption, PC, Owner

\* Actions that leave the tickets alone.
LEMMA OwnerStep ==
    ASSUME NwaiterAssumption, ~Overlapping \/ Rounds = 1, IInv,
           Initiate \/ Waitfor \/ WaitforLock \/ WaitforUnlock \/ Destroy
    PROVE  IInv'
<1>1. Held' = Held /\ Putting' = Putting
    BY DEF Initiate, Waitfor, WaitforLock, WaitforUnlock, Destroy, Held, Putting
<1>2. CASE Initiate
    BY <1>1, <1>2 DEF Initiate, IInv, TypeOK, CountsHeld, HeldInside, HeldLocked,
       UnlockingLast, LockingOne, OneRound, Serial, NwaiterAssumption, PC, Owner
<1>3. CASE Waitfor
    BY <1>1, <1>3 DEF Waitfor, IInv, TypeOK, CountsHeld, HeldInside, HeldLocked,
       UnlockingLast, LockingOne, OneRound, Serial, NwaiterAssumption, PC, Owner
<1>4. CASE WaitforLock
    BY <1>1, <1>4 DEF WaitforLock, IInv, TypeOK, CountsHeld, HeldInside, HeldLocked,
       UnlockingLast, LockingOne, OneRound, Serial, NwaiterAssumption, PC, Owner
<1>5. CASE WaitforUnlock
    BY <1>1, <1>5 DEF WaitforUnlock, IInv, TypeOK, CountsHeld, HeldInside, HeldLocked,
       UnlockingLast, LockingOne, OneRound, Serial, NwaiterAssumption, PC, Owner
<1>6. CASE Destroy
    BY <1>1, <1>6 DEF Destroy, IInv, TypeOK, CountsHeld, HeldInside, HeldLocked,
       UnlockingLast, LockingOne, OneRound, Serial, NwaiterAssumption, PC, Owner
<1> QED BY <1>2, <1>3, <1>4, <1>5, <1>6

\* The first ticket of a round is the only one.
LEMMA InitiateLockStep ==
    ASSUME NwaiterAssumption, ~Overlapping \/ Rounds = 1, IInv,
           NEW k \in Ticket, InitiateLock(k)
    PROVE  IInv'
<1>1. pc' \in [Ticket -> PC] /\ \A j \in Ticket : pc'[j] = IF j = k THEN "held" ELSE Fresh[j]
    BY DEF InitiateLock, Fresh, IInv, TypeOK, PC
<1>2. Held = {} /\ Fresh[k] = "none"
    BY DEF InitiateLock, IInv, HeldInside
<1>3. \A j \in Ticket : Fresh[j] = IF pc[j] = "spent" THEN "none" ELSE pc[j]
    BY DEF Fresh
<1>4. Held' = {k}
    BY <1>1, <1>2, <1>3 DEF Held
<1>5. Putting' = Putting
    BY <1>1, <1>2, <1>3 DEF Putting
<1>6. Cardinality(Held') = 1
    BY <1>4, FS_Singleton
<1>7. TypeOK'
    BY <1>1 DEF InitiateLock, IInv, TypeOK, LockingOne, Owner, NwaiterAssumption
<1>8. CountsHeld' /\ HeldInside' /\ HeldLocked' /\ LockingOne'
    BY <1>6 DEF InitiateLock, IInv, TypeOK, LockingOne, CountsHeld, HeldInside, HeldLocked
<1>9. ~ \E j \in Ticket : pc'[j] = "unlocking"
    <2>1. ~ \E j \in Ticket : pc[j] = "unlocking"
        BY DEF InitiateLock, IInv, OneRound, Serial, Putting
    <2> QED BY <2>1, <1>1, <1>3
<1>10. UnlockingLast'
    BY <1>9 DEF UnlockingLast
<1>11. OneRound'
    BY DEF InitiateLock, IInv, TypeOK, OneRound, NwaiterAssumption
<1>12. Serial'
    BY <1>5 DEF InitiateLock, IInv, Serial
<1> QED BY <1>7, <1>8, <1>10, <1>11, <1>12 DEF IInv

\* While a ticket is out, the owner is between initiate and waitfor.
LEMMA HeldMeans ==
    ASSUME IInv, NEW k \in Ticket, pc[k] = "held"
    PROVE  /\ owner \in {"working", "waiting"} /\ mtx = "locked"
           /\ \A j \in Ticket : pc[j] # "unlocking"
           /\ Rounds = 1 => round # 0
           /\ k \in Held
<1>1. k \in Held
    BY DEF Held
<1> QED BY <1>1 DEF IInv, TypeOK, Owner, HeldInside, HeldLocked, UnlockingLast, OneRound

\* Splitting counts the new ticket.
LEMMA SplitStep ==
    ASSUME NwaiterAssumption, IInv, NEW k \in Ticket, NEW j \in Ticket, Split(k, j)
    PROVE  IInv'
<1>1. /\ pc[k] = "held" /\ pc[j] = "none" /\ n' = n + 1
      /\ owner' = owner /\ mtx' = mtx /\ round' = round
    BY DEF Split
<1>2. pc' \in [Ticket -> PC] /\ \A i \in Ticket : pc'[i] = IF i = j THEN "held" ELSE pc[i]
    BY DEF Split, IInv, TypeOK, PC
<1>3. /\ owner \in {"working", "waiting"} /\ mtx = "locked"
      /\ \A i \in Ticket : pc[i] # "unlocking"
      /\ Rounds = 1 => round # 0
    BY <1>1, HeldMeans
<1>4. Held' = Held \cup {j} /\ j \notin Held /\ Putting' = Putting
    BY <1>1, <1>2 DEF Held, Putting
<1>5. Cardinality(Held') = n + 1 /\ n \in Nat
    BY <1>3, <1>4, HeldCardinality, FS_AddElement DEF IInv, TypeOK, CountsHeld
<1> QED BY <1>1, <1>2, <1>3, <1>4, <1>5 DEF IInv, TypeOK, CountsHeld, HeldInside,
           HeldLocked, UnlockingLast, LockingOne, OneRound, Serial

\* Putting uncounts the ticket under the spinlock.
LEMMA DecrementStep ==
    ASSUME NwaiterAssumption, IInv, NEW k \in Ticket, Decrement(k)
    PROVE  IInv'
<1>1. /\ pc[k] = "held" /\ n' = n - 1
      /\ owner' = owner /\ mtx' = mtx /\ round' = round
    BY DEF Decrement
<1>2. pc' \in [Ticket -> PC] /\ \A i \in Ticket : pc'[i] = IF i = k THEN "counted" ELSE pc[i]
    BY DEF Decrement, IInv, TypeOK, PC
<1>3. /\ owner \in {"working", "waiting"} /\ mtx = "locked"
      /\ \A i \in Ticket : pc[i] # "unlocking"
      /\ Rounds = 1 => round # 0
      /\ k \in Held
    BY <1>1, HeldMeans
<1>4. Held' = Held \ {k} /\ Putting' = Putting \cup {k}
    BY <1>1, <1>2 DEF Held, Putting
<1>5. /\ Cardinality(Held') = n - 1 /\ n - 1 \in Nat
    <2>1. Cardinality(Held') = Cardinality(Held) - 1
        BY <1>3, <1>4, HeldCardinality, FS_RemoveElement
    <2>2. n = Cardinality(Held) /\ n \in Nat /\ n # 0
        BY <1>3, HeldCardinality DEF IInv, CountsHeld
    <2> QED BY <2>1, <2>2
<1>6. ~Overlapping => Putting = {}
    BY DEF Decrement
<1> QED BY <1>1, <1>2, <1>3, <1>4, <1>5, <1>6 DEF IInv, TypeOK, CountsHeld, HeldInside,
           HeldLocked, UnlockingLast, LockingOne, OneRound, Serial

\* Who reads a count of zero finds no ticket out.
LEMMA RereadStep ==
    ASSUME NwaiterAssumption, IInv, NEW k \in Ticket, Reread(k)
    PROVE  IInv'
<1>1. /\ pc[k] = "counted" /\ n' = n
      /\ owner' = owner /\ mtx' = mtx /\ round' = round
    BY DEF Reread
<1>2. PICK seen \in IF owner = "destroyed" THEN BOOLEAN ELSE {0 >= n} :
          pc' = [pc EXCEPT ![k] = IF seen THEN "unlocking" ELSE "spent"]
    BY DEF Reread
<1>3. /\ pc' \in [Ticket -> PC]
      /\ \A i \in Ticket : i # k => pc'[i] = pc[i]
      /\ pc'[k] \in {"unlocking", "spent"}
    BY <1>2 DEF IInv, TypeOK, PC
<1>4. Held' = Held /\ Putting' \subseteq Putting
    BY <1>1, <1>3 DEF Held, Putting
<1>5. pc'[k] = "unlocking" => Held = {}
    <2>1. CASE owner \in {"idle", "locking", "passed", "destroyed"}
        BY <2>1 DEF IInv, HeldInside
    <2>2. CASE owner \in {"working", "waiting"}
        <3>1. n = Cardinality(Held)
            BY <2>2 DEF IInv, CountsHeld
        <3>2. pc'[k] = "unlocking" => 0 >= n
            BY <1>2, <2>2 DEF IInv, TypeOK
        <3> QED BY <3>1, <3>2, HeldCardinality
    <2> QED BY <2>1, <2>2 DEF IInv, TypeOK, Owner
<1>6. UnlockingLast'
    BY <1>3, <1>4, <1>5 DEF IInv, UnlockingLast
<1>7. OneRound'
    BY <1>1 DEF IInv, OneRound
<1> QED BY <1>1, <1>3, <1>4, <1>6, <1>7 DEF IInv, TypeOK, CountsHeld, HeldInside,
           HeldLocked, LockingOne, Serial

\* The mutex is opened when no ticket is out.
LEMMA UnlockStep ==
    ASSUME NwaiterAssumption, IInv, NEW k \in Ticket, Unlock(k)
    PROVE  IInv'
<1>1. /\ pc[k] = "unlocking" /\ n' = n
      /\ owner' = owner /\ mtx' = "free" /\ round' = round
    BY DEF Unlock
<1>2. pc' \in [Ticket -> PC] /\ \A i \in Ticket : pc'[i] = IF i = k THEN "spent" ELSE pc[i]
    BY DEF Unlock, IInv, TypeOK, PC
<1>3. Held' = Held /\ Putting' = Putting \ {k} /\ k \in Putting
    BY <1>1, <1>2 DEF Held, Putting
<1>4. Held = {}
    BY <1>1 DEF IInv, UnlockingLast
<1>5. OneRound'
    BY <1>1 DEF IInv, OneRound
<1>6. Serial'
    BY <1>3 DEF IInv, Serial
<1> QED BY <1>1, <1>2, <1>3, <1>4, <1>5, <1>6 DEF IInv, TypeOK, CountsHeld,
           HeldInside, HeldLocked, UnlockingLast, LockingOne

\* IInv is inductive: one step of the owner or of one of the tickets.
LEMMA NextHolds ==
    ASSUME NwaiterAssumption, ~Overlapping \/ Rounds = 1, IInv, [Next]_vars
    PROVE  IInv'
<1>1. CASE UNCHANGED vars
    BY <1>1 DEF vars, IInv, TypeOK, CountsHeld, HeldInside, HeldLocked, UnlockingLast,
       LockingOne, OneRound, Serial, Held, Putting
<1>2. CASE OwnerNext
    BY <1>2, OwnerStep, InitiateLockStep DEF OwnerNext
<1>3. CASE \E k \in Ticket : Put(k) \/ \E j \in Ticket : Split(k, j)
    BY <1>3, DecrementStep, RereadStep, UnlockStep, SplitStep DEF Put
<1> QED BY <1>1, <1>2, <1>3 DEF Next

\* The invariant, for any tickets.
THEOREM InvariantHolds ==
    ASSUME NwaiterAssumption, ~Overlapping \/ Rounds = 1
    PROVE  Spec => []IInv
BY InitHolds, NextHolds, PTL DEF Spec

\* nwaiter_waitfor comes through only when every ticket has been put.
THEOREM WaitedForAllHolds ==
    ASSUME NwaiterAssumption, ~Overlapping \/ Rounds = 1
    PROVE  Spec => []WaitedForAll
<1>1. IInv => WaitedForAll
    BY DEF IInv, HeldInside, WaitedForAll
<1> QED BY <1>1, InvariantHolds, PTL

-----------------------------------------------------------------------------
(* The puts that have met no other. *)

Lone ==
    /\ met \subseteq Putting
    /\ \A k \in Putting \ met :
          Putting = {k} /\ owner \in {"working", "waiting"} /\ mtx = "locked"

MeetInv == IInv /\ Lone

\* A put that has not met another by now had not met one before.
LEMMA Remembered ==
    ASSUME Remember
    PROVE  /\ met' \subseteq Putting'
           /\ \A k \in Putting' \ met' : k \notin met
           /\ \A k \in Putting' \ met' : k \in Counted' => Counted' = {k}
BY DEF Remember

\* The owner does not come past a put that has met no other.
LEMMA LoneOwner ==
    ASSUME IInv, Lone, Remember, OwnerNext
    PROVE  Lone'
<1>1. Putting' = Putting
    <2>1. CASE \E k \in Ticket : InitiateLock(k)
        <3>1. PICK k \in Ticket : InitiateLock(k)
            BY <2>1
        <3>2. /\ Fresh[k] = "none"
              /\ \A j \in Ticket : pc'[j] = IF j = k THEN "held" ELSE Fresh[j]
              /\ \A j \in Ticket : Fresh[j] = IF pc[j] = "spent" THEN "none" ELSE pc[j]
            BY <3>1 DEF InitiateLock, Fresh
        <3> QED BY <3>2 DEF Putting
    <2>2. CASE Initiate \/ Waitfor \/ WaitforLock \/ WaitforUnlock \/ Destroy
        BY <2>2 DEF Initiate, Waitfor, WaitforLock, WaitforUnlock, Destroy, Putting
    <2> QED BY <2>1, <2>2 DEF OwnerNext
<1>2. SUFFICES ASSUME NEW k \in Putting' \ met'
               PROVE  /\ Putting' = {k}
                      /\ owner' \in {"working", "waiting"} /\ mtx' = "locked"
    BY Remembered DEF Lone
<1>3. Putting = {k} /\ owner \in {"working", "waiting"} /\ mtx = "locked"
    BY <1>1, <1>2, Remembered DEF Lone
<1>4. Waitfor
    BY <1>3 DEF OwnerNext, Initiate, InitiateLock, WaitforLock, WaitforUnlock, Destroy
<1> QED BY <1>1, <1>3, <1>4 DEF Waitfor

\* A put that begins has met all that are before their test, and none is past
\* it: a ticket is still out.
LEMMA LoneDecrement ==
    ASSUME IInv, Lone, Remember, NEW j \in Ticket, Decrement(j)
    PROVE  Lone'
<1>1. /\ owner \in {"working", "waiting"} /\ mtx = "locked"
      /\ \A i \in Ticket : pc[i] # "unlocking"
    BY HeldMeans DEF Decrement
<1>2. /\ owner' = owner /\ mtx' = mtx
      /\ \A i \in Ticket : pc'[i] = IF i = j THEN "counted" ELSE pc[i]
    BY DEF Decrement, IInv, TypeOK
<1>3. Putting' = Counted'
    BY <1>1, <1>2 DEF Putting, Counted
<1> QED BY <1>1, <1>2, <1>3, Remembered DEF Lone

\* The other steps of tickets take no ticket into a put.
LEMMA LoneTicket ==
    ASSUME IInv, Lone, Remember, NEW j \in Ticket,
           Reread(j) \/ Unlock(j) \/ \E i \in Ticket : Split(i, j)
    PROVE  Lone'
<1>1. /\ owner' = owner
      /\ \A i \in Ticket : i # j => pc'[i] = pc[i]
      /\ j \in Putting' => Reread(j)
    <2>1. CASE Reread(j)
        BY <2>1 DEF Reread, IInv, TypeOK
    <2>2. CASE Unlock(j)
        BY <2>2 DEF Unlock, Putting, IInv, TypeOK
    <2>3. CASE \E i \in Ticket : Split(i, j)
        BY <2>3 DEF Split, Putting, IInv, TypeOK
    <2> QED BY <2>1, <2>2, <2>3
<1>2. Putting' \subseteq Putting
    BY <1>1 DEF Reread, Putting
<1>3. SUFFICES ASSUME NEW k \in Putting' \ met'
               PROVE  /\ Putting' = {k}
                      /\ owner' \in {"working", "waiting"} /\ mtx' = "locked"
    BY Remembered DEF Lone
<1>4. Putting = {k} /\ owner \in {"working", "waiting"} /\ mtx = "locked"
    BY <1>2, <1>3, Remembered DEF Lone
<1>5. ~Unlock(j)
    <2>1. SUFFICES ASSUME Unlock(j) PROVE FALSE
        OBVIOUS
    <2>2. j \in Putting /\ j \notin Putting'
        BY <2>1 DEF Unlock, Putting, IInv, TypeOK
    <2> QED BY <1>3, <1>4, <2>2
<1>6. mtx' = mtx
    BY <1>5 DEF Reread, Split
<1> QED BY <1>1, <1>2, <1>3, <1>4, <1>6

\* Every step of Nwaiter, with the history.
LEMMA MeetNextHolds ==
    ASSUME NwaiterAssumption, ~Overlapping \/ Rounds = 1, MeetInv,
           MeetNext \/ UNCHANGED meetvars
    PROVE  MeetInv'
<1>1. IInv'
    BY NextHolds DEF MeetInv, MeetNext, meetvars
<1>2. CASE MeetNext
    <2>1. Lone'
        BY <1>2, LoneOwner, LoneDecrement, LoneTicket DEF MeetInv, MeetNext, Next, Put
    <2> QED BY <1>1, <2>1 DEF MeetInv
<1>3. CASE UNCHANGED meetvars
    BY <1>1, <1>3 DEF MeetInv, Lone, meetvars, vars, Putting
<1> QED BY <1>2, <1>3

\* Nobody is putting a ticket when the nwaiter is created.
LEMMA MeetInitHolds == ASSUME NwaiterAssumption, MeetInit PROVE MeetInv
<1>1. Putting = {}
    BY DEF MeetInit, Init, Putting
<1> QED BY <1>1, InitHolds DEF MeetInit, MeetInv, Lone

\* The invariant with the history, for any tickets.
THEOREM MeetInvariantHolds ==
    ASSUME NwaiterAssumption, ~Overlapping \/ Rounds = 1
    PROVE  MeetSpec => []MeetInv
BY MeetInitHolds, MeetNextHolds, PTL DEF MeetSpec

\* What the invariant says of a put that has met no other.
LEMMA MeetMeans == ASSUME MeetInv PROVE LockedUnlessMet /\ NotFreedUnlessMet
BY DEF MeetInv, Lone, Putting, LockedUnlessMet, NotFreedUnlessMet

\* The assertion of nwaiter_ticket_put, for every put that meets no other
\* between its decrement and its test, though others may meet.
THEOREM LockedUnlessMetHolds ==
    ASSUME NwaiterAssumption, ~Overlapping \/ Rounds = 1
    PROVE  MeetSpec => []LockedUnlessMet
BY MeetInvariantHolds, MeetMeans, PTL

\* nwaiter_destroy frees nothing that such a put still reads or unlocks.
THEOREM NotFreedUnlessMetHolds ==
    ASSUME NwaiterAssumption, ~Overlapping \/ Rounds = 1
    PROVE  MeetSpec => []NotFreedUnlessMet
BY MeetInvariantHolds, MeetMeans, PTL
=============================================================================
