------------------------------- MODULE Nwaiter -------------------------------
(***************************************************************************)
(* threadkit/DATS/nwaiter.dats: one thread waits until all the tickets it  *)
(* gave out have been put.  A nwaiter is a count n under a spinlock and a  *)
(* mutex that initiate leaves locked; whoever finds the count at zero      *)
(* unlocks it for the thread in waitfor.  A section under the spinlock     *)
(* touches n alone and is one step; ticket_put reads n once more after it. *)
(*                                                                         *)
(* pthread_mutex_unlock of a mutex that is free, or that another thread    *)
(* holds, is undefined in POSIX; a default mutex of glibc is left free.    *)
(***************************************************************************)
EXTENDS Integers, FiniteSets

CONSTANTS
    Ticket,       \* bound: the tickets of one round
    Rounds,       \* bound: how often the nwaiter is initiated
    Overlapping   \* may a ticket be put while another is being put?

NwaiterAssumption ==
    /\ IsFiniteSet(Ticket)
    /\ Rounds \in Nat \ {0}
    /\ Overlapping \in BOOLEAN

VARIABLES
    n,        \* the count
    mtx,      \* "free" or "locked"
    owner,    \* where the thread is that initiates, waits and destroys
    pc,       \* pc[k]: what became of ticket k
    round     \* how often the nwaiter has been initiated

vars == <<n, mtx, owner, pc, round>>

\* "idle": has a nwaiter(0); "locking": between the two effects of initiate;
\* "working": has a nwaiter(1); "waiting": in the mutex_lock of waitfor;
\* "passed": about to unlock; "destroyed": the memory has been freed.
Owner == {"idle", "locking", "working", "waiting", "passed", "destroyed"}

\* "counted": n was decremented for k and is about to be read again;
\* "unlocking": n was read as zero.
PC == {"none", "held", "counted", "unlocking", "spent"}

\* The count never goes below zero; mutex, owner and tickets are well formed.
TypeOK ==
    /\ n \in Nat
    /\ mtx \in {"free", "locked"}
    /\ owner \in Owner
    /\ pc \in [Ticket -> PC]
    /\ round \in 0..Rounds

Held == {k \in Ticket : pc[k] = "held"}
Putting == {k \in Ticket : pc[k] \in {"counted", "unlocking"}}

Init ==
    /\ n = 0
    /\ mtx = "free"
    /\ owner = "idle"
    /\ pc = [k \in Ticket |-> "none"]
    /\ round = 0

Initiate ==
    /\ owner = "idle" /\ round < Rounds
    /\ n' = 1
    /\ owner' = "locking"
    /\ UNCHANGED <<mtx, pc, round>>

\* The spent tickets of the round before may be given out again.
Fresh == [k \in Ticket |-> IF pc[k] = "spent" THEN "none" ELSE pc[k]]

InitiateLock(k) ==
    /\ owner = "locking" /\ mtx = "free"
    /\ Fresh[k] = "none"
    /\ mtx' = "locked"
    /\ owner' = "working"
    /\ pc' = [Fresh EXCEPT ![k] = "held"]
    /\ round' = round + 1
    /\ UNCHANGED n

SplitUncounted(k, j) ==
    /\ pc[k] = "held" /\ pc[j] = "none"
    /\ pc' = [pc EXCEPT ![j] = "held"]
    /\ UNCHANGED <<n, mtx, owner, round>>

Split(k, j) ==
    /\ pc[k] = "held" /\ pc[j] = "none"
    /\ n' = n + 1
    /\ pc' = [pc EXCEPT ![j] = "held"]
    /\ UNCHANGED <<mtx, owner, round>>

\* ticket_put, its section under the spinlock.
Decrement(k) ==
    /\ pc[k] = "held"
    /\ Overlapping \/ Putting = {}
    /\ n' = n - 1
    /\ pc' = [pc EXCEPT ![k] = "counted"]
    /\ UNCHANGED <<mtx, owner, round>>

RereadOne(k) ==
    /\ pc[k] = "counted"
    /\ pc' = [pc EXCEPT ![k] = IF 1 >= n THEN "unlocking" ELSE "spent"]
    /\ UNCHANGED <<n, mtx, owner, round>>

RereadUnlocking(k) ==
    /\ pc[k] = "counted"
    /\ IF 0 >= n
         THEN pc' = [pc EXCEPT ![k] = "unlocking"] /\ mtx' = "free"
         ELSE pc' = [pc EXCEPT ![k] = "spent"] /\ UNCHANGED mtx
    /\ UNCHANGED <<n, owner, round>>

\* The test 0 >= n.  In freed memory it has either outcome.
Reread(k) ==
    /\ pc[k] = "counted"
    /\ \E seen \in IF owner = "destroyed" THEN BOOLEAN ELSE {0 >= n} :
          pc' = [pc EXCEPT ![k] = IF seen THEN "unlocking" ELSE "spent"]
    /\ UNCHANGED <<n, mtx, owner, round>>

Unlock(k) ==
    /\ pc[k] = "unlocking"
    /\ mtx' = "free"
    /\ pc' = [pc EXCEPT ![k] = "spent"]
    /\ UNCHANGED <<n, owner, round>>

Waitfor ==
    /\ owner = "working"
    /\ owner' = "waiting"
    /\ UNCHANGED <<n, mtx, pc, round>>

WaitforLock ==
    /\ owner = "waiting" /\ mtx = "free"
    /\ mtx' = "locked"
    /\ owner' = "passed"
    /\ UNCHANGED <<n, pc, round>>

WaitforUnlock ==
    /\ owner = "passed"
    /\ mtx' = "free"
    /\ owner' = "idle"
    /\ UNCHANGED <<n, pc, round>>

Destroy ==
    /\ owner = "idle"
    /\ owner' = "destroyed"
    /\ UNCHANGED <<n, mtx, pc, round>>

OwnerNext ==
    \/ Initiate \/ \E k \in Ticket : InitiateLock(k)
    \/ Waitfor \/ WaitforLock \/ WaitforUnlock \/ Destroy
Put(k) == Decrement(k) \/ Reread(k) \/ Unlock(k)
Next == OwnerNext \/ \E k \in Ticket : Put(k) \/ \E j \in Ticket : Split(k, j)

Spec == Init /\ [][Next]_vars

\* Every ticket is put by a running thread, and the owner's mutex_lock returns
\* once the mutex stays free: only ticket_put and the owner touch it.
Fairness ==
    /\ WF_vars(WaitforLock) /\ WF_vars(WaitforUnlock)
    /\ \A k \in Ticket : WF_vars(Put(k))

-----------------------------------------------------------------------------
\* When waitfor has come through, every ticket of the round has been put: the
\* owner may use what the threads that put them have produced.
WaitedForAll == owner \in {"passed", "idle", "destroyed"} => Held = {}

\* The assertion of ticket_put, on which its mutex_unlock rests: whoever finds
\* the count at zero finds the mutex locked.  It fails: see MCNwaiter.  What
\* holds of it is in NwaiterMeeting.
MutexIsLocked == \A k \in Ticket : pc[k] = "unlocking" => mtx = "locked"

\* waitfor returns.
WaitReturns == owner = "waiting" ~> owner = "idle"
=============================================================================
