--------------------------- MODULE ParallelProofs ---------------------------
(***************************************************************************)
(* The components of MCParallel, for every value of its constants:         *)
(*  - streampar_foreach for any number of threads and of elements: the     *)
(*    counter nwork is not accessed after its frame is gone, and no        *)
(*    element is given to two threads;                                     *)
(*  - the workshop for any workers and works: no work is called twice, and *)
(*    the list of workers has every worker that lives;                     *)
(*  - DivideConquer$solve over a list and over a channel of any capacity,  *)
(*    for any threads and any tree of problems: no cell is read before it  *)
(*    is written, no counter is used after its destruction, and what the   *)
(*    call does is what DivideConquer promises.                            *)
(* The last part puts them together: these hold of every behaviour of the  *)
(* specification that MCParallel checks.                                   *)
(***************************************************************************)
EXTENDS MCParallel, FiniteSetTheorems, SequenceTheorems, TLAPS

-----------------------------------------------------------------------------

(***************************************************************************)
(* The nwaiter of one ticket that both calls wait on: from its creation    *)
(* the mutex is free only when the ticket has been put.                    *)
(***************************************************************************)
NW == INSTANCE Nwaiter
        WITH Ticket <- {"NWT"}, Rounds <- 1, Overlapping <- TRUE, pc <- ticket

Given == ticket["NWT"]

OneTicket ==
    /\ n \in Nat /\ mtx \in {"free", "locked"} /\ round \in 0..1
    /\ owner \in NW!Owner
    /\ ticket \in [{"NWT"} -> NW!PC]
    /\ Given = "none" =>
          /\ mtx = "free" /\ round = 0 /\ owner \in {"idle", "locking"}
          /\ owner = "locking" => n = 1
    /\ Given # "none" =>
          /\ round = 1 /\ owner # "locking"
          /\ Given = "held" => n = 1
          /\ mtx = "free" => Given = "spent"
          /\ owner \in {"idle", "passed", "destroyed"} => Given = "spent"

\* The caller creates the nwaiter and waits; it destroys it after its round.
LEMMA OwnerTicketStep ==
    ASSUME OneTicket,
           \/ NW!Initiate \/ NW!Waitfor \/ NW!WaitforLock \/ NW!WaitforUnlock
           \/ NW!Destroy /\ round = 1
    PROVE  OneTicket' /\ Given' = Given
<1>1. ticket' = ticket
    BY DEF NW!Initiate, NW!Waitfor, NW!WaitforLock, NW!WaitforUnlock, NW!Destroy
<1>2. Given' = Given
    BY <1>1 DEF Given
<1>3. CASE NW!Initiate
    BY <1>1, <1>2, <1>3 DEF NW!Initiate, OneTicket, NW!Owner
<1>4. CASE NW!Waitfor
    BY <1>1, <1>2, <1>4 DEF NW!Waitfor, OneTicket, NW!Owner
<1>5. CASE NW!WaitforLock
    BY <1>1, <1>2, <1>5 DEF NW!WaitforLock, OneTicket, NW!Owner
<1>6. CASE NW!WaitforUnlock
    BY <1>1, <1>2, <1>6 DEF NW!WaitforUnlock, OneTicket, NW!Owner
<1>7. ASSUME NW!Destroy, round = 1 PROVE OneTicket'
    BY <1>1, <1>2, <1>7 DEF NW!Destroy, OneTicket, NW!Owner
<1> QED BY <1>2, <1>3, <1>4, <1>5, <1>6, <1>7

\* The ticket is given out once.
LEMMA InitiateLockTicketStep ==
    ASSUME OneTicket, NW!InitiateLock("NWT")
    PROVE  OneTicket' /\ Given = "none" /\ Given' = "held"
<1>1. ticket' \in [{"NWT"} -> NW!PC] /\ Given' = "held"
    BY DEF NW!InitiateLock, NW!Fresh, OneTicket, NW!PC, Given
<1>2. Given = "none"
    BY DEF NW!InitiateLock, OneTicket, Given
<1> QED BY <1>1, <1>2 DEF NW!InitiateLock, OneTicket, NW!Owner

\* What ticket_put does with the one ticket: it is decremented, found to be
\* the last, and unlocks the mutex.
LEMMA PutTicketStep ==
    ASSUME OneTicket, NW!Put("NWT")
    PROVE  /\ OneTicket'
           /\ Given \in {"held", "counted", "unlocking"}
           /\ Given' \in {"counted", "unlocking", "spent"}
<1>1. ticket' \in [{"NWT"} -> NW!PC]
    BY DEF NW!Put, NW!Decrement, NW!Reread, NW!Unlock, OneTicket, NW!PC
<1>2. CASE NW!Decrement("NWT")
  <2>1. Given = "held" /\ Given' = "counted"
    BY <1>2 DEF NW!Decrement, OneTicket, Given
  <2> QED BY <1>1, <1>2, <2>1 DEF NW!Decrement, OneTicket
<1>3. CASE NW!Reread("NWT")
  <2>1. Given = "counted" /\ Given' \in {"unlocking", "spent"}
    BY <1>3 DEF NW!Reread, OneTicket, Given
  <2>2. owner # "destroyed"
    BY <2>1 DEF OneTicket
  <2> QED BY <1>1, <1>3, <2>1, <2>2 DEF NW!Reread, OneTicket
<1>4. CASE NW!Unlock("NWT")
  <2>1. Given = "unlocking" /\ Given' = "spent"
    BY <1>4 DEF NW!Unlock, OneTicket, Given
  <2> QED BY <1>1, <1>4, <2>1 DEF NW!Unlock, OneTicket
<1> QED BY <1>2, <1>3, <1>4 DEF NW!Put

-----------------------------------------------------------------------------
(***************************************************************************)
(* streampar_foreach.                                                      *)
(***************************************************************************)
\* t holds the rest of the stream.
Handing(t) == at[t] \in {"fwork2", "insert"}

\* The elements given to some thread.
Taken == done \cup {elt[t] : t \in SP!Counting}

\* The rest of the stream begins with element c.
Position(c) ==
    \/ main # "wait" /\ c = 1
    \/ store # <<>> /\ c = store[1]
    \/ \E t \in Streamer : at[t] = "fwork2" /\ c = elt[t]
    \/ \E t \in Streamer : at[t] = "insert" /\ c = elt[t] + 1

\* Nobody will look at nwork any more.
Finished == main = "wait" /\ ~SP!Chain /\ SP!Counting = {}

\* The variables are of their types, the counter an integer.
StreamTypes ==
    /\ store \in Seq(1..Size + 1) /\ nwork \in Int
    /\ at \in [Streamer -> SP!At] /\ elt \in [Streamer -> 0..Size + 1]
    /\ done \subseteq 1..Size /\ main \in {"create", "insert", "wait"}
    /\ Size \in Nat /\ IsFiniteSet(Streamer)

\* The rest of the stream is in one hand, once it is in the store.
StreamOnce ==
    /\ main # "wait" => store = <<>> /\ \A t \in Streamer : at[t] = "idle"
    /\ Len(store) <= 1
    /\ store # <<>> => \A t \in Streamer : ~Handing(t)
    /\ \A t, u \in Streamer : Handing(t) /\ Handing(u) => t = u

\* Threads have elements of the stream, no two the same.
Elements ==
    /\ \A t \in Streamer : at[t] = "fwork2" => elt[t] \in 1..Size + 1
    /\ \A t \in SP!Counting : elt[t] \in 1..Size
    /\ \A t, u \in SP!Counting : elt[t] = elt[u] => t = u
    /\ \A t \in Streamer : at[t] = "sub" => elt[t] \in done

\* The elements before the rest are those given to some thread.
AllTaken ==
    /\ \A c \in 1..Size + 1 : Position(c) => Taken = 1..c - 1
    /\ main = "wait" /\ ~SP!Chain => Taken = 1..Size

\* nwork counts the rest of the stream and the elements being processed.
NworkCounts ==
    nwork = (IF main # "wait" \/ SP!Chain THEN 1 ELSE 0) + Cardinality(SP!Counting)

\* The ticket is put, by one thread, when all is done.
PutLast ==
    /\ \A t \in Streamer : at[t] = "put" => Finished
    /\ \A t, u \in Streamer : at[t] = "put" /\ at[u] = "put" => t = u
    /\ Given \in {"counted", "unlocking", "spent"} => Finished
    /\ main = "create" <=> Given = "none"

\* FrameOutlived is seen from nwork alone, so the invariant says what nwork
\* counts, and which elements that leaves.
StreamInv ==
    StreamTypes /\ OneTicket /\ StreamOnce /\ Elements /\ AllTaken /\ NworkCounts /\ PutLast

\* A sequence with one element at most.
LEMMA OneElement ==
    ASSUME NEW S, NEW q \in Seq(S), Len(q) <= 1, q # <<>>
    PROVE  q = <<q[1]>> /\ q[1] \in S /\ Head(q) = q[1] /\ Tail(q) = <<>> /\ Len(q) = 1
<1>1. Len(q) = 1
  <2>1. Len(q) \in Nat \ {0}
    BY EmptySeq
  <2> QED BY <2>1
<1>2. q[1] \in S
    BY <1>1, ElementOfSeq
<1>3. Len(Tail(q)) = 0 /\ Tail(q) \in Seq(S)
    BY <1>1, HeadTailProperties
<1>4. Tail(q) = <<>>
    BY <1>3, EmptySeq
<1>5. q = <<q[1]>>
    BY <1>1
<1> QED BY <1>1, <1>2, <1>4, <1>5

\* The tasks in the store, and who has the rest of the stream, in the terms
\* the proofs need.
LEMMA StoreOne ==
    ASSUME StreamInv
    PROVE  /\ store # <<>> => /\ store = <<store[1]>> /\ store[1] \in 1..Size + 1
                              /\ Head(store) = store[1] /\ Tail(store) = <<>> /\ Len(store) = 1
           /\ \A c : <<c>> # <<>> /\ <<c>>[1] = c /\ Len(<<c>>) = 1
           /\ \A c : <<c>> \o <<>> = <<c>>
<1>1. store \in Seq(1..Size + 1) /\ Len(store) <= 1
    BY DEF StreamInv, StreamTypes, StreamOnce
<1>2. store # <<>> => /\ store = <<store[1]>> /\ store[1] \in 1..Size + 1
                      /\ Head(store) = store[1] /\ Tail(store) = <<>> /\ Len(store) = 1
    BY <1>1, OneElement
<1> QED BY <1>2

\* Counting a thread more, or one less.
LEMMA CountingIs ==
    ASSUME StreamInv
    PROVE  /\ IsFiniteSet(SP!Counting) /\ Cardinality(SP!Counting) \in Nat
           /\ \A t \in Streamer : t \notin SP!Counting =>
                 Cardinality(SP!Counting \cup {t}) = Cardinality(SP!Counting) + 1
           /\ \A t \in SP!Counting :
                 Cardinality(SP!Counting \ {t}) = Cardinality(SP!Counting) - 1
           /\ Cardinality(SP!Counting) = 0 <=> SP!Counting = {}
<1>1. IsFiniteSet(SP!Counting)
    BY FS_Subset DEF StreamInv, StreamTypes, SP!Counting
<1> QED BY <1>1, FS_CardinalityType, FS_AddElement, FS_RemoveElement, FS_EmptySet

\* The caller: nothing but the nwaiter and main changes, or the rest of the
\* stream goes into the store.
LEMMA StreamCallerStep ==
    ASSUME StreamInv, SP!Caller
    PROVE  StreamInv'
<1>1. CASE SP!Create
  <2>1. UNCHANGED <<store, nwork, at, elt, done>> /\ main = "create"
    BY <1>1 DEF SP!Create
  <2>2. /\ SP!Counting' = SP!Counting /\ SP!Chain' = SP!Chain /\ Taken' = Taken
        /\ \A t : Handing(t)' = Handing(t)
    BY <2>1 DEF SP!Counting, SP!Chain, Taken, Handing
  <2>3. CASE main' = "create" /\ SP!NW!Initiate
    <3>1. OneTicket' /\ Given' = Given
        BY <2>3, OwnerTicketStep DEF StreamInv, SP!NW!Initiate, NW!Initiate
    <3>2. Finished' = Finished /\ \A c : Position(c)' = Position(c)
        BY <2>1, <2>2, <2>3 DEF Finished, Position
    <3> QED BY <2>1, <2>2, <2>3, <3>1, <3>2 DEF StreamInv, StreamTypes, StreamOnce,
               Elements, AllTaken, NworkCounts, PutLast
  <2>4. CASE main' = "insert" /\ SP!NW!InitiateLock("NWT")
    <3>1. OneTicket' /\ Given' = "held"
        BY <2>4, InitiateLockTicketStep DEF StreamInv, SP!NW!InitiateLock,
           NW!InitiateLock, SP!NW!Fresh, NW!Fresh, SP!Ticket
    <3>2. Finished' = Finished /\ \A c : Position(c)' = Position(c)
        BY <2>1, <2>2, <2>4 DEF Finished, Position
    <3> QED BY <2>1, <2>2, <2>4, <3>1, <3>2 DEF StreamInv, StreamTypes, StreamOnce,
               Elements, AllTaken, NworkCounts, PutLast
  <2> QED BY <1>1, <2>1, <2>3, <2>4 DEF SP!Create, SP!Ticket
<1>2. CASE SP!Insert
  <2>1. /\ store' = <<1>> /\ main = "insert" /\ main' = "wait" /\ store = <<>>
        /\ UNCHANGED <<nwork, at, elt, done, SP!waiter>>
    BY <1>2, StoreOne DEF SP!Insert, StreamInv, StreamOnce
  <2>2. UNCHANGED <<n, mtx, owner, ticket, round>> /\ Given' = Given /\ OneTicket'
    BY <2>1 DEF SP!waiter, Given, OneTicket, StreamInv
  <2>3. /\ SP!Counting' = SP!Counting /\ SP!Counting = {} /\ SP!Chain' /\ Taken' = Taken
        /\ \A t \in Streamer : ~Handing(t)'
    BY <2>1, StoreOne DEF SP!Counting, SP!Chain, Taken, Handing, StreamInv, StreamOnce
  <2>4. \A c : Position(c)' <=> c = 1
    BY <2>1, <2>3, StoreOne DEF Position, Handing
  <2>5. Position(1) /\ Taken = 1..0
    <3>1. Position(1)
        BY <2>1 DEF Position
    <3> QED BY <3>1 DEF StreamInv, AllTaken, StreamTypes
  <2>6. Given = "held" /\ \A t \in Streamer : at[t] # "put"
    BY <2>1 DEF StreamInv, PutLast, Finished, OneTicket, NW!PC, StreamOnce, Given
  <2>7. StreamTypes' /\ StreamOnce'
    BY <2>1, <2>3, StoreOne DEF StreamInv, StreamTypes, StreamOnce
  <2> QED BY <2>1, <2>2, <2>3, <2>4, <2>5, <2>6, <2>7 DEF StreamInv,
             Elements, AllTaken, NworkCounts, PutLast, StreamTypes
<1>3. CASE SP!Wait
  <2>1. UNCHANGED <<store, nwork, at, elt, done, main>> /\ main = "wait"
    BY <1>3 DEF SP!Wait
  <2>2. /\ SP!Counting' = SP!Counting /\ SP!Chain' = SP!Chain /\ Taken' = Taken
        /\ Finished' = Finished
        /\ \A t : Handing(t)' = Handing(t) /\ \A c : Position(c)' = Position(c)
    BY <2>1 DEF SP!Counting, SP!Chain, Taken, Handing, Finished, Position
  <2>3. round = 1
    BY <2>1 DEF StreamInv, PutLast, OneTicket
  <2>4. OneTicket' /\ Given' = Given
    BY <1>3, <2>3, OwnerTicketStep DEF StreamInv, SP!Wait, SP!NW!Waitfor, NW!Waitfor,
       SP!NW!WaitforLock, NW!WaitforLock, SP!NW!WaitforUnlock, NW!WaitforUnlock,
       SP!NW!Destroy, NW!Destroy
  <2> QED BY <2>1, <2>2, <2>4 DEF StreamInv, StreamTypes, StreamOnce,
             Elements, AllTaken, NworkCounts, PutLast
<1> QED BY <1>1, <1>2, <1>3 DEF SP!Caller

\* A step of a worker that leaves the nwaiter alone.
LEMMA StreamWaiterKept ==
    ASSUME OneTicket, UNCHANGED SP!waiter
    PROVE  OneTicket' /\ Given' = Given
<1>1. UNCHANGED <<n, mtx, owner, ticket, round>>
    BY DEF SP!waiter
<1> QED BY <1>1 DEF OneTicket, Given

\* A task is taken out: it is the only one, and nobody else has the rest.
LEMMA StreamTakeoutStep ==
    ASSUME StreamInv, NEW t \in Streamer, SP!Takeout(t)
    PROVE  StreamInv'
<1>1. /\ store # <<>> /\ store = <<store[1]>> /\ store[1] \in 1..Size + 1
      /\ Head(store) = store[1] /\ Tail(store) = <<>> /\ main = "wait"
      /\ \A u \in Streamer : ~Handing(u)
      /\ at[t] = "idle"
    BY StoreOne DEF SP!Takeout, StreamInv, StreamOnce
<1>2. /\ store' = <<>> /\ elt' = [elt EXCEPT ![t] = store[1]]
      /\ at' = [at EXCEPT ![t] = "fwork2"]
      /\ UNCHANGED <<nwork, done, main>> /\ UNCHANGED SP!waiter
    BY <1>1 DEF SP!Takeout
<1>3. StreamTypes'
    BY <1>1, <1>2 DEF StreamInv, StreamTypes, SP!At
<1>4. SP!Counting' = SP!Counting /\ t \notin SP!Counting
    BY <1>1, <1>2 DEF SP!Counting, StreamInv, StreamTypes
<1>5. Taken' = Taken /\ \A u \in SP!Counting : elt'[u] = elt[u]
    BY <1>2, <1>4 DEF Taken, SP!Counting, StreamInv, StreamTypes
<1>6. SP!Chain /\ SP!Chain'
    BY <1>1, <1>2 DEF SP!Chain, StreamInv, StreamTypes
<1>7. \A c : Position(c)' => Position(c)
    BY <1>1, <1>2 DEF Position, Handing, StreamInv, StreamTypes
<1>8. StreamOnce'
    BY <1>1, <1>2 DEF StreamOnce, Handing, StreamInv, StreamTypes
<1>9. Elements'
    BY <1>1, <1>2, <1>4, <1>5 DEF Elements, StreamInv, StreamTypes
<1>10. AllTaken' /\ NworkCounts'
    BY <1>2, <1>4, <1>5, <1>6, <1>7 DEF AllTaken, NworkCounts, StreamInv, StreamTypes
<1>11. OneTicket' /\ Given' = Given
    BY <1>2, StreamWaiterKept DEF StreamInv
<1>12. PutLast'
    BY <1>2, <1>6, <1>11 DEF PutLast, Finished, StreamInv, StreamTypes
<1> QED BY <1>3, <1>8, <1>9, <1>10, <1>11, <1>12 DEF StreamInv

\* The end of the stream: the rest of it is gone, and if nothing is being
\* processed any more the ticket is put.
LEMMA StreamNilStep ==
    ASSUME StreamInv, NEW t \in Streamer, SP!StreamNil(t)
    PROVE  StreamInv'
<1>1. /\ at[t] = "fwork2" /\ elt[t] = Size + 1 /\ store = <<>> /\ main = "wait"
      /\ \A u \in Streamer : Handing(u) => u = t
      /\ t \notin SP!Counting
    BY DEF SP!StreamNil, StreamInv, StreamOnce, Handing, Elements, StreamTypes, SP!Counting
<1>2. /\ nwork' = nwork - 1
      /\ at' = [at EXCEPT ![t] = IF nwork' <= 0 THEN "put" ELSE "idle"]
      /\ UNCHANGED <<store, elt, done, main>> /\ UNCHANGED SP!waiter
    BY DEF SP!StreamNil, SP!Goes
<1>3. StreamTypes'
    BY <1>1, <1>2 DEF StreamInv, StreamTypes, SP!At
<1>4. SP!Counting' = SP!Counting
    BY <1>1, <1>2 DEF SP!Counting, StreamInv, StreamTypes
<1>5. Taken' = Taken
    BY <1>2, <1>4 DEF Taken
<1>6. SP!Chain /\ ~SP!Chain'
    BY <1>1, <1>2 DEF SP!Chain, StreamInv, StreamTypes, Handing
<1>7. Taken = 1..Size
  <2>1. Position(Size + 1)
    BY <1>1 DEF Position
  <2> QED BY <2>1, <1>3 DEF AllTaken, StreamInv, StreamTypes
<1>8. \A c : ~Position(c)'
    BY <1>1, <1>2 DEF Position, Handing, StreamInv, StreamTypes
<1>9. StreamOnce'
    BY <1>1, <1>2 DEF StreamOnce, Handing, StreamInv, StreamTypes
<1>10. Elements'
    BY <1>1, <1>2, <1>4 DEF Elements, StreamInv, StreamTypes
<1>11. AllTaken'
    BY <1>5, <1>7, <1>8, <1>2 DEF AllTaken
<1>12. nwork = 1 + Cardinality(SP!Counting) /\ nwork' = Cardinality(SP!Counting)
    BY <1>1, <1>2, <1>6, CountingIs DEF NworkCounts, StreamInv
<1>13. NworkCounts'
    BY <1>1, <1>2, <1>4, <1>6, <1>12, CountingIs DEF NworkCounts
<1>14. OneTicket' /\ Given' = Given
    BY <1>2, StreamWaiterKept DEF StreamInv
<1>15. at'[t] = "put" => Finished'
    BY <1>1, <1>2, <1>4, <1>6, <1>12, CountingIs DEF Finished, StreamInv, StreamTypes
<1>16. \A u \in Streamer : at[u] # "put"
    BY <1>6 DEF PutLast, Finished, StreamInv
<1>17. \A u \in Streamer : at'[u] = "put" => u = t
    BY <1>2, <1>16 DEF StreamInv, StreamTypes
<1>18. Given \notin {"counted", "unlocking", "spent"}
    BY <1>6 DEF PutLast, Finished, StreamInv
<1>19. PutLast'
    BY <1>1, <1>2, <1>14, <1>15, <1>17, <1>18 DEF PutLast, StreamInv
<1> QED BY <1>3, <1>9, <1>10, <1>11, <1>13, <1>14, <1>19 DEF StreamInv

\* The next element is taken from the stream and counted.
LEMMA StreamConsStep ==
    ASSUME StreamInv, NEW t \in Streamer, SP!StreamCons(t)
    PROVE  StreamInv'
<1>1. /\ at[t] = "fwork2" /\ elt[t] \in 1..Size /\ store = <<>> /\ main = "wait"
      /\ \A u \in Streamer : Handing(u) => u = t
      /\ t \notin SP!Counting
    BY DEF SP!StreamCons, StreamInv, StreamOnce, Handing, Elements, StreamTypes, SP!Counting
<1>2. /\ nwork' = nwork + 1
      /\ at' = [at EXCEPT ![t] = "insert"]
      /\ UNCHANGED <<store, elt, done, main>> /\ UNCHANGED SP!waiter
    BY DEF SP!StreamCons
<1>3. StreamTypes'
    BY <1>1, <1>2 DEF StreamInv, StreamTypes, SP!At
<1>4. SP!Counting' = SP!Counting \cup {t}
    BY <1>1, <1>2 DEF SP!Counting, StreamInv, StreamTypes
<1>5. Taken' = Taken \cup {elt[t]}
    BY <1>2, <1>4 DEF Taken
<1>6. SP!Chain /\ SP!Chain'
    BY <1>1, <1>2 DEF SP!Chain, StreamInv, StreamTypes, Handing
<1>7. Taken = 1..elt[t] - 1
  <2>1. Position(elt[t])
    BY <1>1 DEF Position
  <2> QED BY <2>1, <1>1 DEF AllTaken, StreamInv, StreamTypes
<1>8. \A c : Position(c)' => c = elt[t] + 1
    BY <1>1, <1>2 DEF Position, Handing, StreamInv, StreamTypes
<1>9. StreamOnce'
    BY <1>1, <1>2 DEF StreamOnce, Handing, StreamInv, StreamTypes
<1>10. Elements'
  <2>1. \A u \in SP!Counting : elt[u] # elt[t]
    BY <1>1, <1>7 DEF Taken, StreamInv, StreamTypes
  <2> QED BY <1>1, <1>2, <1>4, <2>1 DEF Elements, StreamInv, StreamTypes
<1>11. AllTaken'
  <2>1. Taken' = 1..(elt[t] + 1) - 1
    BY <1>1, <1>5, <1>7 DEF StreamInv, StreamTypes
  <2> QED BY <1>2, <1>6, <1>8, <2>1 DEF AllTaken
<1>12. NworkCounts'
    BY <1>1, <1>2, <1>4, <1>6, CountingIs DEF NworkCounts, StreamInv
<1>14. OneTicket' /\ Given' = Given
    BY <1>2, StreamWaiterKept DEF StreamInv
<1>15. PutLast'
  <2>1. \A u \in Streamer : at[u] # "put"
    BY <1>6 DEF PutLast, Finished, StreamInv
  <2>2. \A u \in Streamer : at'[u] # "put"
    BY <1>2, <2>1 DEF StreamInv, StreamTypes
  <2>3. Given \notin {"counted", "unlocking", "spent"}
    BY <1>6 DEF PutLast, Finished, StreamInv
  <2> QED BY <1>2, <1>14, <2>2, <2>3 DEF PutLast, StreamInv
<1> QED BY <1>3, <1>9, <1>10, <1>11, <1>12, <1>14, <1>15 DEF StreamInv

\* The rest of the stream goes from the thread to the store.
LEMMA StreamSubmitStep ==
    ASSUME StreamInv, NEW t \in Streamer, SP!Submit(t)
    PROVE  StreamInv'
<1>1. /\ at[t] = "insert" /\ elt[t] \in 1..Size /\ store = <<>> /\ main = "wait"
      /\ \A u \in Streamer : Handing(u) => u = t
      /\ t \in SP!Counting
    BY DEF SP!Submit, StreamInv, StreamOnce, Handing, Elements, StreamTypes, SP!Counting
<1>2. /\ store' = <<elt[t] + 1>>
      /\ at' = [at EXCEPT ![t] = "fwork"]
      /\ UNCHANGED <<nwork, elt, done, main>> /\ UNCHANGED SP!waiter
    BY <1>1, StoreOne DEF SP!Submit
<1>3. StreamTypes'
    BY <1>1, <1>2 DEF StreamInv, StreamTypes, SP!At
<1>4. SP!Counting' = SP!Counting
    BY <1>1, <1>2 DEF SP!Counting, StreamInv, StreamTypes
<1>5. Taken' = Taken
    BY <1>2, <1>4 DEF Taken
<1>6. SP!Chain /\ SP!Chain'
    BY <1>1, <1>2, StoreOne DEF SP!Chain, StreamInv, StreamTypes, Handing
<1>7. \A u \in Streamer : ~Handing(u)'
    BY <1>1, <1>2 DEF Handing, StreamInv, StreamTypes
<1>8. \A c : Position(c)' => Position(c)
    BY <1>1, <1>2, <1>7, StoreOne DEF Position, Handing, StreamInv, StreamTypes
<1>9. StreamOnce'
    BY <1>1, <1>2, <1>7, StoreOne DEF StreamOnce
<1>10. Elements'
    BY <1>1, <1>2, <1>4 DEF Elements, StreamInv, StreamTypes
<1>11. AllTaken' /\ NworkCounts'
    BY <1>2, <1>4, <1>5, <1>6, <1>8 DEF AllTaken, NworkCounts, StreamInv, StreamTypes
<1>12. OneTicket' /\ Given' = Given
    BY <1>2, StreamWaiterKept DEF StreamInv
<1>13. PutLast'
    BY <1>2, <1>6, <1>12 DEF PutLast, Finished, StreamInv, StreamTypes
<1> QED BY <1>3, <1>9, <1>10, <1>11, <1>12, <1>13 DEF StreamInv

\* An element is processed; it stays counted.
LEMMA StreamProcessStep ==
    ASSUME StreamInv, NEW t \in Streamer, SP!Process(t)
    PROVE  StreamInv'
<1>1. at[t] = "fwork" /\ elt[t] \in 1..Size /\ t \in SP!Counting /\ ~Handing(t)
    BY DEF SP!Process, StreamInv, Elements, SP!Counting, Handing
<1>2. /\ done' = done \cup {elt[t]}
      /\ at' = [at EXCEPT ![t] = "sub"]
      /\ UNCHANGED <<store, nwork, elt, main>> /\ UNCHANGED SP!waiter
    BY DEF SP!Process
<1>3. StreamTypes'
    BY <1>1, <1>2 DEF StreamInv, StreamTypes, SP!At
<1>4. SP!Counting' = SP!Counting
    BY <1>1, <1>2 DEF SP!Counting, StreamInv, StreamTypes
<1>5. Taken' = Taken
    BY <1>1, <1>2, <1>4 DEF Taken
<1>6. \A u \in Streamer : Handing(u)' = Handing(u)
    BY <1>1, <1>2 DEF Handing, StreamInv, StreamTypes
<1>7. SP!Chain' = SP!Chain
    BY <1>1, <1>2 DEF SP!Chain, StreamInv, StreamTypes
<1>8. \A c : Position(c)' => Position(c)
    BY <1>1, <1>2 DEF Position, StreamInv, StreamTypes
<1>9. StreamOnce'
    BY <1>1, <1>2, <1>6 DEF StreamOnce, StreamInv, StreamTypes
<1>10. Elements'
    BY <1>1, <1>2, <1>4 DEF Elements, StreamInv, StreamTypes
<1>11. AllTaken' /\ NworkCounts'
    BY <1>2, <1>4, <1>5, <1>7, <1>8 DEF AllTaken, NworkCounts, StreamInv, StreamTypes
<1>12. OneTicket' /\ Given' = Given
    BY <1>2, StreamWaiterKept DEF StreamInv
<1>13. PutLast'
    BY <1>2, <1>4, <1>7, <1>12 DEF PutLast, Finished, StreamInv, StreamTypes
<1> QED BY <1>3, <1>9, <1>10, <1>11, <1>12, <1>13 DEF StreamInv

\* An element is uncounted; who finds nothing left puts the ticket.
LEMMA StreamFinishStep ==
    ASSUME StreamInv, NEW t \in Streamer, SP!Finish(t)
    PROVE  StreamInv'
<1>1. /\ at[t] = "sub" /\ elt[t] \in done /\ t \in SP!Counting /\ ~Handing(t)
      /\ main = "wait"
    BY DEF SP!Finish, StreamInv, Elements, StreamOnce, SP!Counting, Handing, StreamTypes
<1>2. /\ nwork' = nwork - 1
      /\ at' = [at EXCEPT ![t] = IF nwork' <= 0 THEN "put" ELSE "idle"]
      /\ UNCHANGED <<store, elt, done, main>> /\ UNCHANGED SP!waiter
    BY DEF SP!Finish, SP!Goes
<1>3. StreamTypes'
    BY <1>1, <1>2 DEF StreamInv, StreamTypes, SP!At
<1>4. SP!Counting' = SP!Counting \ {t}
    BY <1>1, <1>2 DEF SP!Counting, StreamInv, StreamTypes
<1>5. Taken' = Taken
    BY <1>1, <1>2, <1>4 DEF Taken
<1>6. \A u \in Streamer : Handing(u)' = Handing(u)
    BY <1>1, <1>2 DEF Handing, StreamInv, StreamTypes
<1>7. SP!Chain' = SP!Chain
    BY <1>1, <1>2 DEF SP!Chain, StreamInv, StreamTypes
<1>8. \A c : Position(c)' => Position(c)
    BY <1>1, <1>2 DEF Position, StreamInv, StreamTypes
<1>9. StreamOnce'
    BY <1>1, <1>2, <1>6 DEF StreamOnce, StreamInv, StreamTypes
<1>10. Elements'
    BY <1>1, <1>2, <1>4 DEF Elements, StreamInv, StreamTypes
<1>11. AllTaken'
    BY <1>2, <1>5, <1>7, <1>8 DEF AllTaken, StreamInv, StreamTypes
<1>12. NworkCounts' /\ Cardinality(SP!Counting') \in Nat
  <2>1. /\ Cardinality(SP!Counting) \in Nat
        /\ Cardinality(SP!Counting') = Cardinality(SP!Counting) - 1
        /\ Cardinality(SP!Counting) # 0
    BY <1>1, <1>4, CountingIs
  <2>2. nwork = (IF SP!Chain THEN 1 ELSE 0) + Cardinality(SP!Counting)
    BY <1>1 DEF NworkCounts, StreamInv
  <2>3. nwork' = (IF SP!Chain' THEN 1 ELSE 0) + Cardinality(SP!Counting')
    BY <1>2, <1>7, <2>1, <2>2
  <2>4. Cardinality(SP!Counting') \in Nat
    BY <2>1
  <2> QED BY <1>1, <1>2, <2>3, <2>4 DEF NworkCounts
<1>13. OneTicket' /\ Given' = Given
    BY <1>2, StreamWaiterKept DEF StreamInv
<1>14. \A u \in Streamer : at[u] # "put"
    BY <1>1 DEF PutLast, Finished, StreamInv
<1>15. \A u \in Streamer : at'[u] = "put" => u = t
    BY <1>2, <1>14 DEF StreamInv, StreamTypes
<1>16. at'[t] = "put" => Finished'
  <2>1. IsFiniteSet(SP!Counting')
    BY <1>4, CountingIs, FS_Subset
  <2>2. Cardinality(SP!Counting') = 0 => SP!Counting' = {}
    BY <2>1, FS_EmptySet
  <2>3. at'[t] = "put" => nwork' <= 0
    BY <1>2 DEF StreamInv, StreamTypes
  <2>4. at'[t] = "put" => ~SP!Chain' /\ Cardinality(SP!Counting') = 0
    BY <2>3, <1>1, <1>2, <1>12 DEF NworkCounts
  <2> QED BY <2>2, <2>4, <1>1, <1>2 DEF Finished
<1>17. Given \notin {"counted", "unlocking", "spent"}
    BY <1>1 DEF PutLast, Finished, StreamInv
<1>18. PutLast'
    BY <1>1, <1>2, <1>13, <1>15, <1>16, <1>17 DEF PutLast, StreamInv
<1> QED BY <1>3, <1>9, <1>10, <1>11, <1>12, <1>13, <1>18 DEF StreamInv

\* The ticket is put when everything is finished.
LEMMA StreamPutStep ==
    ASSUME StreamInv, NEW t \in Streamer, SP!TicketPut(t)
    PROVE  StreamInv'
<1>1. /\ at[t] = "put" /\ Finished /\ SP!NW!Put("NWT")
      /\ at' = [at EXCEPT ![t] = IF Given' = "spent" THEN "idle" ELSE "put"]
      /\ UNCHANGED <<store, nwork, elt, done, main>>
    BY DEF SP!TicketPut, SP!Ticket, StreamInv, PutLast, Given
<1>2. NW!Put("NWT")
    BY <1>1 DEF SP!NW!Put, NW!Put, SP!NW!Decrement, NW!Decrement, SP!NW!Reread,
       NW!Reread, SP!NW!Unlock, NW!Unlock, SP!NW!Putting, NW!Putting, SP!Ticket
<1>3. /\ OneTicket' /\ Given' \in {"counted", "unlocking", "spent"}
    BY <1>2, PutTicketStep DEF StreamInv
<1>4. StreamTypes'
    BY <1>1 DEF StreamInv, StreamTypes, SP!At
<1>5. SP!Counting' = SP!Counting
    BY <1>1 DEF SP!Counting, StreamInv, StreamTypes
<1>6. Taken' = Taken
    BY <1>1, <1>5 DEF Taken
<1>7. \A u \in Streamer : Handing(u)' = Handing(u)
    BY <1>1 DEF Handing, StreamInv, StreamTypes
<1>8. SP!Chain' = SP!Chain
    BY <1>1 DEF SP!Chain, StreamInv, StreamTypes
<1>9. \A c : Position(c)' => Position(c)
    BY <1>1 DEF Position, StreamInv, StreamTypes
<1>10. StreamOnce'
    BY <1>1, <1>7 DEF StreamOnce, StreamInv, StreamTypes, Finished
<1>11. Elements'
    BY <1>1, <1>5 DEF Elements, StreamInv, StreamTypes
<1>12. AllTaken' /\ NworkCounts'
    BY <1>1, <1>5, <1>6, <1>8, <1>9 DEF AllTaken, NworkCounts, StreamInv, StreamTypes
<1>13. Finished'
    BY <1>1, <1>5, <1>8 DEF Finished
<1>14. \A u \in Streamer : at'[u] = "put" => u = t
    BY <1>1 DEF StreamInv, StreamTypes, PutLast
<1>15. PutLast'
    BY <1>1, <1>3, <1>13, <1>14 DEF PutLast, Finished
<1> QED BY <1>3, <1>4, <1>10, <1>11, <1>12, <1>15 DEF StreamInv

\* At the start nothing is counted but the rest of the stream.
LEMMA StreamInit == ASSUME SP!Init PROVE StreamInv
<1>1. Size \in Nat /\ IsFiniteSet(Streamer)
    BY StreamParAssumption DEF SP!StreamParAssumption, SP!IsFiniteSet, IsFiniteSet
<1>2. SP!Counting = {} /\ Taken = {} /\ \A t \in Streamer : ~Handing(t)
    BY DEF SP!Init, SP!Counting, Taken, Handing
<1>3. StreamTypes
    BY <1>1 DEF SP!Init, StreamTypes, SP!At
<1>4. Given = "none" /\ OneTicket
    BY DEF SP!Init, SP!NW!Init, SP!Ticket, OneTicket, NW!Owner, NW!PC, Given
<1>5. \A c : Position(c) <=> c = 1
    BY DEF SP!Init, Position
<1>6. StreamOnce /\ Elements
    BY <1>2 DEF SP!Init, StreamOnce, Elements
<1>7. AllTaken
    BY <1>1, <1>2, <1>5 DEF SP!Init, AllTaken
<1>8. NworkCounts
    BY <1>2, FS_EmptySet DEF SP!Init, NworkCounts
<1>9. PutLast
    BY <1>4 DEF SP!Init, PutLast
<1> QED BY <1>3, <1>4, <1>6, <1>7, <1>8, <1>9 DEF StreamInv

\* Every step of streampar_foreach keeps the invariant.
LEMMA StreamStep == ASSUME StreamInv, SP!Next PROVE StreamInv'
<1>1. ASSUME NEW t \in Streamer, SP!Work(t) PROVE StreamInv'
    BY <1>1, StreamTakeoutStep, StreamNilStep, StreamConsStep, StreamSubmitStep,
       StreamProcessStep, StreamFinishStep, StreamPutStep DEF SP!Work
<1> QED BY <1>1, StreamCallerStep DEF SP!Next

\* A step of nothing keeps it.
LEMMA StreamStutter ==
    ASSUME StreamInv, UNCHANGED <<common, streampar>> PROVE StreamInv'
<1>1. UNCHANGED <<store, nwork, at, elt, done, main>>
    BY DEF common, streampar
<1>2. OneTicket' /\ Given' = Given
    <2>1. UNCHANGED <<n, mtx, owner, ticket, round>>
        BY DEF common
    <2> QED BY <2>1 DEF OneTicket, Given, StreamInv
<1>3. /\ SP!Counting' = SP!Counting /\ SP!Chain' = SP!Chain /\ Taken' = Taken
      /\ \A t : Handing(t)' = Handing(t)
    BY <1>1 DEF SP!Counting, SP!Chain, Taken, Handing
<1>4. Finished' = Finished /\ \A c : Position(c)' = Position(c)
    BY <1>1, <1>3 DEF Finished, Position
<1> QED BY <1>1, <1>2, <1>3, <1>4 DEF StreamInv, StreamTypes, StreamOnce,
           Elements, AllTaken, NworkCounts, PutLast

\* What the invariant says of the caller's frame and of the rest of the stream.
LEMMA StreamSafe == ASSUME StreamInv PROVE SP!FrameOutlived /\ SP!OneHand
<1>1. SP!FrameOutlived
  <2>1. SUFFICES ASSUME main = "wait", owner \in {"passed", "idle", "destroyed"}
                 PROVE  done = SP!Element /\ SP!Counting = {} /\ ~SP!Chain
    BY DEF SP!FrameOutlived
  <2>2. Given = "spent"
    BY <2>1 DEF StreamInv, OneTicket, PutLast
  <2>3. SP!Counting = {} /\ ~SP!Chain
    BY <2>2 DEF StreamInv, PutLast, Finished
  <2>4. Taken = done
    BY <2>3 DEF Taken
  <2> QED BY <2>1, <2>3, <2>4 DEF StreamInv, AllTaken, SP!Element
<1>2. SP!OneHand
  <2> DEFINE Hands == {t \in Streamer : at[t] \in {"fwork2", "insert"}}
  <2>1. IsFiniteSet(Hands) /\ Cardinality(Hands) = SP!Cardinality(Hands)
    BY FS_Subset DEF StreamInv, StreamTypes, Cardinality, SP!Cardinality
  <2>2. \A t, u \in Hands : t = u
    BY DEF StreamInv, StreamOnce, Handing
  <2>3. store # <<>> => Hands = {}
    BY DEF StreamInv, StreamOnce, Handing
  <2>4. Len(store) = 0 \/ (Len(store) = 1 /\ store # <<>>)
    <3>1. CASE store = <<>>
        BY <3>1
    <3>2. CASE store # <<>>
        BY <3>2, StoreOne
    <3> QED BY <3>1, <3>2
  <2>5. Cardinality(Hands) = 0 \/ (Cardinality(Hands) = 1 /\ Hands # {})
    <3> HIDE DEF Hands
    <3>1. CASE Hands = {}
        BY <3>1, FS_EmptySet
    <3>2. ASSUME NEW t \in Hands PROVE Cardinality(Hands) = 1
        <4>1. Hands = {t}
            BY <2>2, <3>2
        <4> QED BY <4>1, FS_Singleton
    <3> QED BY <3>1, <3>2
  <2>6. Len(store) + Cardinality(Hands) <= 1
    <3> HIDE DEF Hands
    <3>1. Cardinality({}) = 0
        BY FS_EmptySet
    <3>2. CASE store = <<>>
        BY <3>2, <2>4, <2>5
    <3>3. CASE store # <<>>
        BY <3>1, <3>3, <2>3, <2>4
    <3> QED BY <3>2, <3>3
  <2>7. \A t, u \in SP!Counting : elt[t] = elt[u] => t = u
    BY DEF StreamInv, Elements
  <2> QED BY <2>1, <2>6, <2>7 DEF SP!OneHand
<1> QED BY <1>1, <1>2

\* streampar_foreach: the caller goes on when every element is processed and
\* no thread uses its frame, and no element is given to two threads.
THEOREM StreamHolds == SP!Spec => [](SP!FrameOutlived /\ SP!OneHand)
<1>1. SP!Init => StreamInv
    BY StreamInit
<1>2. StreamInv /\ [SP!Next]_SP!vars => StreamInv'
    BY StreamStep, StreamStutter DEF SP!vars, SP!waiter, common, streampar
<1>3. StreamInv => SP!FrameOutlived /\ SP!OneHand
    BY StreamSafe
<1> QED BY <1>1, <1>2, <1>3, PTL DEF SP!Spec

-----------------------------------------------------------------------------
(***************************************************************************)
(* The workshop.                                                           *)
(***************************************************************************)
Thr == Worker \cup {caller}

WorkshopTypes ==
    /\ workerlst \in Seq(Worker) /\ adding \in Worker \cup {None}
    /\ state \in [Worker -> WS!State] /\ late \in BOOLEAN
    /\ processed \in [Fwork -> Nat]
    /\ buf \in Seq(Fwork) /\ given \subseteq Fwork /\ mut \in Thr \cup {NoThread}
    /\ pc \in [Thr -> WS!Store!PC] /\ call \in [Thr -> WS!Store!Op]
    /\ val \in [Thr -> Fwork \cup {None}]

\* The caller inserts and workers take out.
Roles ==
    /\ call[caller] \in {"none", "insert"}
    /\ \A w \in Worker : call[w] \in {"none", "takeout"}
    /\ \A t \in Thr : pc[t] = "idle" <=> call[t] = "none"
    /\ \A w \in Worker : pc[w] # "idle" <=> state[w] = "takeout"

\* val[t] is a work that t is about to put into the store or to call.
Holding(t) ==
    IF t = caller THEN pc[t] \in {"enter", "locked"}
    ELSE state[t] = "process" \/ pc[t] = "leave"

\* Every work is in one place, or has been called.
Placed ==
    /\ \A i, j \in DOMAIN buf : buf[i] = buf[j] => i = j
    /\ \A i \in DOMAIN buf : buf[i] \in given /\ processed[buf[i]] = 0
    /\ \A t \in Thr : Holding(t) =>
          /\ val[t] \in given /\ processed[val[t]] = 0
          /\ \A i \in DOMAIN buf : buf[i] # val[t]
          /\ \A u \in Thr : Holding(u) /\ val[u] = val[t] => u = t
    /\ \A x \in Fwork : processed[x] \in {0, 1} /\ (processed[x] = 1 => x \in given)

\* Nobody takes out or ends before the first insertion.
Listing ==
    /\ WS!Living \ {adding} \subseteq WS!Listed
    /\ adding # None => state[adding] # "unborn" /\ pc[caller] = "idle"
    /\ IsFiniteSet(WS!Living)
    /\ given = {} => \A w \in Worker :
          state[w] \in {"unborn", "fworker", "takeout"} /\ pc[w] # "leave"
    /\ ~late => /\ Len(workerlst) = Cardinality(WS!Living \ {adding})
                /\ given # {} => adding = None

\* A work is called once because it is in one place; the list is right because
\* of what happens between creation and add_tid.
WorkshopInv == WorkshopTypes /\ Roles /\ Placed /\ Listing

\* Workers are neither the caller nor None.
LEMMA WorkshopNames ==
    /\ caller \notin Worker /\ None \notin Worker /\ None \notin Fwork
BY FworkshopAssumption DEF WS!FworkshopAssumption

\* Steps that move no work.
LEMMA PlacedKept ==
    ASSUME Placed, UNCHANGED <<buf, val, given, processed>>,
           \A t \in Thr : Holding(t)' => Holding(t)
    PROVE  Placed'
BY DEF Placed

\* Steps by which no worker comes or goes.
LEMMA ListingKept ==
    ASSUME Listing, UNCHANGED <<workerlst, adding, late, given>>,
           WS!Living' = WS!Living,
           adding # None => state'[adding] # "unborn" /\ pc'[caller] = "idle",
           given = {} => \A w \in Worker :
              state'[w] \in {"unborn", "fworker", "takeout"} /\ pc'[w] # "leave"
    PROVE  Listing'
<1>1. WS!Listed' = WS!Listed
    BY DEF WS!Listed
<1> QED BY <1>1 DEF Listing

\* A work put in front of the list.
LEMMA PushIs ==
    ASSUME NEW S, NEW q \in Seq(S), NEW y \in S, NEW r, r = <<y>> \o q
    PROVE  /\ r \in Seq(S) /\ r[1] = y
           /\ DOMAIN r \subseteq Nat /\ DOMAIN q \subseteq Nat
           /\ \A i \in DOMAIN r : i = 1 \/ (i # 1 /\ i - 1 \in DOMAIN q /\ r[i] = q[i - 1])
<1>1. <<y>> \in Seq(S) /\ Len(<<y>>) = 1 /\ <<y>>[1] = y
    OBVIOUS
<1>2. /\ r \in Seq(S) /\ Len(r) = 1 + Len(q)
      /\ \A i \in 1..1 + Len(q) : r[i] = IF i <= 1 THEN y ELSE q[i - 1]
    BY <1>1, ConcatProperties
<1>3. Len(q) \in Nat /\ DOMAIN q = 1..Len(q) /\ DOMAIN r = 1..Len(r)
    BY <1>2, LenProperties
<1> QED BY <1>2, <1>3

\* The thread that inserts: a call, which brings a new work.
LEMMA WorkshopCallInsert ==
    ASSUME WorkshopInv, NEW x \in Fwork, adding = None,
           WS!Store!CallInsert(caller, x),
           UNCHANGED <<workerlst, state, adding, processed, late>>
    PROVE  WorkshopInv'
<1> USE WorkshopNames DEF Thr
<1>1. /\ x \notin given /\ pc[caller] = "idle" /\ given' = given \cup {x}
      /\ pc' = [pc EXCEPT ![caller] = "enter"]
      /\ call' = [call EXCEPT ![caller] = "insert"]
      /\ val' = [val EXCEPT ![caller] = x]
      /\ UNCHANGED <<buf, mut>>
    BY DEF WS!Store!CallInsert, WS!Store!Calls, WS!Store!Goto
<1>2. WorkshopTypes'
    BY <1>1 DEF WorkshopInv, WorkshopTypes, WS!Store!PC, WS!Store!Op
<1>3. Roles'
    BY <1>1 DEF WorkshopInv, WorkshopTypes, Roles
<1>4. \A t \in Worker : Holding(t)' = Holding(t) /\ val'[t] = val[t]
    BY <1>1 DEF Holding, WorkshopInv, WorkshopTypes
<1>5. val'[caller] = x /\ processed[x] = 0 /\ \A i \in DOMAIN buf : buf[i] # x
    BY <1>1 DEF WorkshopInv, WorkshopTypes, Placed
<1>6. \A t \in Worker : Holding(t) => val[t] # x
    BY <1>1 DEF WorkshopInv, Placed
<1>7. Placed'
  <2>1. \A t \in Thr : Holding(t)' =>
          /\ val'[t] \in given' /\ processed'[val'[t]] = 0
          /\ \A i \in DOMAIN buf' : buf'[i] # val'[t]
    BY <1>1, <1>4, <1>5 DEF WorkshopInv, Placed
  <2>2. \A t, u \in Thr : Holding(t)' /\ Holding(u)' /\ val'[u] = val'[t] => u = t
    BY <1>1, <1>4, <1>5, <1>6 DEF WorkshopInv, Placed
  <2> QED BY <1>1, <2>1, <2>2 DEF WorkshopInv, Placed
<1>8. WS!Living' = WS!Living /\ WS!Listed' = WS!Listed
    BY <1>1 DEF WS!Living, WS!Listed
<1>9. Listing'
    BY <1>1, <1>8 DEF WorkshopInv, Listing
<1> QED BY <1>2, <1>3, <1>7, <1>9 DEF WorkshopInv

\* The thread that inserts, inside its call: the work goes into the list.
LEMMA WorkshopInsert ==
    ASSUME WorkshopInv, WS!Store!Insert(caller),
           UNCHANGED <<workerlst, state, adding, processed, late>>
    PROVE  WorkshopInv'
<1> USE WorkshopNames DEF Thr
<1>1. /\ pc[caller] = "locked" /\ buf' = <<val[caller]>> \o buf
      /\ pc' \in [Thr -> WS!Store!PC]
      /\ pc'[caller] = "leave"
      /\ \A w \in Worker : pc'[w] = pc[w] \/ (pc[w] = "CVisnil" /\ pc'[w] = "enter")
      /\ UNCHANGED <<mut, call, val, given>>
    BY DEF WS!Store!Insert, WorkshopInv, WorkshopTypes, WS!Store!PC
<1>2. Holding(caller)
    BY <1>1 DEF Holding
<1>3. /\ val[caller] \in given /\ processed[val[caller]] = 0 /\ val[caller] \in Fwork
      /\ \A i \in DOMAIN buf : buf[i] # val[caller]
      /\ \A u \in Worker : Holding(u) => val[u] # val[caller]
    BY <1>2 DEF WorkshopInv, WorkshopTypes, Placed
<1>4. /\ buf' \in Seq(Fwork)
      /\ \A i \in DOMAIN buf' : i = 1 \/ (i # 1 /\ i - 1 \in DOMAIN buf /\ buf'[i] = buf[i - 1])
      /\ buf'[1] = val[caller] /\ DOMAIN buf' \subseteq Nat /\ DOMAIN buf \subseteq Nat
    BY <1>1, <1>3, PushIs DEF WorkshopInv, WorkshopTypes
<1>5. WorkshopTypes'
    BY <1>1, <1>4 DEF WorkshopInv, WorkshopTypes
<1>6. Roles'
    BY <1>1 DEF WorkshopInv, Roles
<1>7. ~Holding(caller)' /\ \A w \in Worker : Holding(w)' => Holding(w)
    BY <1>1 DEF Holding
<1>8. Placed'
  <2>1. \A i, j \in DOMAIN buf' : buf'[i] = buf'[j] => i = j
    BY <1>3, <1>4 DEF WorkshopInv, Placed
  <2>2. \A i \in DOMAIN buf' : buf'[i] \in given' /\ processed'[buf'[i]] = 0
    BY <1>1, <1>3, <1>4 DEF WorkshopInv, Placed
  <2>3. \A t \in Worker : Holding(t)' => \A i \in DOMAIN buf' : buf'[i] # val'[t]
    BY <1>1, <1>3, <1>4, <1>7 DEF WorkshopInv, Placed
  <2> QED BY <1>1, <1>7, <2>1, <2>2, <2>3 DEF WorkshopInv, Placed
<1>9. WS!Living' = WS!Living
    BY DEF WS!Living
<1>10. adding = None
    BY <1>1 DEF WorkshopInv, Listing
<1>11. Listing'
    BY <1>1, <1>9, <1>10, ListingKept DEF WorkshopInv, Listing
<1> QED BY <1>5, <1>6, <1>8, <1>11 DEF WorkshopInv

\* Taking the lock, waiting, leaving and waking up, with what the worker does
\* in the same step: a work that has been taken out is then to be called.
LEMMA WorkshopCallStep ==
    ASSUME WorkshopInv, NEW t \in Thr,
           \/ WS!Store!Lock(t) \/ WS!Store!TakeoutWait(t) \/ WS!Store!Unlock(t)
           \/ t \in Worker /\ WS!Store!SpuriousWakeup(t),
           \/ t = caller /\ state' = state
           \/ t \in Worker /\ state' = [state EXCEPT ![t] =
                                 IF pc'[t] = "idle" THEN "process" ELSE "takeout"],
           UNCHANGED <<workerlst, adding, processed, late>>
    PROVE  WorkshopInv'
<1> USE WorkshopNames DEF Thr
<1>1. /\ UNCHANGED <<buf, val, given>> /\ mut' \in Thr \cup {NoThread}
      /\ pc[t] # "idle"
      /\ pc[t] = "leave" <=> pc'[t] = "idle"
      /\ pc' \in [Thr -> WS!Store!PC] /\ call' \in [Thr -> WS!Store!Op]
      /\ \A u \in Thr : u # t => pc'[u] = pc[u] /\ call'[u] = call[u]
      /\ call'[t] = IF pc'[t] = "idle" THEN "none" ELSE call[t]
      /\ pc'[t] # "leave"
      /\ t = caller /\ pc[t] \notin {"enter", "locked"}
            => pc'[t] \notin {"enter", "locked"}
  <2>1. CASE WS!Store!Lock(t)
    BY <2>1 DEF WS!Store!Lock, WS!Store!Goto, WorkshopInv, WorkshopTypes, WS!Store!PC
  <2>2. CASE WS!Store!TakeoutWait(t)
    BY <2>2 DEF WS!Store!TakeoutWait, WS!Store!Goto, WorkshopInv, WorkshopTypes,
       WS!Store!PC
  <2>3. CASE WS!Store!Unlock(t)
    BY <2>3 DEF WS!Store!Unlock, WS!Store!Goto, WorkshopInv, WorkshopTypes,
       WS!Store!PC, WS!Store!Op
  <2>4. CASE t \in Worker /\ WS!Store!SpuriousWakeup(t)
    BY <2>4 DEF WS!Store!SpuriousWakeup, WS!Store!Goto, WorkshopInv, WorkshopTypes,
       WS!Store!PC
  <2> QED BY <2>1, <2>2, <2>3, <2>4
<1>2. WorkshopTypes'
    BY <1>1 DEF WorkshopInv, WorkshopTypes, WS!State
<1>3. \A u \in Worker : u # t => state'[u] = state[u]
    BY DEF WorkshopInv, WorkshopTypes
<1>4. t \in Worker =>
        /\ state[t] = "takeout"
        /\ state'[t] = IF pc'[t] = "idle" THEN "process" ELSE "takeout"
    BY <1>1 DEF WorkshopInv, WorkshopTypes, Roles
<1>5. Roles'
  <2>1. call'[caller] \in {"none", "insert"}
    BY <1>1 DEF WorkshopInv, Roles
  <2>2. \A w \in Worker : call'[w] \in {"none", "takeout"}
    BY <1>1 DEF WorkshopInv, Roles
  <2>3. \A u \in Thr : pc'[u] = "idle" <=> call'[u] = "none"
    BY <1>1 DEF WorkshopInv, Roles
  <2>4. \A w \in Worker : pc'[w] # "idle" <=> state'[w] = "takeout"
    BY <1>1, <1>3, <1>4 DEF WorkshopInv, Roles
  <2> QED BY <2>1, <2>2, <2>3, <2>4 DEF Roles
<1>6. \A u \in Thr : Holding(u)' => Holding(u)
  <2>1. \A u \in Thr : u # t => (Holding(u)' => Holding(u))
    BY <1>1, <1>3 DEF Holding
  <2>2. t = caller => (Holding(t)' => Holding(t))
    BY <1>1 DEF Holding
  <2>3. t \in Worker => (Holding(t)' => Holding(t))
    BY <1>1, <1>4 DEF Holding
  <2> QED BY <2>1, <2>2, <2>3
<1>7. Placed'
    BY <1>1, <1>6, PlacedKept DEF WorkshopInv
<1>8. WS!Living' = WS!Living
  <2>1. \A w \in Worker : state'[w] \notin {"unborn", "gone"} <=> state[w] \notin {"unborn", "gone"}
    BY <1>3, <1>4 DEF WorkshopInv
  <2> QED BY <2>1 DEF WS!Living
<1>9. Listing'
  <2>1. adding # None => state'[adding] # "unborn" /\ pc'[caller] = "idle"
    <3>1. SUFFICES ASSUME adding # None PROVE state'[adding] # "unborn" /\ pc'[caller] = "idle"
        OBVIOUS
    <3>2. adding \in Worker /\ state[adding] # "unborn" /\ pc[caller] = "idle" /\ t # caller
        BY <3>1, <1>1 DEF WorkshopInv, WorkshopTypes, Listing
    <3> QED BY <3>2, <1>1, <1>3, <1>4
  <2>2. given = {} => \A w \in Worker :
              state'[w] \in {"unborn", "fworker", "takeout"} /\ pc'[w] # "leave"
    <3>1. given = {} => pc[t] # "leave" \/ t = caller
        BY DEF WorkshopInv, Listing
    <3> QED BY <3>1, <1>1, <1>3, <1>4 DEF WorkshopInv, Listing
  <2> QED BY <1>1, <1>8, <2>1, <2>2, ListingKept DEF WorkshopInv
<1> QED BY <1>2, <1>5, <1>7, <1>9 DEF WorkshopInv

\* A worker begins to take a work out.
LEMMA WorkshopCallTakeout ==
    ASSUME WorkshopInv, NEW w \in Worker, WS!TakeoutWork(w)
    PROVE  WorkshopInv'
<1> USE WorkshopNames DEF Thr
<1>1. /\ state[w] = "fworker" /\ pc[w] = "idle"
      /\ pc' = [pc EXCEPT ![w] = "enter"]
      /\ call' = [call EXCEPT ![w] = "takeout"]
      /\ val' = [val EXCEPT ![w] = None]
      /\ state' = [state EXCEPT ![w] = "takeout"]
      /\ UNCHANGED <<buf, mut, given, workerlst, adding, processed, late>>
    BY DEF WS!TakeoutWork, WS!Store!CallTakeout, WS!Store!Calls, WS!Store!Goto, WS!Goto
<1>2. WorkshopTypes'
    BY <1>1 DEF WorkshopInv, WorkshopTypes, WS!Store!PC, WS!Store!Op, WS!State
<1>3. Roles'
    BY <1>1 DEF WorkshopInv, WorkshopTypes, Roles
<1>4. /\ ~Holding(w)'
      /\ \A u \in Thr : Holding(u)' => Holding(u)
      /\ \A u \in Thr : u # w => val'[u] = val[u]
    BY <1>1 DEF Holding, WorkshopInv, WorkshopTypes
<1>5. Placed'
  <2>1. \A u \in Thr : Holding(u)' =>
          /\ val'[u] \in given' /\ processed'[val'[u]] = 0
          /\ \A i \in DOMAIN buf' : buf'[i] # val'[u]
    BY <1>1, <1>4 DEF WorkshopInv, Placed
  <2>2. \A u, v \in Thr : Holding(u)' /\ Holding(v)' /\ val'[v] = val'[u] => v = u
    BY <1>1, <1>4 DEF WorkshopInv, Placed
  <2> QED BY <1>1, <2>1, <2>2 DEF WorkshopInv, Placed
<1>6. WS!Living' = WS!Living
    BY <1>1 DEF WS!Living, WorkshopInv, WorkshopTypes
<1>7. Listing'
    BY <1>1, <1>6, ListingKept DEF WorkshopInv, WorkshopTypes, Listing
<1> QED BY <1>2, <1>3, <1>5, <1>7 DEF WorkshopInv

\* The list without its first work.
LEMMA PopIs ==
    ASSUME NEW S, NEW q \in Seq(S), q # <<>>
    PROVE  /\ Tail(q) \in Seq(S) /\ Head(q) \in S /\ Head(q) = q[1]
           /\ 1 \in DOMAIN q /\ DOMAIN q \subseteq Nat /\ DOMAIN Tail(q) \subseteq Nat
           /\ \A i \in DOMAIN Tail(q) : i + 1 # 1 /\ i + 1 \in DOMAIN q /\ Tail(q)[i] = q[i + 1]
<1>1. /\ Head(q) \in S /\ Tail(q) \in Seq(S) /\ Len(Tail(q)) = Len(q) - 1
      /\ \A i \in 1..Len(Tail(q)) : Tail(q)[i] = q[i + 1]
    BY HeadTailProperties
<1>2. Len(q) \in Nat \ {0} /\ DOMAIN q = 1..Len(q)
    BY EmptySeq, LenProperties
<1>3. DOMAIN Tail(q) = 1..Len(q) - 1
    BY <1>1, LenProperties
<1>4. Head(q) = q[1]
    OBVIOUS
<1> QED BY <1>1, <1>2, <1>3, <1>4

\* A worker takes the first work out of the list.
LEMMA WorkshopTakeout ==
    ASSUME WorkshopInv, NEW w \in Worker, WS!Store!Takeout(w),
           state' = [state EXCEPT ![w] = "takeout"],
           UNCHANGED <<workerlst, adding, processed, late>>
    PROVE  WorkshopInv'
<1> USE WorkshopNames DEF Thr
<1>1. /\ pc[w] = "locked" /\ buf # <<>> /\ buf' = Tail(buf)
      /\ pc' = [pc EXCEPT ![w] = "leave"]
      /\ val' = [val EXCEPT ![w] = Head(buf)]
      /\ UNCHANGED <<mut, call, given>>
    BY DEF WS!Store!Takeout, WS!Store!Goto
<1>2. /\ buf' \in Seq(Fwork) /\ Head(buf) \in Fwork /\ Head(buf) = buf[1]
      /\ 1 \in DOMAIN buf /\ DOMAIN buf \subseteq Nat /\ DOMAIN buf' \subseteq Nat
      /\ \A i \in DOMAIN buf' : i + 1 # 1 /\ i + 1 \in DOMAIN buf /\ buf'[i] = buf[i + 1]
  <2>1. buf \in Seq(Fwork)
    BY DEF WorkshopInv, WorkshopTypes
  <2> QED BY <1>1, <2>1, PopIs
<1>3. state[w] = "takeout" /\ state' = state
    BY <1>1 DEF WorkshopInv, WorkshopTypes, Roles
<1>4. WorkshopTypes'
    BY <1>1, <1>2, <1>3 DEF WorkshopInv, WorkshopTypes, WS!Store!PC
<1>5. Roles'
    BY <1>1, <1>3 DEF WorkshopInv, WorkshopTypes, Roles
<1>6. /\ \A u \in Thr : u # w => Holding(u)' = Holding(u) /\ val'[u] = val[u]
      /\ val'[w] = buf[1]
    BY <1>1, <1>2, <1>3 DEF Holding, WorkshopInv, WorkshopTypes
<1>7. /\ buf[1] \in given /\ processed[buf[1]] = 0
      /\ \A i \in DOMAIN buf' : buf'[i] # buf[1]
      /\ \A u \in Thr : Holding(u) => val[u] # buf[1]
    BY <1>2 DEF WorkshopInv, Placed
<1>8. Placed'
  <2>1. \A i, j \in DOMAIN buf' : buf'[i] = buf'[j] => i = j
    <3>1. \A i, j \in DOMAIN buf' : buf'[i] = buf'[j] => i + 1 = j + 1
        BY <1>2 DEF WorkshopInv, Placed
    <3> QED BY <3>1, <1>2
  <2>2. \A i \in DOMAIN buf' : buf'[i] \in given' /\ processed'[buf'[i]] = 0
    BY <1>1, <1>2 DEF WorkshopInv, Placed
  <2>3. \A u \in Thr : Holding(u)' =>
          /\ val'[u] \in given' /\ processed'[val'[u]] = 0
          /\ \A i \in DOMAIN buf' : buf'[i] # val'[u]
    BY <1>1, <1>2, <1>6, <1>7 DEF WorkshopInv, Placed
  <2>4. \A u, v \in Thr : Holding(u)' /\ Holding(v)' /\ val'[v] = val'[u] => v = u
    BY <1>6, <1>7 DEF WorkshopInv, Placed
  <2> QED BY <1>1, <2>1, <2>2, <2>3, <2>4 DEF WorkshopInv, Placed
<1>9. WS!Living' = WS!Living
    BY <1>3 DEF WS!Living
<1>10. given # {}
    BY <1>7
<1>11. Listing'
    BY <1>1, <1>3, <1>9, <1>10, ListingKept DEF WorkshopInv, WorkshopTypes, Listing
<1> QED BY <1>4, <1>5, <1>8, <1>11 DEF WorkshopInv

\* A work is called; it is in no place any more.
LEMMA WorkshopProcess ==
    ASSUME WorkshopInv, NEW w \in Worker, WS!ProcessWork(w)
    PROVE  WorkshopInv'
<1> USE WorkshopNames DEF Thr
<1>1. PICK s \in {"exit", "fworker"} : state' = [state EXCEPT ![w] = s]
    BY DEF WS!ProcessWork, WS!Goto
<1>2. /\ state[w] = "process"
      /\ processed' = [processed EXCEPT ![val[w]] = @ + 1]
      /\ UNCHANGED <<workerlst, adding, late, buf, mut, pc, call, val, given>>
    BY DEF WS!ProcessWork, WS!store
<1>3. Holding(w) /\ pc[w] = "idle"
    BY <1>2 DEF Holding, WorkshopInv, Roles
<1>4. /\ val[w] \in given /\ val[w] \in Fwork /\ processed[val[w]] = 0
      /\ \A i \in DOMAIN buf : buf[i] # val[w]
      /\ \A u \in Thr : Holding(u) /\ u # w => val[u] # val[w]
    BY <1>3 DEF WorkshopInv, WorkshopTypes, Placed
<1>5. WorkshopTypes'
    BY <1>1, <1>2, <1>4 DEF WorkshopInv, WorkshopTypes, WS!State
<1>6. Roles'
    BY <1>1, <1>2, <1>3 DEF WorkshopInv, WorkshopTypes, Roles
<1>7. ~Holding(w)' /\ \A u \in Thr : u # w => Holding(u)' = Holding(u)
    BY <1>1, <1>2, <1>3 DEF Holding, WorkshopInv, WorkshopTypes
<1>8. \A x \in Fwork : processed'[x] = IF x = val[w] THEN 1 ELSE processed[x]
    BY <1>2, <1>4 DEF WorkshopInv, WorkshopTypes
<1>9. Placed'
  <2>1. \A i \in DOMAIN buf : processed'[buf[i]] = 0
    BY <1>2, <1>4, <1>8 DEF WorkshopInv, WorkshopTypes, Placed
  <2>2. \A u \in Thr : Holding(u)' => processed'[val[u]] = 0
    BY <1>4, <1>7, <1>8 DEF WorkshopInv, WorkshopTypes, Placed
  <2>3. \A x \in Fwork : processed'[x] \in {0, 1} /\ (processed'[x] = 1 => x \in given)
    BY <1>4, <1>8 DEF WorkshopInv, Placed
  <2> QED BY <1>2, <1>7, <2>1, <2>2, <2>3 DEF WorkshopInv, Placed
<1>10. WS!Living' = WS!Living
    BY <1>1, <1>2 DEF WS!Living, WorkshopInv, WorkshopTypes
<1>11. given # {}
    BY <1>4
<1>12. Listing'
    BY <1>1, <1>2, <1>10, <1>11, ListingKept DEF WorkshopInv, WorkshopTypes, Listing
<1> QED BY <1>5, <1>6, <1>9, <1>12 DEF WorkshopInv

\* What auxrmv leaves: the list without one w; all others are still on it.
LEMMA RemovedIs ==
    ASSUME NEW w \in Worker, workerlst \in Seq(Worker), w \in WS!Listed
    PROVE  /\ WS!Removed(w) \in Seq(Worker)
           /\ Len(WS!Removed(w)) = Len(workerlst) - 1
           /\ \A v \in WS!Listed \ {w} : \E i \in DOMAIN WS!Removed(w) : WS!Removed(w)[i] = v
<1> DEFINE q == workerlst
           First(i) == /\ i \in DOMAIN q /\ q[i] = w
                       /\ \A h \in 1..i - 1 : q[h] # w
<1>1. Len(q) \in Nat /\ DOMAIN q = 1..Len(q) /\ \A i \in 1..Len(q) : q[i] \in Worker
    BY LenProperties
<1>2. \E i : First(i)
  <2> DEFINE places == {j \in DOMAIN q : q[j] = w}
             Less == OpToRel(<, Nat)
  <2>1. places # {} /\ places \subseteq Nat
    BY <1>1 DEF WS!Listed
  <2>2. PICK i \in places : \A j \in places : ~ (<<j, i>> \in Less)
    <3> HIDE DEF places
    <3> QED BY <2>1, NatLessThanWellFounded, WFMin
  <2>3. \A h \in 1..i - 1 : q[h] # w
    <3>1. SUFFICES ASSUME NEW h \in 1..i - 1, q[h] = w PROVE FALSE
        OBVIOUS
    <3>2. i \in DOMAIN q
        BY <2>2
    <3>3. i \in 1..Len(q) /\ i \in Nat
        BY <3>2, <1>1
    <3>4. h \in places /\ h \in Nat /\ h < i
        BY <3>1, <3>3, <1>1
    <3>5. <<h, i>> \in Less
        BY <3>3, <3>4 DEF OpToRel
    <3> QED BY <2>2, <3>4, <3>5
  <2> QED BY <2>2, <2>3
<1>3. PICK i : First(i) /\ WS!Removed(w) = SubSeq(q, 1, i - 1) \o SubSeq(q, i + 1, Len(q))
  <2>1. (CHOOSE j \in DOMAIN q : q[j] = w /\ \A h \in 1..j - 1 : q[h] # w)
            = CHOOSE j : First(j)
    OBVIOUS
  <2>2. First(CHOOSE j : First(j))
    BY <1>2
  <2> QED BY <2>1, <2>2 DEF WS!Removed
<1>4. i \in 1..Len(q) /\ q[i] = w
    BY <1>1, <1>3
<1> DEFINE a == SubSeq(q, 1, i - 1)
           b == SubSeq(q, i + 1, Len(q))
<1>5. /\ a \in Seq(Worker) /\ Len(a) = i - 1
      /\ \A h \in 1..i - 1 : a[h] = q[h]
  <2>1. 1 \in Int /\ i - 1 \in Int /\ (i - 1) - 1 + 1 = i - 1 /\ \A h \in 1..i - 1 : q[h] \in Worker
    BY <1>1, <1>4
  <2>2. /\ a \in Seq(Worker) /\ Len(a) = IF 1 <= i - 1 THEN (i - 1) - 1 + 1 ELSE 0
        /\ \A h \in 1..(i - 1) - 1 + 1 : a[h] = q[1 + h - 1]
    BY <2>1, SubSeqProperties
  <2> QED BY <2>2, <1>4
<1>6. /\ b \in Seq(Worker) /\ Len(b) = Len(q) - i
      /\ \A h \in 1..Len(q) - i : b[h] = q[i + h]
  <2>1. i + 1 \in Int /\ Len(q) \in Int /\ \A h \in i + 1..Len(q) : q[h] \in Worker
    BY <1>1, <1>4
  <2>2. /\ b \in Seq(Worker)
        /\ Len(b) = IF i + 1 <= Len(q) THEN Len(q) - (i + 1) + 1 ELSE 0
        /\ \A h \in 1..Len(q) - (i + 1) + 1 : b[h] = q[(i + 1) + h - 1]
    BY <2>1, SubSeqProperties
  <2> QED BY <2>2, <1>1, <1>4
<1> HIDE DEF a, b
<1>7. /\ a \o b \in Seq(Worker) /\ Len(a \o b) = Len(a) + Len(b)
      /\ \A h \in 1..Len(a) + Len(b) : (a \o b)[h] = IF h <= Len(a) THEN a[h] ELSE b[h - Len(a)]
    BY <1>5, <1>6, ConcatProperties
<1>8. Len(a \o b) = Len(q) - 1 /\ DOMAIN (a \o b) = 1..Len(q) - 1
  <2>1. DOMAIN (a \o b) = 1..Len(a \o b)
    BY <1>7, LenProperties
  <2> QED BY <2>1, <1>1, <1>4, <1>5, <1>6, <1>7
<1>9. ASSUME NEW v \in WS!Listed \ {w} PROVE \E h \in DOMAIN (a \o b) : (a \o b)[h] = v
  <2>1. PICK j \in DOMAIN q : q[j] = v
    BY DEF WS!Listed
  <2>2. j \in 1..Len(q) /\ j # i
    BY <2>1, <1>1, <1>4
  <2>3. CASE j < i
    <3>1. j \in 1..i - 1 /\ j \in 1..Len(q) - 1 /\ j \in 1..Len(a) + Len(b) /\ j <= Len(a)
        BY <2>2, <2>3, <1>1, <1>4, <1>5, <1>6
    <3>2. (a \o b)[j] = a[j] /\ a[j] = q[j]
        BY <3>1, <1>5, <1>7
    <3> QED BY <3>1, <3>2, <2>1, <1>8
  <2>4. CASE j > i
    <3>1. /\ j - 1 \in 1..Len(q) - 1 /\ j - 1 \in 1..Len(a) + Len(b) /\ ~(j - 1 <= Len(a))
          /\ (j - 1) - Len(a) = j - i /\ j - i \in 1..Len(q) - i /\ i + (j - i) = j
      <4> DEFINE k == Len(q)
                 m == Len(a)
      <4>1. k \in Nat /\ i \in 1..k /\ j \in 1..k /\ j > i /\ m = i - 1 /\ Len(b) = k - i
        BY <2>2, <2>4, <1>1, <1>4, <1>5, <1>6
      <4> HIDE DEF k, m
      <4>2. /\ j - 1 \in 1..k - 1 /\ j - 1 \in 1..m + Len(b) /\ ~(j - 1 <= m)
            /\ (j - 1) - m = j - i /\ j - i \in 1..k - i /\ i + (j - i) = j
        BY <4>1
      <4> QED BY <4>2 DEF k, m
    <3>2. (a \o b)[j - 1] = b[(j - 1) - Len(a)] /\ b[j - i] = q[i + (j - i)]
        BY <3>1, <1>6, <1>7
    <3>3. (a \o b)[j - 1] = q[j]
        BY <3>1, <3>2
    <3> QED BY <3>1, <3>3, <2>1, <1>8
  <2> QED BY <2>2, <2>3, <2>4, <1>1, <1>4
<1>10. WS!Removed(w) = a \o b
    BY <1>3 DEF a, b
<1> QED BY <1>7, <1>8, <1>9, <1>10

\* A worker that ends takes its identifier off the list.
LEMMA WorkshopExit ==
    ASSUME WorkshopInv, NEW w \in Worker, WS!Exit(w)
    PROVE  WorkshopInv'
<1> USE WorkshopNames DEF Thr
<1>1. /\ state[w] = "exit" /\ workerlst' = WS!Removed(w)
      /\ state' = [state EXCEPT ![w] = "gone"]
      /\ UNCHANGED <<adding, processed, late, buf, mut, pc, call, val, given>>
    BY DEF WS!Exit, WS!Goto, WS!store
<1>2. workerlst \in Seq(Worker)
    BY DEF WorkshopInv, WorkshopTypes
<1>3. w \notin WS!Listed => workerlst' = workerlst
    BY <1>1 DEF WS!Removed
<1>4. workerlst' \in Seq(Worker)
    BY <1>1, <1>2, <1>3, RemovedIs
<1>5. WorkshopTypes' /\ Roles'
    BY <1>1, <1>4 DEF WorkshopInv, WorkshopTypes, WS!State, Roles
<1>6. \A t \in Thr : Holding(t)' => Holding(t)
    BY <1>1 DEF Holding, WorkshopInv, WorkshopTypes
<1>7. Placed'
    BY <1>1, <1>6, PlacedKept DEF WorkshopInv
<1>8. w \in WS!Living /\ WS!Living' = WS!Living \ {w}
    BY <1>1 DEF WS!Living, WorkshopInv, WorkshopTypes
<1>9. WS!Listed \ {w} \subseteq WS!Listed'
  <2>1. CASE w \notin WS!Listed
    BY <2>1, <1>3 DEF WS!Listed
  <2>2. CASE w \in WS!Listed
    BY <2>2, <1>1, <1>2, RemovedIs DEF WS!Listed
  <2> QED BY <2>1, <2>2
<1>10. given # {}
    BY <1>1 DEF WorkshopInv, Listing
<1>11. Listing'
  <2>1. WS!Living' \ {adding'} \subseteq WS!Listed'
    BY <1>1, <1>8, <1>9 DEF WorkshopInv, Listing
  <2>2. adding' # None => state'[adding'] # "unborn" /\ pc'[caller] = "idle"
    BY <1>1 DEF WorkshopInv, WorkshopTypes, Listing
  <2>3. IsFiniteSet(WS!Living')
    BY <1>8, FS_Subset DEF WorkshopInv, Listing
  <2>4. ~late => /\ Len(workerlst') = Cardinality(WS!Living' \ {adding'})
                 /\ given' # {} => adding' = None
    <3>1. SUFFICES ASSUME ~late PROVE Len(workerlst') = Cardinality(WS!Living' \ {adding'})
        BY <1>1 DEF WorkshopInv, Listing
    <3>2. /\ adding = None /\ Len(workerlst) = Cardinality(WS!Living \ {adding})
          /\ IsFiniteSet(WS!Living)
        BY <3>1, <1>10 DEF WorkshopInv, Listing
    <3>3. WS!Living \ {adding} = WS!Living /\ WS!Living' \ {adding'} = WS!Living \ {w}
        BY <1>1, <1>8, <3>2 DEF WS!Living
    <3>4. Cardinality(WS!Living \ {w}) = Cardinality(WS!Living) - 1
        BY <1>8, <3>2, FS_RemoveElement
    <3>5. w \in WS!Listed
        BY <1>8, <3>3 DEF WorkshopInv, Listing
    <3>6. Len(workerlst') = Len(workerlst) - 1
        BY <1>1, <1>2, <3>5, RemovedIs
    <3> QED BY <3>2, <3>3, <3>4, <3>6
  <2> QED BY <1>1, <1>10, <2>1, <2>2, <2>3, <2>4 DEF Listing
<1> QED BY <1>5, <1>7, <1>11 DEF WorkshopInv

\* A worker is created; it runs, and is not on the list yet.
LEMMA WorkshopAddWorker ==
    ASSUME WorkshopInv, NEW w \in Worker, WS!AddWorker(w)
    PROVE  WorkshopInv'
<1> USE WorkshopNames DEF Thr
<1>1. /\ state[w] \in {"unborn", "gone"} /\ adding = None /\ pc[caller] = "idle"
      /\ state' = [state EXCEPT ![w] = "fworker"] /\ adding' = w
      /\ late' = (late \/ given # {})
      /\ UNCHANGED <<workerlst, processed, buf, mut, pc, call, val, given>>
    BY DEF WS!AddWorker, WS!MainFree, WS!Goto, WS!store
<1>2. late' \in BOOLEAN
    BY <1>1 DEF WorkshopInv, WorkshopTypes
<1>3. WorkshopTypes'
    BY <1>1, <1>2 DEF WorkshopInv, WorkshopTypes, WS!State
<1>4. Roles'
    BY <1>1 DEF WorkshopInv, WorkshopTypes, Roles
<1>5. \A t \in Thr : Holding(t)' => Holding(t)
    BY <1>1 DEF Holding, WorkshopInv, WorkshopTypes
<1>6. Placed'
    BY <1>1, <1>5, PlacedKept DEF WorkshopInv
<1>7. w \notin WS!Living /\ WS!Living' = WS!Living \cup {w} /\ WS!Listed' = WS!Listed
    BY <1>1 DEF WS!Living, WS!Listed, WorkshopInv, WorkshopTypes
<1>8. WS!Living \ {adding} = WS!Living /\ WS!Living' \ {adding'} = WS!Living
    BY <1>1, <1>7 DEF WS!Living
<1>9. IsFiniteSet(WS!Living')
    BY <1>7, FS_AddElement DEF WorkshopInv, Listing
<1>10. ~late' => ~late /\ given = {}
    BY <1>1
<1>11. given' = {} => \A v \in Worker :
          state'[v] \in {"unborn", "fworker", "takeout"} /\ pc'[v] # "leave"
    BY <1>1 DEF WorkshopInv, WorkshopTypes, Listing
<1>12. Listing'
    BY <1>1, <1>7, <1>8, <1>9, <1>10, <1>11 DEF WorkshopInv, WorkshopTypes, Listing
<1> QED BY <1>3, <1>4, <1>6, <1>12 DEF WorkshopInv

\* It is put on the list.
LEMMA WorkshopAddTid ==
    ASSUME WorkshopInv, WS!AddTid
    PROVE  WorkshopInv'
<1> USE WorkshopNames DEF Thr
<1>1. /\ adding # None /\ workerlst' = <<adding>> \o workerlst /\ adding' = None
      /\ UNCHANGED <<state, processed, late, buf, mut, pc, call, val, given>>
    BY DEF WS!AddTid, WS!store
<1>2. adding \in Worker /\ workerlst \in Seq(Worker)
    BY <1>1 DEF WorkshopInv, WorkshopTypes
<1>3. /\ workerlst' \in Seq(Worker) /\ Len(workerlst') = Len(workerlst) + 1
      /\ workerlst'[1] = adding /\ DOMAIN workerlst' = 1..Len(workerlst) + 1
      /\ \A i \in 1..Len(workerlst) : workerlst'[i + 1] = workerlst[i]
      /\ DOMAIN workerlst = 1..Len(workerlst) /\ Len(workerlst) \in Nat
  <2>1. <<adding>> \in Seq(Worker) /\ Len(<<adding>>) = 1 /\ <<adding>>[1] = adding
    BY <1>2
  <2>2. Len(workerlst) \in Nat /\ DOMAIN workerlst = 1..Len(workerlst)
    BY <1>2, LenProperties
  <2>3. /\ workerlst' \in Seq(Worker) /\ Len(workerlst') = 1 + Len(workerlst)
        /\ \A i \in 1..1 + Len(workerlst) :
              workerlst'[i] = IF i <= 1 THEN adding ELSE workerlst[i - 1]
    BY <1>1, <1>2, <2>1, ConcatProperties
  <2>4. DOMAIN workerlst' = 1..Len(workerlst')
    BY <2>3, LenProperties
  <2> QED BY <2>2, <2>3, <2>4
<1>4. WorkshopTypes' /\ Roles'
    BY <1>1, <1>3 DEF WorkshopInv, WorkshopTypes, Roles
<1>5. \A t \in Thr : Holding(t)' => Holding(t)
    BY <1>1 DEF Holding
<1>6. Placed'
    BY <1>1, <1>5, PlacedKept DEF WorkshopInv
<1>7. WS!Living' = WS!Living
    BY <1>1 DEF WS!Living
<1>8. WS!Listed \cup {adding} \subseteq WS!Listed'
  <2>1. \A i \in DOMAIN workerlst : workerlst[i] \in WS!Listed'
    BY <1>3 DEF WS!Listed
  <2>2. adding \in WS!Listed'
    BY <1>3 DEF WS!Listed
  <2> QED BY <2>1, <2>2 DEF WS!Listed
<1>9. ~late => Len(workerlst') = Cardinality(WS!Living)
  <2>1. SUFFICES ASSUME ~late PROVE Len(workerlst') = Cardinality(WS!Living)
    OBVIOUS
  <2>2. given = {} /\ Len(workerlst) = Cardinality(WS!Living \ {adding}) /\ IsFiniteSet(WS!Living)
    BY <2>1, <1>1 DEF WorkshopInv, Listing
  <2>3. adding \in WS!Living
    BY <2>2, <1>1, <1>2 DEF WorkshopInv, Listing, WS!Living
  <2>4. Cardinality(WS!Living \ {adding}) = Cardinality(WS!Living) - 1 /\ Cardinality(WS!Living) \in Nat
    BY <2>2, <2>3, FS_RemoveElement, FS_CardinalityType
  <2> QED BY <2>2, <2>4, <1>3
<1>10. WS!Living \ {None} = WS!Living
    BY DEF WS!Living
<1>11. Listing'
    BY <1>1, <1>7, <1>8, <1>9, <1>10 DEF WorkshopInv, WorkshopTypes, Listing
<1> QED BY <1>4, <1>6, <1>11 DEF WorkshopInv

\* At the start there is no worker and no work.
LEMMA WorkshopInit == ASSUME WS!Init PROVE WorkshopInv
<1>1. WorkshopTypes
  <2>1. workerlst \in Seq(Worker) /\ buf \in Seq(Fwork)
    BY EmptySeq DEF WS!Init, WS!Store!Init
  <2>2. processed \in [Fwork -> Nat] /\ state \in [Worker -> WS!State]
    BY DEF WS!Init, WS!State
  <2>3. adding \in Worker \cup {None} /\ late \in BOOLEAN
    BY DEF WS!Init
  <2>4. given \subseteq Fwork /\ mut \in Thr \cup {NoThread}
    BY DEF WS!Init, WS!Store!Init
  <2>5. /\ pc \in [Thr -> WS!Store!PC] /\ call \in [Thr -> WS!Store!Op]
        /\ val \in [Thr -> Fwork \cup {None}]
    BY DEF WS!Init, WS!Store!Init, Thr, WS!Store!PC, WS!Store!Op
  <2> QED BY <2>1, <2>2, <2>3, <2>4, <2>5 DEF WorkshopTypes
<1>2. Roles
    BY WorkshopNames DEF WS!Init, WS!Store!Init, Roles, Thr
<1>3. \A t \in Thr : ~Holding(t)
    BY DEF WS!Init, WS!Store!Init, Holding, Thr
<1>4. Placed
    BY <1>3 DEF WS!Init, WS!Store!Init, Placed
<1>5. WS!Living = {} /\ WS!Living \ {adding} = {}
    BY DEF WS!Init, WS!Living
<1>6. Cardinality({}) = 0 /\ IsFiniteSet({})
    BY FS_EmptySet
<1>7. Listing
    BY <1>5, <1>6 DEF WS!Init, WS!Store!Init, Listing, Thr
<1> QED BY <1>1, <1>2, <1>4, <1>7 DEF WorkshopInv

\* Every step of the workshop keeps the invariant.
LEMMA WorkshopStep == ASSUME WorkshopInv, WS!Next PROVE WorkshopInv'
<1> USE WorkshopNames
<1>1. ASSUME WS!InsertWork PROVE WorkshopInv'
  <2>1. UNCHANGED <<workerlst, state, adding, processed, late>>
    BY <1>1 DEF WS!InsertWork
  <2>2. ASSUME NEW x \in Fwork, WS!MainFree, WS!Store!CallInsert(caller, x)
        PROVE  WorkshopInv'
    BY <2>1, <2>2, WorkshopCallInsert DEF WS!MainFree
  <2>3. ASSUME WS!Store!Inside(caller) PROVE WorkshopInv'
    <3>1. call[caller] \notin {"takeout", "takeout_opt"}
        BY DEF WorkshopInv, Roles
    <3>2. WS!Store!Lock(caller) \/ WS!Store!Insert(caller) \/ WS!Store!Unlock(caller)
        BY <2>3, <3>1 DEF WS!Store!Inside, WS!Store!Takeout, WS!Store!TakeoutWait,
           WS!Store!TakeoutNone
    <3> QED BY <2>1, <3>2, WorkshopInsert, WorkshopCallStep DEF Thr
  <2> QED BY <1>1, <2>2, <2>3 DEF WS!InsertWork
<1>2. ASSUME NEW w \in Worker, WS!TakeoutInside(w) PROVE WorkshopInv'
  <2>1. /\ UNCHANGED <<workerlst, adding, processed, late>> /\ WS!Store!Inside(w)
        /\ state' = [state EXCEPT ![w] = IF pc'[w] = "idle" THEN "process" ELSE "takeout"]
    BY <1>2 DEF WS!TakeoutInside, WS!Goto
  <2>2. call[w] \notin {"insert", "takeout_opt"}
    BY DEF WorkshopInv, Roles
  <2>3. \/ WS!Store!Lock(w) \/ WS!Store!TakeoutWait(w) \/ WS!Store!Unlock(w)
        \/ WS!Store!Takeout(w)
    BY <2>1, <2>2 DEF WS!Store!Inside, WS!Store!Insert, WS!Store!TakeoutNone
  <2>4. CASE WS!Store!Takeout(w)
    <3>1. pc'[w] = "leave"
        BY <2>4 DEF WS!Store!Takeout, WS!Store!Goto, WorkshopInv, WorkshopTypes, Thr
    <3> QED BY <2>1, <2>4, <3>1, WorkshopTakeout
  <2>5. CASE WS!Store!Lock(w) \/ WS!Store!TakeoutWait(w) \/ WS!Store!Unlock(w)
    BY <2>1, <2>5, WorkshopCallStep DEF Thr
  <2> QED BY <2>3, <2>4, <2>5
<1>3. ASSUME NEW w \in Worker, WS!Wakeup(w) PROVE WorkshopInv'
  <2>1. /\ UNCHANGED <<workerlst, state, adding, processed, late>>
        /\ WS!Store!SpuriousWakeup(w) /\ pc[w] = "CVisnil" /\ pc'[w] = "enter"
    BY <1>3 DEF WS!Wakeup, WS!Store!SpuriousWakeup, WS!Store!Goto, WorkshopInv,
       WorkshopTypes, Thr
  <2>2. state[w] = "takeout"
    BY <2>1 DEF WorkshopInv, Roles
  <2>3. state' = [state EXCEPT ![w] = IF pc'[w] = "idle" THEN "process" ELSE "takeout"]
    BY <2>1, <2>2 DEF WorkshopInv, WorkshopTypes
  <2> QED BY <2>1, <2>3, WorkshopCallStep DEF Thr
<1>4. ASSUME NEW w \in Worker, WS!AddWorker(w) \/ WS!Work(w) \/ WS!Wakeup(w)
      PROVE  WorkshopInv'
    BY <1>2, <1>3, <1>4, WorkshopAddWorker, WorkshopCallTakeout, WorkshopProcess,
       WorkshopExit DEF WS!Work
<1> QED BY <1>1, <1>4, WorkshopAddTid DEF WS!Next

\* A step of nothing keeps it.
LEMMA WorkshopStutter ==
    ASSUME WorkshopInv, UNCHANGED workshop PROVE WorkshopInv'
<1>1. UNCHANGED <<workerlst, state, adding, processed, late, buf, mut, pc, call, val, given>>
    BY DEF workshop
<1>2. /\ WS!Living' = WS!Living /\ WS!Listed' = WS!Listed
      /\ \A t : Holding(t)' = Holding(t)
    BY <1>1 DEF WS!Living, WS!Listed, Holding
<1>3. WorkshopTypes' /\ Roles'
    BY <1>1 DEF WorkshopInv, WorkshopTypes, Roles
<1>4. Placed'
    BY <1>1, <1>2 DEF WorkshopInv, Placed
<1>5. Listing'
    BY <1>1, <1>2 DEF WorkshopInv, Listing
<1> QED BY <1>3, <1>4, <1>5 DEF WorkshopInv

\* What the invariant says of the works, and of the list.
LEMMA WorkshopSafe == ASSUME WorkshopInv PROVE WS!CalledOnce /\ WS!WorkersListed
<1>1. WS!CalledOnce
    BY DEF WorkshopInv, WorkshopTypes, Placed, WS!CalledOnce
<1>2. adding = None => WS!Living \ {adding} = WS!Living
    BY WorkshopNames DEF WS!Living
<1>3. WS!Cardinality(WS!Living) = Cardinality(WS!Living)
    BY DEF WS!Cardinality, Cardinality
<1>4. WS!WorkersListed
    BY <1>2, <1>3 DEF WorkshopInv, Listing, WS!WorkersListed
<1> QED BY <1>1, <1>4

\* The workshop: no work is called twice, and every worker that lives and has
\* been added is on the list.
THEOREM WorkshopHolds == WS!Spec => [](WS!CalledOnce /\ WS!WorkersListed)
<1>1. WS!Init => WorkshopInv
    BY WorkshopInit
<1>2. WorkshopInv /\ [WS!Next]_WS!vars => WorkshopInv'
    BY WorkshopStep, WorkshopStutter DEF WS!vars, WS!store, workshop
<1>3. WorkshopInv => WS!CalledOnce /\ WS!WorkersListed
    BY WorkshopSafe
<1> QED BY <1>1, <1>2, <1>3, PTL DEF WS!Spec

-----------------------------------------------------------------------------
(***************************************************************************)
(* DivideConquer$solve.                                                    *)
(***************************************************************************)
SThread == Solver \cup {caller}
Children(p) == DQ!Subproblems(p)

\* Frames are numbered from the outermost call.
Depth(t) == Len(stack[t])
Deep(t, d) == stack[t][Len(stack[t]) - d]
Loop(t, d, p, i) == d < Depth(t) /\ Deep(t, d) = DQ!loop2(p, i)
Does(t, op, p) == DQ!Calls(t, op) /\ DQ!Top(t) = p

\* Every call but the innermost is a call of loop2.
Stacks ==
    /\ stack \in [SThread -> Seq(DQ!FrameSet)]
    /\ \A t \in SThread : \A d \in Nat : d + 1 < Depth(t) => Deep(t, d).op = "loop2"

TopOp == {"solve", "k0", "decget", "put"}

\* The calls fs are one of F, if there is one, inside of one of G, if there is one.
Fits(fs, F, G) ==
    /\ F \subseteq DQ!FrameSet /\ G \subseteq DQ!FrameSet
    /\ \A f \in F : f.op \in TopOp
    /\ \A g \in G : g.op = "loop2"
    /\ \/ F = {} /\ G = {} /\ fs = <<>>
       \/ \E f \in F : F = {f} /\ G = {} /\ fs = <<f>>
       \/ \E g \in G : F = {} /\ G = {g} /\ fs = <<g>>
       \/ \E f \in F, g \in G : F = {f} /\ G = {g} /\ fs = <<f, g>>

\* The innermost element of a sequence replaced by others.
LEMMA ReplacedIs ==
    ASSUME NEW S, NEW q \in Seq(S), q # <<>>, NEW fs \in Seq(S), NEW r, r = fs \o Tail(q)
    PROVE  /\ r \in Seq(S) /\ Len(r) = Len(fs) + Len(q) - 1
           /\ \A d \in Nat : d < Len(q) - 1 => r[Len(r) - d] = q[Len(q) - d]
           /\ \A j \in 1..Len(fs) : r[j] = fs[j]
<1> DEFINE tl == Tail(q)
<1>1. /\ tl \in Seq(S) /\ Len(tl) = Len(q) - 1
      /\ \A i \in 1..Len(tl) : tl[i] = q[i + 1]
    BY HeadTailProperties
<1>2. Len(q) \in Nat \ {0} /\ Len(fs) \in Nat
    BY EmptySeq, LenProperties
<1> HIDE DEF tl
<1>3. /\ fs \o tl \in Seq(S) /\ Len(fs \o tl) = Len(fs) + Len(tl)
      /\ \A i \in 1..Len(fs) + Len(tl) :
            (fs \o tl)[i] = IF i <= Len(fs) THEN fs[i] ELSE tl[i - Len(fs)]
    BY <1>1, ConcatProperties
<1>4. r = fs \o tl
    BY DEF tl
<1>5. ASSUME NEW d \in Nat, d < Len(q) - 1 PROVE r[Len(r) - d] = q[Len(q) - d]
  <2>1. /\ Len(r) - d \in 1..Len(fs) + Len(tl) /\ ~(Len(r) - d <= Len(fs))
        /\ (Len(r) - d) - Len(fs) = Len(tl) - d /\ Len(tl) - d \in 1..Len(tl)
        /\ (Len(tl) - d) + 1 = Len(q) - d
    BY <1>1, <1>2, <1>3, <1>4, <1>5
  <2>2. r[Len(r) - d] = tl[(Len(r) - d) - Len(fs)]
    BY <2>1, <1>3, <1>4
  <2>3. tl[Len(tl) - d] = q[(Len(tl) - d) + 1]
    BY <2>1, <1>1
  <2> QED BY <2>1, <2>2, <2>3
<1>6. ASSUME NEW j \in 1..Len(fs) PROVE r[j] = fs[j]
  <2>1. j \in 1..Len(fs) + Len(tl) /\ j <= Len(fs)
    BY <1>1, <1>2, <1>6
  <2> QED BY <2>1, <1>3, <1>4
<1> QED BY <1>1, <1>2, <1>3, <1>4, <1>5, <1>6

\* What the frames are made of.
LEMMA FrameFields ==
    /\ \A f \in DQ!FrameSet : f.op \in {"solve", "loop2", "k0", "decget", "put"} /\ f.p \in Problem /\ f.i \in Nat
    /\ \A p \in Problem, i \in Nat : 
          /\ DQ!loop2(p, i) \in DQ!FrameSet
          /\ DQ!loop2(p, i).op = "loop2" /\ DQ!loop2(p, i).p = p /\ DQ!loop2(p, i).i = i
    /\ \A p \in Problem :
          /\ DQ!solve(p) \in DQ!FrameSet /\ DQ!solve(p).op = "solve" /\ DQ!solve(p).p = p
          /\ DQ!k0(p) \in DQ!FrameSet /\ DQ!k0(p).op = "k0" /\ DQ!k0(p).p = p
          /\ DQ!decget(p) \in DQ!FrameSet /\ DQ!decget(p).op = "decget" /\ DQ!decget(p).p = p
BY DEF DQ!FrameSet, DQ!Frame, DQ!loop2, DQ!solve, DQ!k0, DQ!decget

\* A frame of loop2 is a call of loop2.
LEMMA LoopFrame == \A f \in DQ!FrameSet : f.op = "loop2" => f = DQ!loop2(f.p, f.i)
BY DEF DQ!FrameSet, DQ!Frame, DQ!loop2

\* The innermost call is the one with the largest number.
LEMMA TopIs ==
    ASSUME Stacks, NEW t \in SThread
    PROVE  /\ Depth(t) \in Nat
           /\ stack[t] = <<>> <=> Depth(t) = 0
           /\ \A d \in Nat : d < Depth(t) => Deep(t, d) \in DQ!FrameSet
           /\ stack[t] # <<>> => /\ Head(stack[t]) = Deep(t, Depth(t) - 1)
                                 /\ Head(stack[t]) \in DQ!FrameSet
                                 /\ Depth(t) - 1 \in Nat
<1>1. stack[t] \in Seq(DQ!FrameSet)
    BY DEF Stacks
<1>2. Len(stack[t]) \in Nat /\ (stack[t] # <<>> => Len(stack[t]) \in Nat \ {0})
    BY <1>1, EmptySeq, LenProperties
<1>3. stack[t] = <<>> => Len(stack[t]) = 0
    OBVIOUS
<1>4. \A d \in Nat : d < Depth(t) => Deep(t, d) \in DQ!FrameSet
  <2>1. ASSUME NEW d \in Nat, d < Len(stack[t]) PROVE stack[t][Len(stack[t]) - d] \in DQ!FrameSet
    <3>1. Len(stack[t]) - d \in 1..Len(stack[t])
        BY <2>1, <1>2
    <3> QED BY <3>1, <1>1, ElementOfSeq
  <2> QED BY <2>1 DEF Depth, Deep
<1>5. stack[t] # <<>> => Head(stack[t]) = stack[t][1]
    OBVIOUS
<1>6. Len(stack[t]) - (Len(stack[t]) - 1) = 1
    BY <1>2
<1>7. stack[t] # <<>> => Head(stack[t]) = Deep(t, Depth(t) - 1)
    BY <1>5, <1>6 DEF Depth, Deep
<1>8. stack[t] # <<>> => Depth(t) - 1 \in Nat /\ Depth(t) - 1 < Depth(t)
    BY <1>2 DEF Depth
<1> QED BY <1>2, <1>3, <1>4, <1>7, <1>8 DEF Depth

\* What is left of the stack of t when its innermost call has become fs.
LEMMA StackBecomes ==
    ASSUME Stacks, NEW t \in SThread, stack[t] # <<>>,
           NEW fs \in Seq(DQ!FrameSet), DQ!Becomes(t, fs)
    PROVE  /\ stack' \in [SThread -> Seq(DQ!FrameSet)]
           /\ \A u \in SThread : u # t => stack'[u] = stack[u]
           /\ Depth(t)' = Len(fs) + Depth(t) - 1
           /\ \A d \in Nat : d < Depth(t) - 1 => Deep(t, d)' = Deep(t, d)
           /\ \A j \in 1..Len(fs) : stack'[t][j] = fs[j]
<1>1. stack[t] \in Seq(DQ!FrameSet) /\ stack' = [stack EXCEPT ![t] = fs \o Tail(stack[t])]
    BY DEF Stacks, DQ!Becomes
<1>2. stack'[t] = fs \o Tail(stack[t]) /\ \A u \in SThread : u # t => stack'[u] = stack[u]
    BY <1>1 DEF Stacks
<1>3. PICK q : q = stack[t]
    OBVIOUS
<1>4. PICK r : r = stack'[t]
    OBVIOUS
<1>5. /\ r \in Seq(DQ!FrameSet) /\ Len(r) = Len(fs) + Len(q) - 1
      /\ \A d \in Nat : d < Len(q) - 1 => r[Len(r) - d] = q[Len(q) - d]
      /\ \A j \in 1..Len(fs) : r[j] = fs[j]
  <2>1. q \in Seq(DQ!FrameSet) /\ q # <<>> /\ r = fs \o Tail(q)
    BY <1>1, <1>2, <1>3, <1>4
  <2> QED BY <2>1, ReplacedIs
<1>6. stack' \in [SThread -> Seq(DQ!FrameSet)]
    BY <1>1, <1>4, <1>5, <1>2 DEF Stacks
<1> QED BY <1>2, <1>3, <1>4, <1>5, <1>6 DEF Depth, Deep

\* No call replaces the innermost one.
LEMMA StackPop ==
    ASSUME Stacks, NEW t \in SThread, stack[t] # <<>>, DQ!Becomes(t, <<>>)
    PROVE  /\ stack' \in [SThread -> Seq(DQ!FrameSet)]
           /\ \A u \in SThread : u # t => stack'[u] = stack[u]
           /\ \A d \in Nat : d < Depth(t) - 1 => Deep(t, d)' = Deep(t, d)
           /\ Depth(t)' = Depth(t) - 1
<1>1. <<>> \in Seq(DQ!FrameSet) /\ Len(<<>>) = 0
    BY EmptySeq
<1>2. Depth(t) \in Nat
    BY TopIs
<1>3. PICK fs : fs = <<>>
    OBVIOUS
<1>4. fs \in Seq(DQ!FrameSet) /\ Len(fs) = 0 /\ DQ!Becomes(t, fs)
    BY <1>1, <1>3
<1>5. /\ stack' \in [SThread -> Seq(DQ!FrameSet)]
      /\ \A u \in SThread : u # t => stack'[u] = stack[u]
      /\ \A d \in Nat : d < Depth(t) - 1 => Deep(t, d)' = Deep(t, d)
      /\ Depth(t)' = Len(fs) + Depth(t) - 1
    BY <1>4, StackBecomes
<1> QED BY <1>2, <1>4, <1>5

\* One call replaces it.
LEMMA StackOne ==
    ASSUME Stacks, NEW t \in SThread, stack[t] # <<>>, NEW f \in DQ!FrameSet,
           DQ!Becomes(t, <<f>>)
    PROVE  /\ stack' \in [SThread -> Seq(DQ!FrameSet)]
           /\ \A u \in SThread : u # t => stack'[u] = stack[u]
           /\ \A d \in Nat : d < Depth(t) - 1 => Deep(t, d)' = Deep(t, d)
           /\ Depth(t)' = Depth(t)
           /\ Deep(t, Depth(t) - 1)' = f
<1>0. <<f>> \in Seq(DQ!FrameSet) /\ Len(<<f>>) = 1 /\ <<f>>[1] = f
    OBVIOUS
<1>1. PICK fs : /\ fs \in Seq(DQ!FrameSet) /\ Len(fs) = 1 /\ fs[1] = f
                /\ DQ!Becomes(t, fs)
    BY <1>0
<1>2. Depth(t) \in Nat
    BY TopIs
<1>3. /\ stack' \in [SThread -> Seq(DQ!FrameSet)]
      /\ \A u \in SThread : u # t => stack'[u] = stack[u]
      /\ \A d \in Nat : d < Depth(t) - 1 => Deep(t, d)' = Deep(t, d)
      /\ Depth(t)' = Len(fs) + Depth(t) - 1
      /\ \A j \in 1..Len(fs) : stack'[t][j] = fs[j]
    BY <1>1, StackBecomes
<1>4. Depth(t)' = Depth(t) /\ Depth(t) - (Depth(t) - 1) = 1 /\ stack'[t][1] = f
    BY <1>1, <1>2, <1>3
<1>5. stack'[t][Len(stack'[t]) - (Depth(t) - 1)] = f
    BY <1>4 DEF Depth
<1> QED BY <1>3, <1>4, <1>5 DEF Deep

\* Two calls replace it.
LEMMA StackTwo ==
    ASSUME Stacks, NEW t \in SThread, stack[t] # <<>>,
           NEW f \in DQ!FrameSet, NEW g \in DQ!FrameSet, DQ!Becomes(t, <<f, g>>)
    PROVE  /\ stack' \in [SThread -> Seq(DQ!FrameSet)]
           /\ \A u \in SThread : u # t => stack'[u] = stack[u]
           /\ \A d \in Nat : d < Depth(t) - 1 => Deep(t, d)' = Deep(t, d)
           /\ Depth(t)' = Depth(t) + 1
           /\ \A d : d = Depth(t) - 1 => Deep(t, d)' = g
           /\ \A d : d = Depth(t) => Deep(t, d)' = f
<1>0. <<f, g>> \in Seq(DQ!FrameSet) /\ Len(<<f, g>>) = 2 /\ <<f, g>>[1] = f /\ <<f, g>>[2] = g
    OBVIOUS
<1>1. PICK fs : /\ fs \in Seq(DQ!FrameSet) /\ Len(fs) = 2 /\ fs[1] = f /\ fs[2] = g
                /\ DQ!Becomes(t, fs)
    BY <1>0
<1>2. Depth(t) \in Nat
    BY TopIs
<1>3. /\ stack' \in [SThread -> Seq(DQ!FrameSet)]
      /\ \A u \in SThread : u # t => stack'[u] = stack[u]
      /\ \A d \in Nat : d < Depth(t) - 1 => Deep(t, d)' = Deep(t, d)
      /\ Depth(t)' = Len(fs) + Depth(t) - 1
      /\ \A j \in 1..Len(fs) : stack'[t][j] = fs[j]
    BY <1>1, StackBecomes
<1>4. /\ Depth(t)' = Depth(t) + 1 /\ (Depth(t) + 1) - (Depth(t) - 1) = 2
      /\ (Depth(t) + 1) - Depth(t) = 1
      /\ stack'[t][1] = f /\ stack'[t][2] = g
    BY <1>1, <1>2, <1>3
<1>5. /\ stack'[t][Len(stack'[t]) - (Depth(t) - 1)] = g
      /\ stack'[t][Len(stack'[t]) - Depth(t)] = f
    BY <1>4 DEF Depth
<1> QED BY <1>3, <1>4, <1>5 DEF Deep

\* What a replacement leaves: t is in the call of F, if there is one, and in
\* the loops it was in, but for the innermost call, and in that of G.
Replaces(t, F, G) ==
    /\ Stacks'
    /\ \A u \in SThread, op \in TopOp, p \in Problem :
          Does(u, op, p)' <=> IF u = t THEN \E f \in F : f.op = op /\ f.p = p
                              ELSE Does(u, op, p)
    /\ \A u \in SThread, d \in Nat, p \in Problem, i \in Nat :
          Loop(u, d, p, i)' <=>
              \/ Loop(u, d, p, i) /\ ~(u = t /\ d = Depth(t) - 1)
              \/ u = t /\ d = Depth(t) - 1 /\ DQ!loop2(p, i) \in G

\* Who does what, in terms of numbered frames.
LEMMA DoesIs ==
    ASSUME Stacks, NEW t \in SThread, NEW op, NEW p
    PROVE  Does(t, op, p) <=> /\ Depth(t) > 0
                              /\ Deep(t, Depth(t) - 1).op = op
                              /\ Deep(t, Depth(t) - 1).p = p
<1>1. Depth(t) \in Nat
    BY TopIs
<1> QED BY <1>1, TopIs DEF Does, DQ!Calls, DQ!Top

\* A call that becomes what fits is replaced by it.
LEMMA ReplacedBecomes ==
    ASSUME Stacks, NEW t \in SThread, stack[t] # <<>>,
           NEW fs, NEW F, NEW G, Fits(fs, F, G), DQ!Becomes(t, fs)
    PROVE  Replaces(t, F, G)
<1>1. /\ Depth(t) \in Nat /\ Depth(t) > 0
      /\ stack' \in [SThread -> Seq(DQ!FrameSet)]
      /\ \A u \in SThread : u # t => stack'[u] = stack[u]
      /\ \A d \in Nat : d < Depth(t) - 1 => Deep(t, d)' = Deep(t, d)
  <2>1. Depth(t) \in Nat /\ Depth(t) > 0
    BY TopIs
  <2>2. fs = <<>> \/ (\E f \in DQ!FrameSet : fs = <<f>>)
          \/ (\E f, g \in DQ!FrameSet : fs = <<f, g>>)
    BY DEF Fits
  <2> QED BY <2>1, <2>2, StackPop, StackOne, StackTwo
<1> DEFINE D == Depth(t) - 1
<1>2. \/ F = {} /\ G = {} /\ Depth(t)' = D
      \/ /\ \E f \in F : F = {f} /\ \A d : d = D => Deep(t, d)' = f
         /\ G = {} /\ Depth(t)' = D + 1
      \/ /\ \E g \in G : G = {g} /\ \A d : d = D => Deep(t, d)' = g
         /\ F = {} /\ Depth(t)' = D + 1
      \/ /\ \E f \in F, g \in G :
               /\ F = {f} /\ G = {g}
               /\ \A d : d = D + 1 => Deep(t, d)' = f
               /\ \A d : d = D => Deep(t, d)' = g
         /\ Depth(t)' = D + 2
  <2>1. CASE F = {} /\ G = {} /\ fs = <<>>
    BY <2>1, StackPop
  <2>2. CASE \E f \in F : F = {f} /\ G = {} /\ fs = <<f>>
    BY <2>2, <1>1, StackOne DEF Fits
  <2>3. CASE \E g \in G : F = {} /\ G = {g} /\ fs = <<g>>
    BY <2>3, <1>1, StackOne DEF Fits
  <2>4. CASE \E f \in F, g \in G : F = {f} /\ G = {g} /\ fs = <<f, g>>
    BY <2>4, <1>1, StackTwo DEF Fits
  <2> QED BY <2>1, <2>2, <2>3, <2>4 DEF Fits
<1>3. D \in Nat /\ Depth(t) = D + 1
    BY <1>1
<1>4. /\ \A f \in F : f \in DQ!FrameSet /\ f.op \in TopOp
      /\ \A g \in G : g \in DQ!FrameSet /\ g.op = "loop2"
    BY DEF Fits
<1>5. \A d \in Nat : d < D => Deep(t, d)' = Deep(t, d) /\ Deep(t, d).op = "loop2"
    BY <1>1, <1>3 DEF Stacks
<1> HIDE DEF D
<1>6. ASSUME NEW d \in Nat, d + 1 < Depth(t)' PROVE Deep(t, d)'.op = "loop2"
  <2>1. CASE d < D
    BY <2>1, <1>5
  <2>2. CASE ~(d < D)
    <3>1. d = D /\ Depth(t)' = D + 2
        BY <1>6, <2>2, <1>2, <1>3
    <3>2. Depth(t)' # D + 1 /\ Depth(t)' # D
        BY <3>1, <1>3
    <3>3. \E g \in G : Deep(t, d)' = g
        BY <3>1, <3>2, <1>2
    <3> QED BY <3>3, <1>4
  <2> QED BY <2>1, <2>2
<1>7. Stacks'
  <2>1. \A u \in SThread : u # t => \A d \in Nat : d + 1 < Depth(u)' => Deep(u, d)'.op = "loop2"
    BY <1>1 DEF Stacks, Depth, Deep
  <2> QED BY <1>1, <1>6, <2>1 DEF Stacks
<1>8. ASSUME NEW u \in SThread, u # t
      PROVE  /\ \A op, p : Does(u, op, p)' <=> Does(u, op, p)
             /\ \A d, p, i : Loop(u, d, p, i)' <=> Loop(u, d, p, i)
  <2>1. stack'[u] = stack[u]
    BY <1>1, <1>8
  <2> QED BY <2>1 DEF Does, DQ!Calls, DQ!Top, Loop, Depth, Deep
<1>9. ASSUME NEW op \in TopOp, NEW p \in Problem
      PROVE  Does(t, op, p)' <=> \E f \in F : f.op = op /\ f.p = p
  <2>1. PICK e : e = Depth(t)' - 1
    OBVIOUS
  <2>2. Does(t, op, p)' <=> Depth(t)' > 0 /\ Deep(t, e)'.op = op /\ Deep(t, e)'.p = p
    <3>1. Does(t, op, p)' <=> (/\ Depth(t) > 0
                               /\ Deep(t, Depth(t) - 1).op = op
                               /\ Deep(t, Depth(t) - 1).p = p)'
        BY <1>7, DoesIs, PTL
    <3> QED BY <2>1, <3>1 DEF Deep, Depth
  <2>3. e < 0 \/ e \in Nat
    BY <2>1, <1>2, <1>3
  <2>4. CASE F = {} /\ G = {} /\ Depth(t)' = D
    <3>1. e < D /\ (Depth(t)' > 0 => e \in Nat)
        BY <2>1, <2>4, <1>3
    <3>2. Depth(t)' > 0 => Deep(t, e)'.op = "loop2"
        BY <3>1, <1>5
    <3> QED BY <2>2, <2>4, <3>2 DEF TopOp
  <2>5. CASE \E f \in F : F = {f} /\ (\A d : d = D => Deep(t, d)' = f) /\ Depth(t)' = D + 1
    <3>1. e = D /\ Depth(t)' > 0
        BY <2>1, <2>5, <1>3
    <3> QED BY <2>2, <2>5, <3>1
  <2>6. CASE F = {} /\ (\E g \in G : \A d : d = D => Deep(t, d)' = g) /\ Depth(t)' = D + 1
    <3>1. e = D
        BY <2>1, <2>6, <1>3
    <3>2. Deep(t, e)'.op = "loop2"
        BY <2>6, <3>1, <1>4
    <3> QED BY <2>2, <2>6, <3>2 DEF TopOp
  <2>7. CASE \E f \in F : F = {f} /\ (\A d : d = D + 1 => Deep(t, d)' = f) /\ Depth(t)' = D + 2
    <3>1. e = D + 1 /\ Depth(t)' > 0
        BY <2>1, <2>7, <1>3
    <3> QED BY <2>2, <2>7, <3>1
  <2> QED BY <1>2, <2>4, <2>5, <2>6, <2>7
<1>10. ASSUME NEW d \in Nat, NEW p \in Problem, NEW i \in Nat
       PROVE  Loop(t, d, p, i)' <=>
                 \/ Loop(t, d, p, i) /\ d # D
                 \/ d = D /\ DQ!loop2(p, i) \in G
  <2>1. Loop(t, d, p, i)' <=> d < Depth(t)' /\ Deep(t, d)' = DQ!loop2(p, i)
    BY DEF Loop
  <2>2. CASE d < D
    <3>1. d < Depth(t)' /\ d < Depth(t) /\ d # D
        BY <2>2, <1>2, <1>3
    <3> QED BY <2>1, <2>2, <3>1, <1>5 DEF Loop
  <2>3. CASE d > D
    <3>1. ~(d < Depth(t)) /\ d # D
        BY <2>3, <1>3
    <3>2. ~Loop(t, d, p, i)
        BY <3>1 DEF Loop
    <3>3. ~Loop(t, d, p, i)'
        <4>1. SUFFICES ASSUME d < Depth(t)' PROVE Deep(t, d)' # DQ!loop2(p, i)
            BY <2>1
        <4>2. d = D + 1 /\ Depth(t)' = D + 2
            BY <4>1, <2>3, <1>2, <1>3
        <4>3. Depth(t)' # D /\ Depth(t)' # D + 1
            BY <4>2, <1>3
        <4>4. PICK f \in F : Deep(t, d)' = f
            BY <4>2, <4>3, <1>2
        <4> QED BY <4>4, <1>4, FrameFields DEF TopOp
    <3> QED BY <3>1, <3>2, <3>3
  <2>4. CASE d = D
    <3>1. CASE F = {} /\ G = {} /\ Depth(t)' = D
        <4>1. ~(d < Depth(t)')
            BY <2>4, <3>1, <1>3
        <4> QED BY <2>1, <2>4, <3>1, <4>1
    <3>2. CASE \E f \in F : (\A c : c = D => Deep(t, c)' = f) /\ G = {}
        <4>1. PICK f \in F : Deep(t, d)' = f
            BY <3>2, <2>4
        <4>2. f # DQ!loop2(p, i)
            BY <1>4, FrameFields DEF TopOp
        <4> QED BY <2>1, <2>4, <3>2, <4>1, <4>2
    <3>3. CASE \E g \in G : G = {g} /\ (\A c : c = D => Deep(t, c)' = g) /\ Depth(t)' \in {D + 1, D + 2}
        <4>1. d < Depth(t)'
            BY <2>4, <3>3, <1>3
        <4> QED BY <2>1, <2>4, <3>3, <4>1
    <3> QED BY <1>2, <3>1, <3>2, <3>3
  <2> QED BY <1>3, <2>2, <2>3, <2>4
<1>11. \A u \in SThread, op \in TopOp, p \in Problem :
          Does(u, op, p)' <=> IF u = t THEN \E f \in F : f.op = op /\ f.p = p
                              ELSE Does(u, op, p)
    BY <1>8, <1>9
<1>12. \A u \in SThread, d \in Nat, p \in Problem, i \in Nat :
          Loop(u, d, p, i)' <=>
              \/ Loop(u, d, p, i) /\ ~(u = t /\ d = D)
              \/ u = t /\ d = D /\ DQ!loop2(p, i) \in G
    BY <1>8, <1>10
<1> QED BY <1>7, <1>11, <1>12 DEF Replaces, D

\* A call in a thread that has none.
LEMMA ReplacedPush ==
    ASSUME Stacks, NEW t \in SThread, stack[t] = <<>>,
           NEW f \in DQ!FrameSet, f.op \in TopOp, stack' = [stack EXCEPT ![t] = <<f>>]
    PROVE  Replaces(t, {f}, {})
<1>1. <<f>> \in Seq(DQ!FrameSet) /\ Len(<<f>>) = 1 /\ <<f>> # <<>> /\ Head(<<f>>) = f
    OBVIOUS
<1>2. /\ stack' \in [SThread -> Seq(DQ!FrameSet)] /\ stack'[t] = <<f>>
      /\ \A u \in SThread : u # t => stack'[u] = stack[u]
    BY <1>1 DEF Stacks
<1>3. Depth(t)' = 1 /\ Depth(t) = 0 /\ \A d : d = 0 => Deep(t, d)' = f
    BY <1>1, <1>2, TopIs DEF Depth, Deep
<1>4. Stacks'
  <2>1. \A d \in Nat : ~(d + 1 < Depth(t)')
    BY <1>3
  <2>2. \A u \in SThread : u # t => \A d \in Nat : d + 1 < Depth(u)' => Deep(u, d)'.op = "loop2"
    BY <1>2 DEF Stacks, Depth, Deep
  <2> QED BY <1>2, <2>1, <2>2 DEF Stacks
<1>5. ASSUME NEW u \in SThread, u # t
      PROVE  /\ \A op, p : Does(u, op, p)' <=> Does(u, op, p)
             /\ \A d, p, i : Loop(u, d, p, i)' <=> Loop(u, d, p, i)
    BY <1>2, <1>5 DEF Does, DQ!Calls, DQ!Top, Loop, Depth, Deep
<1>6. \A op, p : Does(t, op, p)' <=> f.op = op /\ f.p = p
    BY <1>1, <1>2 DEF Does, DQ!Calls, DQ!Top
<1>7. ASSUME NEW d \in Nat, NEW p \in Problem, NEW i \in Nat
      PROVE  ~Loop(t, d, p, i) /\ ~Loop(t, d, p, i)' /\ d # Depth(t) - 1
  <2>1. d # Depth(t) - 1 /\ ~(d < Depth(t)) /\ (d < Depth(t)' => d = 0)
    BY <1>3
  <2>2. f # DQ!loop2(p, i)
    BY FrameFields DEF TopOp
  <2> QED BY <2>1, <2>2, <1>3 DEF Loop
<1> QED BY <1>4, <1>5, <1>6, <1>7 DEF Replaces

InStore(p) == \E i \in DOMAIN store : store[i] = p
Waits(p) == InStore(p) \/ \E t \in SThread : Does(t, "solve", p)
Unwritten(p) == {i \in DOMAIN Sub[p] : Sub[p][i] \notin cells}
Decrementing(p) == {t \in SThread : Does(t, "decget", p)}

DivideTypes ==
    /\ store \in Seq(Problem) /\ count \in [Problem -> Nat]
    /\ cells \subseteq Problem /\ freed \subseteq Problem /\ solved \subseteq Problem
    /\ Stacks

\* N is the set of the problems that no task and no call has come to.
Untouched(N) ==
    /\ N \subseteq Problem
    /\ Given = "none" => N = Problem
    /\ \A p \in N : /\ p \notin cells /\ p \notin solved /\ ~Waits(p)
                    /\ \A t \in SThread : ~Does(t, "decget", p)
                    /\ Children(p) \subseteq N

\* A problem waits once, before anything is done for it.
WaitsOnce(N) ==
    /\ \A p \in Problem : Waits(p) =>
          /\ p \notin solved /\ Children(p) \subseteq N
          /\ \A t \in SThread : ~Does(t, "decget", p)
    /\ \A i, j \in DOMAIN store : store[i] = store[j] => i = j
    /\ \A p \in Problem, t \in SThread : Does(t, "solve", p) => ~InStore(p)
    /\ \A p \in Problem, t, u \in SThread : Does(t, "solve", p) /\ Does(u, "solve", p) => t = u

\* A problem's subproblems are submitted in one loop.
Loops(N) ==
    /\ \A t \in SThread, d \in Nat, p \in Problem, i \in Nat : Loop(t, d, p, i) =>
          /\ p \notin N /\ ~Waits(p) /\ Len(Sub[p]) >= 2 /\ i \in 1..Len(Sub[p])
          /\ \A j \in i..Len(Sub[p]) : Sub[p][j] \in N
    /\ \A t, u \in SThread, d, e \in Nat, p \in Problem, i, j \in Nat :
          Loop(t, d, p, i) /\ Loop(u, e, p, j) => t = u /\ d = e

\* A solution is on its way once, after those of the subproblems.
SolutionOnce ==
    /\ \A p \in Problem, t \in SThread : Does(t, "k0", p) => p \in solved /\ p \notin cells
    /\ \A p \in Problem, t, u \in SThread : Does(t, "k0", p) /\ Does(u, "k0", p) => t = u
SolvedAfter == \A p \in solved : \A c \in Children(p) :
    /\ c \in solved /\ \A t \in SThread : ~Does(t, "k0", c)
    /\ Len(Sub[p]) >= 2 => c \in cells
DecgetBefore ==
    /\ \A p \in Problem, t \in SThread :
          Does(t, "decget", p) => Len(Sub[p]) >= 2 /\ p \notin solved
    /\ cells \subseteq solved /\ freed \subseteq solved
Solutions == SolutionOnce /\ SolvedAfter /\ DecgetBefore

\* The counter of a problem counts the cells that are not written, and the
\* calls that are about to decrement it.
Counters(N) == \A p \in Problem :
    Len(Sub[p]) >= 2 /\ p \notin N /\ ~Waits(p) /\ p \notin solved =>
        count[p] = Cardinality(Unwritten(p)) + Cardinality(Decrementing(p))

\* The ticket is put when the root is solved, once.
RootTicket ==
    /\ Given = "none" => /\ store = <<>> /\ solved = {}
                         /\ \A t \in SThread : stack[t] = <<>>
    /\ \A p \in Problem, t \in SThread : Does(t, "put", p) => Root \in cells /\ Given # "spent"
    /\ \A p, q \in Problem, t, u \in SThread : Does(t, "put", p) /\ Does(u, "put", q) => t = u
    /\ Given \in {"counted", "unlocking", "spent"} => Root \in cells

Solves(N) == Untouched(N) /\ WaitsOnce(N) /\ Loops(N) /\ Counters(N)
DivideInv ==
    /\ DivideTypes /\ Solutions /\ RootTicket /\ OneTicket
    /\ \E N \in SUBSET Problem : Solves(N)

\* The tree of the problems.
LEMMA TreeFacts ==
    /\ \A p \in Problem :
          /\ Len(Sub[p]) \in Nat /\ DOMAIN Sub[p] = 1..Len(Sub[p])
          /\ \A i \in 1..Len(Sub[p]) : Sub[p][i] \in Problem /\ Sub[p][i] \in Children(p)
          /\ \A i, j \in 1..Len(Sub[p]) : Sub[p][i] = Sub[p][j] => i = j
          /\ Children(p) \subseteq Problem /\ Root \notin Children(p)
          /\ \A c \in Children(p) : \E i \in 1..Len(Sub[p]) : c = Sub[p][i]
          /\ Len(Sub[p]) = 0 => Children(p) = {}
          /\ p \in Base => Sub[p] = <<>>
          /\ Sub[p] = <<>> => Len(Sub[p]) = 0
    /\ \A p, q \in Problem : \A c \in Children(p) : c \in Children(q) => p = q
    /\ \A p \in Problem \ {Root} : DQ!parent(p) \in Problem /\ p \in Children(DQ!parent(p))
    /\ Root \in Problem
    /\ \A S \in SUBSET Problem : Root \in S /\ (\A p \in S : Children(p) \subseteq S) => S = Problem
<1>1. /\ Sub \in [Problem -> Seq(Problem)] /\ Root \in Problem /\ DQ!Tree
      /\ \A p \in Base : Sub[p] = <<>>
    BY DivideConquerParAssumption DEF DQ!DivideConquerParAssumption
<1>2. ASSUME NEW p \in Problem
      PROVE  /\ Len(Sub[p]) \in Nat /\ DOMAIN Sub[p] = 1..Len(Sub[p])
             /\ \A i \in 1..Len(Sub[p]) : Sub[p][i] \in Problem
    BY <1>1, <1>2, LenProperties, ElementOfSeq
<1>3. ASSUME NEW p \in Problem
      PROVE  /\ \A i \in 1..Len(Sub[p]) : Sub[p][i] \in Problem /\ Sub[p][i] \in Children(p)
             /\ \A i, j \in 1..Len(Sub[p]) : Sub[p][i] = Sub[p][j] => i = j
             /\ Children(p) \subseteq Problem /\ Root \notin Children(p)
             /\ \A c \in Children(p) : \E i \in 1..Len(Sub[p]) : c = Sub[p][i]
             /\ Len(Sub[p]) = 0 => Children(p) = {}
  <2>1. /\ \A i \in 1..Len(Sub[p]) : Sub[p][i] \in Problem /\ Sub[p][i] \in Children(p)
        /\ Children(p) \subseteq Problem
        /\ \A c \in Children(p) : \E i \in 1..Len(Sub[p]) : c = Sub[p][i]
    BY <1>2 DEF Children, DQ!Subproblems
  <2>2. Root \notin Children(p) /\ \A i, j \in 1..Len(Sub[p]) : Sub[p][i] = Sub[p][j] => i = j
    BY <1>1, <1>2 DEF DQ!Tree, Children
  <2> QED BY <2>1, <2>2
<1>4. ASSUME NEW p \in Problem, NEW q \in Problem, NEW c \in Children(p), c \in Children(q)
      PROVE  p = q
  <2>1. PICK i \in DOMAIN Sub[p] : c = Sub[p][i]
    BY <1>2, <1>3
  <2>2. PICK j \in DOMAIN Sub[q] : c = Sub[q][j]
    BY <1>2, <1>3, <1>4
  <2> QED BY <1>1, <2>1, <2>2 DEF DQ!Tree
<1>5. \A S \in SUBSET Problem : Root \in S /\ (\A p \in S : Children(p) \subseteq S) => S = Problem
    BY <1>1 DEF DQ!Tree, Children
<1>6. \A p \in Problem \ {Root} : \E q \in Problem : p \in Children(q)
  <2> DEFINE S == {Root} \cup {p \in Problem : \E q \in Problem : p \in Children(q)}
  <2>1. S \in SUBSET Problem /\ Root \in S /\ \A p \in S : Children(p) \subseteq S
    BY <1>1, <1>3
  <2>2. S = Problem
    <3> HIDE DEF S
    <3> QED BY <2>1, <1>5
  <2> QED BY <2>2
<1>7. \A p \in Problem \ {Root} : DQ!parent(p) \in Problem /\ p \in Children(DQ!parent(p))
    BY <1>6 DEF DQ!parent, Children
<1>8. \A p \in Problem : /\ p \in Base => Sub[p] = <<>>
                         /\ Sub[p] = <<>> => Len(Sub[p]) = 0
    BY <1>1
<1> QED BY <1>1, <1>2, <1>3, <1>4, <1>5, <1>7, <1>8

\* The innermost call of a thread.
LEMMA Innermost ==
    ASSUME Stacks, NEW t \in SThread, NEW op, DQ!Calls(t, op)
    PROVE  /\ stack[t] # <<>> /\ DQ!Top(t) \in Problem /\ Does(t, op, DQ!Top(t))
           /\ \A o, x : Does(t, o, x) => o = op /\ x = DQ!Top(t)
           /\ Head(stack[t]).i \in Nat /\ Depth(t) - 1 \in Nat
           /\ op = "loop2" => Loop(t, Depth(t) - 1, DQ!Top(t), Head(stack[t]).i)
<1>1. /\ stack[t] # <<>> /\ Head(stack[t]).op = op /\ Head(stack[t]) \in DQ!FrameSet
      /\ Head(stack[t]) = Deep(t, Depth(t) - 1) /\ Depth(t) - 1 \in Nat
      /\ Depth(t) - 1 < Depth(t)
    BY TopIs DEF DQ!Calls
<1>2. DQ!Top(t) \in Problem /\ Head(stack[t]).i \in Nat
    BY <1>1, FrameFields DEF DQ!Top
<1>3. \A o, x : Does(t, o, x) <=> o = op /\ x = DQ!Top(t)
    BY <1>1 DEF Does, DQ!Calls, DQ!Top
<1>4. op = "loop2" => Loop(t, Depth(t) - 1, DQ!Top(t), Head(stack[t]).i)
    BY <1>1, LoopFrame DEF Loop, DQ!Top
<1> QED BY <1>1, <1>2, <1>3, <1>4

\* What waits and what is known of the ticket are kept with the rest of the
\* caller's variables.
LEMMA TicketKept ==
    ASSUME OneTicket, UNCHANGED DQ!waiter
    PROVE  OneTicket' /\ Given' = Given
<1>1. UNCHANGED <<n, mtx, owner, ticket, round>>
    BY DEF DQ!waiter
<1> QED BY <1>1 DEF OneTicket, Given

\* Steps that begin no loop.
LEMMA LoopsKept ==
    ASSUME NEW N, Loops(N),
           \A u \in SThread, d \in Nat, x \in Problem, i \in Nat :
              Loop(u, d, x, i)' => Loop(u, d, x, i),
           \A x \in Problem : Waits(x)' => Waits(x)
    PROVE  Loops(N)'
<1>1. \A t \in SThread, d \in Nat, p \in Problem, i \in Nat : Loop(t, d, p, i)' =>
          /\ p \notin N /\ ~Waits(p)' /\ Len(Sub[p]) >= 2 /\ i \in 1..Len(Sub[p])
          /\ \A j \in i..Len(Sub[p]) : Sub[p][j] \in N
    BY DEF Loops
<1>2. \A t, u \in SThread, d, e \in Nat, p \in Problem, i, j \in Nat :
          Loop(t, d, p, i)' /\ Loop(u, e, p, j)' => t = u /\ d = e
    BY DEF Loops
<1> QED BY <1>1, <1>2 DEF Loops

\* A problem that is not divided is solved.
LEMMA SolveBaseStep ==
    ASSUME DivideInv, NEW t \in SThread, DQ!SolveBase(t)
    PROVE  DivideInv'
<1>1. PICK N \in SUBSET Problem : Solves(N)
    BY DEF DivideInv
<1>2. PICK p : p = DQ!Top(t)
    OBVIOUS
<1>3. Stacks /\ DQ!Calls(t, "solve")
    BY DEF DivideInv, DivideTypes, DQ!SolveBase
<1>4. /\ p \in Problem /\ stack[t] # <<>> /\ Does(t, "solve", p)
      /\ \A o, x : Does(t, o, x) => o = "solve" /\ x = p
    BY <1>2, <1>3, Innermost
<1>5. /\ Children(p) = {} /\ Len(Sub[p]) = 0
      /\ DQ!Becomes(t, <<DQ!k0(p)>>) /\ solved' = solved \cup {p}
      /\ UNCHANGED <<store, cells, count, freed>> /\ UNCHANGED DQ!waiter
    BY <1>2, <1>4, TreeFacts DEF DQ!SolveBase
<1>6. Replaces(t, {DQ!k0(p)}, {})
  <2>1. Fits(<<DQ!k0(p)>>, {DQ!k0(p)}, {})
    BY <1>4, FrameFields DEF Fits, TopOp
  <2> QED BY <1>3, <1>4, <1>5, <2>1, ReplacedBecomes
<1>7. /\ \A u \in SThread, x \in Problem :
            /\ Does(u, "solve", x)' <=> u # t /\ Does(u, "solve", x)
            /\ Does(u, "k0", x)' <=> Does(u, "k0", x) \/ (u = t /\ x = p)
            /\ Does(u, "decget", x)' <=> Does(u, "decget", x)
            /\ Does(u, "put", x)' <=> Does(u, "put", x)
      /\ \A u \in SThread, d \in Nat, x \in Problem, i \in Nat :
            Loop(u, d, x, i)' => Loop(u, d, x, i)
      /\ Stacks'
    BY <1>4, <1>6, FrameFields DEF Replaces, TopOp
<1>8. \A x \in Problem : InStore(x)' <=> InStore(x)
    BY <1>5 DEF InStore
<1>9. /\ Waits(p) /\ p \notin solved /\ p \notin cells
      /\ \A x \in Problem : Waits(x)' <=> Waits(x) /\ x # p
    BY <1>1, <1>4, <1>7, <1>8 DEF Solves, WaitsOnce, Waits, DivideInv, Solutions, DecgetBefore
<1>10. DivideTypes'
    BY <1>4, <1>5, <1>7 DEF DivideInv, DivideTypes
<1>11. OneTicket' /\ Given' = Given
    BY <1>5, TicketKept DEF DivideInv
<1>12. Untouched(N)'
    BY <1>1, <1>5, <1>7, <1>9, <1>11 DEF Solves, Untouched
<1>13. WaitsOnce(N)'
    BY <1>1, <1>5, <1>7, <1>8, <1>9 DEF Solves, WaitsOnce
<1>14. Loops(N)'
    BY <1>1, <1>7, <1>9, LoopsKept DEF Solves
<1>15. Solutions'
  <2>1. SolutionOnce'
    BY <1>5, <1>7, <1>9 DEF DivideInv, Solutions, SolutionOnce
  <2>2. SolvedAfter'
    BY <1>4, <1>5, <1>7, <1>9, TreeFacts DEF DivideInv, DivideTypes, Solutions, SolvedAfter
  <2>3. DecgetBefore'
    BY <1>1, <1>5, <1>7, <1>9 DEF DivideInv, Solutions, DecgetBefore, Solves, WaitsOnce
  <2> QED BY <2>1, <2>2, <2>3 DEF Solutions
<1>16. Counters(N)'
  <2>1. \A x \in Problem : Unwritten(x)' = Unwritten(x) /\ Decrementing(x)' = Decrementing(x)
    BY <1>5, <1>7 DEF Unwritten, Decrementing
  <2> QED BY <1>1, <1>5, <1>9, <2>1 DEF Solves, Counters
<1>17. RootTicket'
    BY <1>4, <1>5, <1>7, <1>11 DEF DivideInv, RootTicket
<1> QED BY <1>10, <1>11, <1>12, <1>13, <1>14, <1>15, <1>16, <1>17 DEF DivideInv, Solves

\* A subproblem begins to wait, and its problem waits no more.
LEMMA ChildWaits ==
    ASSUME DivideInv, NEW N \in SUBSET Problem, Solves(N),
           NEW p \in Problem, NEW c \in Children(p), c \in N, p \notin N,
           Given # "none",
           UNCHANGED <<cells, count, freed, solved>>, UNCHANGED DQ!waiter,
           \A u \in SThread, x \in Problem :
              /\ Does(u, "k0", x)' <=> Does(u, "k0", x)
              /\ Does(u, "decget", x)' <=> Does(u, "decget", x)
              /\ Does(u, "put", x)' <=> Does(u, "put", x),
           ~Waits(p)', Waits(c)',
           \A x \in Problem : Waits(x)' => Waits(x) \/ x = c,
           \A x \in Problem : Waits(x) => Waits(x)' \/ Len(Sub[x]) < 2
    PROVE  /\ Untouched(N \ {c})' /\ Counters(N \ {c})' /\ Solutions' /\ RootTicket'
           /\ OneTicket'
           /\ \A x \in Problem : Waits(x)' =>
                 /\ x \notin solved' /\ Children(x) \subseteq N \ {c}
                 /\ \A u \in SThread : ~Does(u, "decget", x)'
<1>1. OneTicket' /\ Given' = Given
    BY TicketKept DEF DivideInv
<1>2. \A x \in Problem : c \in Children(x) => x = p
    BY TreeFacts
<1>3. c \in Problem /\ ~Waits(c)
    BY TreeFacts DEF Solves, Untouched
<1>4. Untouched(N \ {c})'
    BY <1>1, <1>2, <1>3 DEF Solves, Untouched
<1>5. ASSUME NEW x \in Problem, Waits(x)'
      PROVE  /\ x \notin solved' /\ Children(x) \subseteq N \ {c}
             /\ \A u \in SThread : ~Does(u, "decget", x)'
  <2>1. CASE x = c
    <3>1. c \notin solved /\ Children(c) \subseteq N /\ \A u \in SThread : ~Does(u, "decget", c)
        BY DEF Solves, Untouched
    <3> QED BY <2>1, <3>1, <1>2
  <2>2. CASE x # c
    <3>1. Waits(x) /\ x # p
        BY <1>5, <2>2
    <3> QED BY <3>1, <1>2 DEF Solves, WaitsOnce
  <2> QED BY <2>1, <2>2
<1>6. \A x \in Problem : Unwritten(x)' = Unwritten(x) /\ Decrementing(x)' = Decrementing(x)
    BY DEF Unwritten, Decrementing
<1>7. Counters(N \ {c})'
  <2>1. \A x \in Problem :
           Len(Sub[x]) >= 2 /\ x \notin N \ {c} /\ ~Waits(x)' => x \notin N /\ ~Waits(x)
    <3>1. \A x \in Problem : Len(Sub[x]) \in Nat
        BY TreeFacts
    <3> QED BY <3>1
  <2> QED BY <1>6, <2>1 DEF Solves, Counters
<1>8. Solutions'
  <2>1. SolutionOnce'
    BY DEF DivideInv, Solutions, SolutionOnce
  <2>2. SolvedAfter'
    BY TreeFacts DEF DivideInv, DivideTypes, Solutions, SolvedAfter
  <2>3. DecgetBefore'
    BY DEF DivideInv, Solutions, DecgetBefore
  <2> QED BY <2>1, <2>2, <2>3 DEF Solutions
<1>9. RootTicket'
    BY <1>1 DEF DivideInv, RootTicket
<1> QED BY <1>1, <1>4, <1>5, <1>7, <1>8, <1>9

\* Something is on a stack only after the ticket was given out.
LEMMA StackGiven ==
    ASSUME DivideInv, NEW t \in SThread, stack[t] # <<>>
    PROVE  Given # "none"
BY DEF DivideInv, RootTicket

\* A problem with one subproblem is solved through that.
LEMMA SolveOneStep ==
    ASSUME DivideInv, NEW t \in SThread, DQ!SolveOne(t)
    PROVE  DivideInv'
<1>1. PICK N \in SUBSET Problem : Solves(N)
    BY DEF DivideInv
<1>2. PICK p : p = DQ!Top(t)
    OBVIOUS
<1>3. PICK c : c = Sub[p][1]
    OBVIOUS
<1>4. Stacks /\ DQ!Calls(t, "solve")
    BY DEF DivideInv, DivideTypes, DQ!SolveOne
<1>5. /\ p \in Problem /\ stack[t] # <<>> /\ Does(t, "solve", p)
      /\ \A o, x : Does(t, o, x) => o = "solve" /\ x = p
    BY <1>2, <1>4, Innermost
<1>6. /\ Len(Sub[p]) = 1 /\ DQ!Becomes(t, <<DQ!solve(c)>>)
      /\ UNCHANGED <<store, cells, count, freed, solved>> /\ UNCHANGED DQ!waiter
    BY <1>2, <1>3 DEF DQ!SolveOne
<1>7. c \in Children(p) /\ c \in Problem
    BY <1>3, <1>5, <1>6, TreeFacts
<1>8. Waits(p) /\ c \in N /\ p \notin N /\ Given # "none"
  <2>1. Waits(p)
    BY <1>5 DEF Waits
  <2> QED BY <1>1, <1>5, <1>7, <2>1, StackGiven DEF Solves, WaitsOnce, Untouched
<1>9. Replaces(t, {DQ!solve(c)}, {})
  <2>1. Fits(<<DQ!solve(c)>>, {DQ!solve(c)}, {})
    BY <1>7, FrameFields DEF Fits, TopOp
  <2> QED BY <1>4, <1>5, <1>6, <2>1, ReplacedBecomes
<1>10. /\ \A u \in SThread, x \in Problem :
             /\ Does(u, "solve", x)' <=> IF u = t THEN x = c ELSE Does(u, "solve", x)
             /\ Does(u, "k0", x)' <=> Does(u, "k0", x)
             /\ Does(u, "decget", x)' <=> Does(u, "decget", x)
             /\ Does(u, "put", x)' <=> Does(u, "put", x)
       /\ \A u \in SThread, d \in Nat, x \in Problem, i \in Nat :
             Loop(u, d, x, i)' => Loop(u, d, x, i)
       /\ Stacks'
    BY <1>5, <1>7, <1>9, FrameFields DEF Replaces, TopOp
<1>11. \A x \in Problem : InStore(x)' <=> InStore(x)
    BY <1>6 DEF InStore
<1>12. p # c /\ \A x \in Problem : Waits(x)' <=> (Waits(x) /\ x # p) \/ x = c
    BY <1>1, <1>5, <1>8, <1>10, <1>11 DEF Solves, WaitsOnce, Waits
<1>13. \A x \in Problem : Waits(x) => Waits(x)' \/ Len(Sub[x]) < 2
  <2>1. Len(Sub[p]) < 2
    BY <1>6
  <2> QED BY <2>1, <1>12
<1>14. /\ Untouched(N \ {c})' /\ Counters(N \ {c})' /\ Solutions' /\ RootTicket'
       /\ OneTicket'
       /\ \A x \in Problem : Waits(x)' =>
             /\ x \notin solved' /\ Children(x) \subseteq N \ {c}
             /\ \A u \in SThread : ~Does(u, "decget", x)'
    BY <1>1, <1>5, <1>6, <1>7, <1>8, <1>10, <1>12, <1>13, ChildWaits
<1>15. DivideTypes'
  <2>1. DivideTypes
    BY DEF DivideInv
  <2>2. UNCHANGED <<store, cells, count, freed, solved>>
    BY <1>6
  <2>3. Stacks'
    BY <1>10
  <2> QED BY <2>1, <2>2, <2>3 DEF DivideTypes
<1>16. WaitsOnce(N \ {c})'
  <2>1. ~Waits(c)
    BY <1>1, <1>8 DEF Solves, Untouched
  <2>2. ~InStore(c) /\ \A u \in SThread : ~Does(u, "solve", c)
    BY <2>1 DEF Waits
  <2>3. \A x \in Problem, u \in SThread : Does(u, "solve", x)' => ~InStore(x)'
    BY <1>1, <1>10, <1>11, <2>2 DEF Solves, WaitsOnce
  <2>4. \A x \in Problem, u, v \in SThread : Does(u, "solve", x)' /\ Does(v, "solve", x)' => u = v
    BY <1>1, <1>10, <2>2 DEF Solves, WaitsOnce
  <2>5. \A i, j \in DOMAIN store' : store'[i] = store'[j] => i = j
    BY <1>1, <1>6 DEF Solves, WaitsOnce
  <2> QED BY <1>14, <2>3, <2>4, <2>5 DEF WaitsOnce
<1>17. Loops(N \ {c})'
  <2>1. \A u \in SThread, d \in Nat, x \in Problem, i \in Nat : Loop(u, d, x, i)' =>
           /\ x \notin N \ {c} /\ ~Waits(x)' /\ Len(Sub[x]) >= 2 /\ i \in 1..Len(Sub[x])
           /\ \A j \in i..Len(Sub[x]) : Sub[x][j] \in N \ {c}
    <3>1. SUFFICES ASSUME NEW u \in SThread, NEW d \in Nat, NEW x \in Problem, NEW i \in Nat,
                          Loop(u, d, x, i)
                   PROVE  /\ x \notin N \ {c} /\ ~Waits(x)' /\ Len(Sub[x]) >= 2 /\ i \in 1..Len(Sub[x])
                          /\ \A j \in i..Len(Sub[x]) : Sub[x][j] \in N \ {c}
        BY <1>10
    <3>2. /\ x \notin N /\ ~Waits(x) /\ Len(Sub[x]) >= 2 /\ i \in 1..Len(Sub[x])
          /\ \A j \in i..Len(Sub[x]) : Sub[x][j] \in N
        BY <1>1, <3>1 DEF Solves, Loops
    <3>3. x # p /\ ~Waits(x)'
        BY <3>2, <1>8, <1>12
    <3>4. c \notin Children(x)
        BY <1>5, <1>7, <3>3, TreeFacts
    <3>5. \A j \in i..Len(Sub[x]) : j \in 1..Len(Sub[x])
        BY <3>2, TreeFacts
    <3>6. \A j \in i..Len(Sub[x]) : Sub[x][j] \in Children(x)
        BY <3>5, TreeFacts
    <3>7. \A j \in i..Len(Sub[x]) : Sub[x][j] # c
        BY <3>4, <3>6
    <3> QED BY <3>2, <3>3, <3>7
  <2>2. \A u, v \in SThread, d, e \in Nat, x \in Problem, i, j \in Nat :
           Loop(u, d, x, i)' /\ Loop(v, e, x, j)' => u = v /\ d = e
    BY <1>1, <1>10 DEF Solves, Loops
  <2> QED BY <2>1, <2>2 DEF Loops
<1> QED BY <1>8, <1>10, <1>14, <1>15, <1>16, <1>17 DEF DivideInv, Solves

\* The next subproblem of a loop begins to wait.
LEMMA LoopContinues ==
    ASSUME NEW N \in SUBSET Problem, Solves(N),
           NEW t \in SThread, NEW d0 \in Nat, NEW p \in Problem, NEW i0 \in Nat,
           Loop(t, d0, p, i0), NEW c, c = Sub[p][i0],
           \A u \in SThread, d \in Nat, x \in Problem, i \in Nat : Loop(u, d, x, i)' =>
              \/ Loop(u, d, x, i) /\ ~(u = t /\ d = d0)
              \/ u = t /\ d = d0 /\ x = p /\ i = i0 + 1 /\ i0 < Len(Sub[p]),
           \A x \in Problem : Waits(x)' => Waits(x) \/ x = c
    PROVE  Loops(N \ {c})'
<1>1. /\ p \notin N /\ ~Waits(p) /\ Len(Sub[p]) >= 2 /\ i0 \in 1..Len(Sub[p])
      /\ \A j \in i0..Len(Sub[p]) : Sub[p][j] \in N
    BY DEF Solves, Loops
<1>2. Len(Sub[p]) \in Nat /\ i0 \in i0..Len(Sub[p])
    BY <1>1, TreeFacts
<1>3. c \in N /\ c # p /\ c \in Children(p)
    BY <1>1, <1>2, TreeFacts
<1>4. ASSUME NEW u \in SThread, NEW d \in Nat, NEW x \in Problem, NEW i \in Nat,
             Loop(u, d, x, i)'
      PROVE  /\ x \notin N \ {c} /\ ~Waits(x)' /\ Len(Sub[x]) >= 2 /\ i \in 1..Len(Sub[x])
             /\ \A j \in i..Len(Sub[x]) : Sub[x][j] \in N \ {c}
  <2>1. CASE Loop(u, d, x, i) /\ ~(u = t /\ d = d0)
    <3>1. x # p
        BY <2>1 DEF Solves, Loops
    <3>2. /\ x \notin N /\ ~Waits(x) /\ Len(Sub[x]) >= 2 /\ i \in 1..Len(Sub[x])
          /\ \A j \in i..Len(Sub[x]) : Sub[x][j] \in N
        BY <2>1 DEF Solves, Loops
    <3>3. \A j \in i..Len(Sub[x]) : Sub[x][j] # c
        BY <1>3, <3>1, <3>2, TreeFacts
    <3>4. x # c
        BY <1>3, <3>2
    <3> QED BY <3>2, <3>3, <3>4
  <2>2. CASE u = t /\ d = d0 /\ x = p /\ i = i0 + 1 /\ i0 < Len(Sub[p])
    <3>1. i \in 1..Len(Sub[x]) /\ \A j \in i..Len(Sub[p]) : j \in i0..Len(Sub[p]) /\ j # i0
        BY <1>1, <1>2, <2>2
    <3>2. \A j \in i..Len(Sub[p]) : Sub[p][j] \in N
        BY <1>1, <3>1
    <3>3. \A j \in i..Len(Sub[p]) : j \in 1..Len(Sub[p])
        BY <1>1, <1>2, <3>1
    <3>4. \A j \in i..Len(Sub[p]) : Sub[p][j] # c
        BY <1>1, <3>1, <3>3, TreeFacts
    <3> QED BY <1>1, <1>3, <2>2, <3>1, <3>2, <3>4
  <2> QED BY <1>4, <2>1, <2>2
<1>5. ASSUME NEW u \in SThread, NEW v \in SThread, NEW d \in Nat, NEW e \in Nat,
             NEW x \in Problem, NEW i \in Nat, NEW j \in Nat,
             Loop(u, d, x, i)', Loop(v, e, x, j)'
      PROVE  u = v /\ d = e
  <2>1. \A w \in SThread, k \in Nat, y \in Problem, l \in Nat :
            Loop(w, k, y, l)' => \E m \in Nat : Loop(w, k, y, m)
    <3>1. \A w \in SThread, k \in Nat, y \in Problem, l \in Nat :
            Loop(w, k, y, l)' => Loop(w, k, y, l) \/ Loop(w, k, y, i0)
        OBVIOUS
    <3> QED BY <3>1
  <2>2. PICK i1 \in Nat : Loop(u, d, x, i1)
    BY <1>5, <2>1
  <2>3. PICK j1 \in Nat : Loop(v, e, x, j1)
    BY <1>5, <2>1
  <2> QED BY <2>2, <2>3 DEF Solves, Loops
<1> QED BY <1>4, <1>5 DEF Loops

\* A problem is put at one of the ends of the store.
LEMMA StoreGrows ==
    ASSUME store \in Seq(Problem), NEW c \in Problem,
           store' = <<c>> \o store \/ store' = Append(store, c)
    PROVE  /\ store' \in Seq(Problem)
           /\ \A x : InStore(x)' <=> InStore(x) \/ x = c
           /\ ~InStore(c) /\ (\A i, j \in DOMAIN store : store[i] = store[j] => i = j) =>
                 \A i, j \in DOMAIN store' : store'[i] = store'[j] => i = j
<1>1. PICK L : L = Len(store)
    OBVIOUS
<1>2. L \in Nat /\ DOMAIN store = 1..L
    BY <1>1, LenProperties
<1>3. CASE store' = <<c>> \o store
  <2>1. <<c>> \in Seq(Problem) /\ Len(<<c>>) = 1 /\ <<c>>[1] = c
    OBVIOUS
  <2>2. PICK s : s \in Seq(Problem) /\ Len(s) = 1 /\ s[1] = c /\ store' = s \o store
    BY <1>3, <2>1
  <2>3. /\ store' \in Seq(Problem) /\ Len(store') = L + 1
        /\ \A i \in 1..L + 1 : store'[i] = IF i <= 1 THEN s[i] ELSE store[i - 1]
    BY <1>1, <1>2, <2>2, ConcatProperties
  <2>4. /\ DOMAIN store' = 1..L + 1 /\ store'[1] = c
        /\ \A i \in 1..L : store'[i + 1] = store[i]
    <3>1. \A i \in 1..L : i + 1 \in 1..L + 1 /\ ~(i + 1 <= 1) /\ (i + 1) - 1 = i
        BY <1>2
    <3> QED BY <1>2, <2>2, <2>3, <3>1, LenProperties
  <2>5. \A i \in 1..L + 1 : i = 1 \/ \E j \in 1..L : i = j + 1
    <3>1. \A i \in 1..L + 1 : i # 1 => i - 1 \in 1..L /\ i = (i - 1) + 1
        BY <1>2
    <3> QED BY <3>1
  <2>6. \A x : InStore(x)' <=> InStore(x) \/ x = c
    <3>1. ASSUME NEW x, InStore(x)' PROVE InStore(x) \/ x = c
        <4>1. PICK i \in 1..L + 1 : store'[i] = x
            BY <3>1, <2>4 DEF InStore
        <4> QED BY <4>1, <2>4, <2>5, <1>2 DEF InStore
    <3>2. ASSUME NEW x, InStore(x) PROVE InStore(x)'
        <4>1. PICK i \in 1..L : store[i] = x
            BY <3>2, <1>2 DEF InStore
        <4>2. i + 1 \in 1..L + 1
            BY <1>2
        <4> QED BY <4>1, <4>2, <2>4 DEF InStore
    <3>3. InStore(c)'
        <4>1. 1 \in 1..L + 1
            BY <1>2
        <4> QED BY <4>1, <2>4 DEF InStore
    <3> QED BY <3>1, <3>2, <3>3
  <2>7. ASSUME ~InStore(c), \A i, j \in DOMAIN store : store[i] = store[j] => i = j
        PROVE  \A i, j \in DOMAIN store' : store'[i] = store'[j] => i = j
    <3>1. \A i \in 1..L : store[i] # c
        BY <2>7, <1>2 DEF InStore
    <3>2. \A i, j \in 1..L : store[i] = store[j] => i = j
        BY <2>7, <1>2
    <3> QED BY <3>1, <3>2, <2>4, <2>5
  <2> QED BY <2>3, <2>6, <2>7
<1>4. CASE store' = Append(store, c)
  <2>1. /\ store' \in Seq(Problem) /\ Len(store') = L + 1
        /\ \A i \in 1..L : store'[i] = store[i]
        /\ store'[L + 1] = c
    BY <1>1, <1>4, AppendProperties
  <2>2. DOMAIN store' = 1..L + 1
    BY <1>2, <2>1, LenProperties
  <2>3. \A i \in 1..L + 1 : i = L + 1 \/ i \in 1..L
    BY <1>2
  <2>4. (\A i \in 1..L : i \in 1..L + 1) /\ L + 1 \in 1..L + 1
    BY <1>2
  <2>5. \A x : InStore(x)' <=> InStore(x) \/ x = c
    <3>1. \A x : InStore(x)' <=> \E i \in 1..L + 1 : store'[i] = x
        BY <2>2 DEF InStore
    <3>2. \A x : InStore(x) <=> \E i \in 1..L : store[i] = x
        BY <1>2 DEF InStore
    <3> QED BY <2>1, <2>3, <2>4, <3>1, <3>2
  <2>6. ASSUME ~InStore(c), \A i, j \in DOMAIN store : store[i] = store[j] => i = j
        PROVE  \A i, j \in DOMAIN store' : store'[i] = store'[j] => i = j
    <3>1. \A i \in 1..L : store[i] # c
        BY <2>6, <1>2 DEF InStore
    <3>2. \A i, j \in 1..L : store[i] = store[j] => i = j
        BY <2>6, <1>2
    <3> QED BY <3>1, <3>2, <2>1, <2>2, <2>3
  <2> QED BY <2>1, <2>5, <2>6
<1> QED BY <1>3, <1>4

\* Submit a subproblem, wherever it is put in the store.
Submits(t) ==
    /\ DQ!Calls(t, "loop2")
    /\ store' = <<DQ!Current(t)>> \o store \/ store' = Append(store, DQ!Current(t))
    /\ DQ!Becomes(t, DQ!Rest(t))
    /\ UNCHANGED <<cells, count, freed, solved>> /\ UNCHANGED DQ!waiter

\* The loop goes on, or ends, with the subproblem in the store.
LEMMA SubmitStep ==
    ASSUME DivideInv, NEW t \in SThread, Submits(t)
    PROVE  DivideInv'
<1>1. PICK N \in SUBSET Problem : Solves(N)
    BY DEF DivideInv
<1>2. PICK p, i0, d0 : p = DQ!Top(t) /\ i0 = Head(stack[t]).i /\ d0 = Depth(t) - 1
    OBVIOUS
<1>3. PICK c : c = Sub[p][i0]
    OBVIOUS
<1>4. Stacks /\ DQ!Calls(t, "loop2")
    BY DEF DivideInv, DivideTypes, Submits
<1>5. /\ p \in Problem /\ stack[t] # <<>> /\ i0 \in Nat /\ d0 \in Nat
      /\ Loop(t, d0, p, i0)
      /\ \A o, x : Does(t, o, x) => o = "loop2" /\ x = p
    BY <1>2, <1>4, Innermost
<1>6. /\ p \notin N /\ ~Waits(p) /\ Len(Sub[p]) >= 2 /\ i0 \in 1..Len(Sub[p])
      /\ \A j \in i0..Len(Sub[p]) : Sub[p][j] \in N
    BY <1>1, <1>5 DEF Solves, Loops
<1>7. PICK fs : fs = IF i0 < Len(Sub[p]) THEN <<DQ!loop2(p, i0 + 1)>> ELSE <<>>
    OBVIOUS
<1>8. PICK G : G = IF i0 < Len(Sub[p]) THEN {DQ!loop2(p, i0 + 1)} ELSE {}
    OBVIOUS
<1>9. /\ store' = <<c>> \o store \/ store' = Append(store, c)
      /\ DQ!Becomes(t, fs)
      /\ UNCHANGED <<cells, count, freed, solved>> /\ UNCHANGED DQ!waiter
  <2>1. DQ!Current(t) = c
    BY <1>2, <1>3 DEF DQ!Current, DQ!Top
  <2>2. DQ!Rest(t) = fs
    BY <1>2, <1>7 DEF DQ!Rest, DQ!Top
  <2> QED BY <2>1, <2>2 DEF Submits
<1>10. c \in Children(p) /\ c \in Problem /\ c \in N /\ Given # "none" /\ i0 + 1 \in Nat
  <2>1. Len(Sub[p]) \in Nat /\ i0 \in i0..Len(Sub[p])
    BY <1>5, <1>6, TreeFacts
  <2> QED BY <1>3, <1>5, <1>6, <2>1, TreeFacts, StackGiven
<1>11. Replaces(t, {}, G)
  <2>1. Fits(fs, {}, G)
    BY <1>5, <1>7, <1>8, <1>10, FrameFields DEF Fits
  <2> QED BY <1>4, <1>5, <1>9, <2>1, ReplacedBecomes
<1>12. \A x \in Problem, i \in Nat : DQ!loop2(x, i) \in G => x = p /\ i = i0 + 1 /\ i0 < Len(Sub[p])
    BY <1>5, <1>8, <1>10, FrameFields
<1>13. /\ \A u \in SThread, x \in Problem :
            /\ Does(u, "solve", x)' <=> Does(u, "solve", x)
            /\ Does(u, "k0", x)' <=> Does(u, "k0", x)
            /\ Does(u, "decget", x)' <=> Does(u, "decget", x)
            /\ Does(u, "put", x)' <=> Does(u, "put", x)
       /\ \A u \in SThread, d \in Nat, x \in Problem, i \in Nat : Loop(u, d, x, i)' =>
              \/ Loop(u, d, x, i) /\ ~(u = t /\ d = d0)
              \/ u = t /\ d = d0 /\ x = p /\ i = i0 + 1 /\ i0 < Len(Sub[p])
       /\ Stacks'
    BY <1>2, <1>5, <1>11, <1>12 DEF Replaces, TopOp
<1>14. ~InStore(c) /\ \A u \in SThread : ~Does(u, "solve", c)
    BY <1>1, <1>10 DEF Solves, Untouched, Waits
<1>15. /\ store' \in Seq(Problem)
       /\ \A x : InStore(x)' <=> InStore(x) \/ x = c
       /\ \A i, j \in DOMAIN store' : store'[i] = store'[j] => i = j
  <2>1. store \in Seq(Problem) /\ \A i, j \in DOMAIN store : store[i] = store[j] => i = j
    BY <1>1 DEF DivideInv, DivideTypes, Solves, WaitsOnce
  <2> QED BY <1>9, <1>10, <1>14, <2>1, StoreGrows
<1>16. p # c /\ \A x \in Problem : Waits(x)' <=> Waits(x) \/ x = c
    BY <1>6, <1>10, <1>13, <1>15 DEF Waits
<1>17. /\ Untouched(N \ {c})' /\ Counters(N \ {c})' /\ Solutions' /\ RootTicket'
       /\ OneTicket'
       /\ \A x \in Problem : Waits(x)' =>
             /\ x \notin solved' /\ Children(x) \subseteq N \ {c}
             /\ \A u \in SThread : ~Does(u, "decget", x)'
  <2>1. ~Waits(p)' /\ Waits(c)'
    BY <1>5, <1>6, <1>10, <1>16
  <2> QED BY <1>1, <1>5, <1>6, <1>9, <1>10, <1>13, <1>16, <2>1, ChildWaits
<1>18. DivideTypes'
  <2>1. DivideTypes
    BY DEF DivideInv
  <2>2. Stacks' /\ UNCHANGED <<cells, count, freed, solved>> /\ store' \in Seq(Problem)
    BY <1>9, <1>13, <1>15
  <2> QED BY <2>1, <2>2 DEF DivideTypes
<1>19. WaitsOnce(N \ {c})'
  <2>1. \A x \in Problem, u \in SThread : Does(u, "solve", x)' => ~InStore(x)'
    BY <1>1, <1>13, <1>14, <1>15 DEF Solves, WaitsOnce
  <2>2. \A x \in Problem, u, v \in SThread : Does(u, "solve", x)' /\ Does(v, "solve", x)' => u = v
    BY <1>1, <1>13 DEF Solves, WaitsOnce
  <2> QED BY <1>15, <1>17, <2>1, <2>2 DEF WaitsOnce
<1>20. Loops(N \ {c})'
    BY <1>1, <1>3, <1>5, <1>13, <1>16, LoopContinues
<1> QED BY <1>10, <1>17, <1>18, <1>19, <1>20 DEF DivideInv, Solves

\* A call in front of one or of none.
LEMMA CallsJoin ==
    ASSUME NEW S, NEW f \in S, NEW g \in S
    PROVE  <<f>> \o <<g>> = <<f, g>> /\ <<f>> \o <<>> = <<f>>
<1>1. /\ <<f>> \in Seq(S) /\ <<g>> \in Seq(S) /\ <<f, g>> \in Seq(S)
      /\ Len(<<f>>) = 1 /\ Len(<<g>>) = 1 /\ Len(<<f, g>>) = 2
      /\ <<f>>[1] = f /\ <<g>>[1] = g /\ <<f, g>>[1] = f /\ <<f, g>>[2] = g
    OBVIOUS
<1>2. PICK a, b, c : a = <<f>> /\ b = <<g>> /\ c = <<f, g>>
    OBVIOUS
<1>3. /\ a \o b \in Seq(S) /\ Len(a \o b) = 2
      /\ \A i \in 1..2 : (a \o b)[i] = IF i <= 1 THEN a[i] ELSE b[i - 1]
    BY <1>1, <1>2, ConcatProperties
<1>4. \A i \in 1..2 : (a \o b)[i] = c[i]
    BY <1>1, <1>2, <1>3
<1>5. <<f>> \o <<g>> = <<f, g>>
    BY <1>1, <1>2, <1>3, <1>4, SeqEqual
<1> QED BY <1>1, <1>5, ConcatEmptySeq

\* Solve a subproblem in the loop itself, as the store is full.
LEMMA SubmitFullStep ==
    ASSUME DivideInv, NEW t \in SThread, DQ!SubmitFull(t)
    PROVE  DivideInv'
<1>1. PICK N \in SUBSET Problem : Solves(N)
    BY DEF DivideInv
<1>2. PICK p, i0, d0 : p = DQ!Top(t) /\ i0 = Head(stack[t]).i /\ d0 = Depth(t) - 1
    OBVIOUS
<1>3. PICK c : c = Sub[p][i0]
    OBVIOUS
<1>4. Stacks /\ DQ!Calls(t, "loop2")
    BY DEF DivideInv, DivideTypes, DQ!SubmitFull
<1>5. /\ p \in Problem /\ stack[t] # <<>> /\ i0 \in Nat /\ d0 \in Nat
      /\ Loop(t, d0, p, i0)
      /\ \A o, x : Does(t, o, x) => o = "loop2" /\ x = p
    BY <1>2, <1>4, Innermost
<1>6. /\ p \notin N /\ ~Waits(p) /\ Len(Sub[p]) >= 2 /\ i0 \in 1..Len(Sub[p])
      /\ \A j \in i0..Len(Sub[p]) : Sub[p][j] \in N
    BY <1>1, <1>5 DEF Solves, Loops
<1>7. c \in Children(p) /\ c \in Problem /\ c \in N /\ Given # "none" /\ i0 + 1 \in Nat
  <2>1. Len(Sub[p]) \in Nat /\ i0 \in i0..Len(Sub[p])
    BY <1>5, <1>6, TreeFacts
  <2> QED BY <1>3, <1>5, <1>6, <2>1, TreeFacts, StackGiven
<1>8. PICK fs : fs = <<DQ!solve(c)>> \o DQ!Rest(t)
    OBVIOUS
<1>9. fs = IF i0 < Len(Sub[p]) THEN <<DQ!solve(c), DQ!loop2(p, i0 + 1)>> ELSE <<DQ!solve(c)>>
  <2>1. DQ!Rest(t) = IF i0 < Len(Sub[p]) THEN <<DQ!loop2(p, i0 + 1)>> ELSE <<>>
    BY <1>2 DEF DQ!Rest, DQ!Top
  <2>2. PICK f \in DQ!FrameSet, g \in DQ!FrameSet : f = DQ!solve(c) /\ g = DQ!loop2(p, i0 + 1)
    BY <1>5, <1>7, FrameFields
  <2>3. <<f>> \o <<g>> = <<f, g>> /\ <<f>> \o <<>> = <<f>>
    BY CallsJoin
  <2> QED BY <1>8, <2>1, <2>2, <2>3
<1>10. PICK G : G = IF i0 < Len(Sub[p]) THEN {DQ!loop2(p, i0 + 1)} ELSE {}
    OBVIOUS
<1>11. /\ DQ!Becomes(t, fs)
       /\ UNCHANGED <<store, cells, count, freed, solved>> /\ UNCHANGED DQ!waiter
  <2>1. DQ!Current(t) = c
    BY <1>2, <1>3 DEF DQ!Current, DQ!Top
  <2> QED BY <1>8, <2>1 DEF DQ!SubmitFull
<1>12. Replaces(t, {DQ!solve(c)}, G)
  <2>1. Fits(fs, {DQ!solve(c)}, G)
    BY <1>5, <1>7, <1>9, <1>10, FrameFields DEF Fits, TopOp
  <2> QED BY <1>4, <1>5, <1>11, <2>1, ReplacedBecomes
<1>13. \A x \in Problem, i \in Nat : DQ!loop2(x, i) \in G => x = p /\ i = i0 + 1 /\ i0 < Len(Sub[p])
    BY <1>5, <1>7, <1>10, FrameFields
<1>14. /\ \A u \in SThread, x \in Problem :
            /\ Does(u, "solve", x)' <=> IF u = t THEN x = c ELSE Does(u, "solve", x)
            /\ Does(u, "k0", x)' <=> Does(u, "k0", x)
            /\ Does(u, "decget", x)' <=> Does(u, "decget", x)
            /\ Does(u, "put", x)' <=> Does(u, "put", x)
       /\ Stacks'
    BY <1>5, <1>7, <1>12, FrameFields DEF Replaces, TopOp
<1>15. \A u \in SThread, d \in Nat, x \in Problem, i \in Nat : Loop(u, d, x, i)' =>
              \/ Loop(u, d, x, i) /\ ~(u = t /\ d = d0)
              \/ u = t /\ d = d0 /\ x = p /\ i = i0 + 1 /\ i0 < Len(Sub[p])
    BY <1>2, <1>12, <1>13 DEF Replaces
<1>16. ~InStore(c) /\ \A u \in SThread : ~Does(u, "solve", c)
    BY <1>1, <1>7 DEF Solves, Untouched, Waits
<1>17. \A x : InStore(x)' <=> InStore(x)
    BY <1>11 DEF InStore
<1>18. p # c /\ \A x \in Problem : Waits(x)' <=> Waits(x) \/ x = c
    BY <1>5, <1>6, <1>7, <1>14, <1>17 DEF Waits
<1>19. /\ Untouched(N \ {c})' /\ Counters(N \ {c})' /\ Solutions' /\ RootTicket'
       /\ OneTicket'
       /\ \A x \in Problem : Waits(x)' =>
             /\ x \notin solved' /\ Children(x) \subseteq N \ {c}
             /\ \A u \in SThread : ~Does(u, "decget", x)'
  <2>1. ~Waits(p)' /\ Waits(c)'
    BY <1>5, <1>6, <1>7, <1>18
  <2> QED BY <1>1, <1>5, <1>6, <1>7, <1>11, <1>14, <1>18, <2>1, ChildWaits
<1>20. DivideTypes'
  <2>1. DivideTypes
    BY DEF DivideInv
  <2>2. Stacks' /\ UNCHANGED <<store, cells, count, freed, solved>>
    BY <1>11, <1>14
  <2> QED BY <2>1, <2>2 DEF DivideTypes
<1>21. WaitsOnce(N \ {c})'
  <2>1. \A x \in Problem, u \in SThread : Does(u, "solve", x)' => ~InStore(x)'
    BY <1>1, <1>14, <1>16, <1>17 DEF Solves, WaitsOnce
  <2>2. \A x \in Problem, u, v \in SThread : Does(u, "solve", x)' /\ Does(v, "solve", x)' => u = v
    BY <1>1, <1>14, <1>16 DEF Solves, WaitsOnce
  <2>3. \A i, j \in DOMAIN store' : store'[i] = store'[j] => i = j
    BY <1>1, <1>11 DEF Solves, WaitsOnce
  <2> QED BY <1>19, <2>1, <2>2, <2>3 DEF WaitsOnce
<1>22. Loops(N \ {c})'
    BY <1>1, <1>3, <1>5, <1>15, <1>18, LoopContinues
<1> QED BY <1>7, <1>19, <1>20, <1>21, <1>22 DEF DivideInv, Solves

\* What holds of a problem whose solution is on its way to its parent.
LEMMA SolutionFacts ==
    ASSUME DivideInv, NEW N \in SUBSET Problem, Solves(N),
           NEW t \in SThread, NEW p \in Problem, Does(t, "k0", p)
    PROVE  /\ p \in solved /\ p \notin cells /\ p \notin N
           /\ \A u \in SThread : Does(u, "k0", p) => u = t
           /\ p # Root => /\ DQ!parent(p) \in Problem /\ p \in Children(DQ!parent(p))
                          /\ DQ!parent(p) # p
                          /\ DQ!parent(p) \notin N /\ DQ!parent(p) \notin solved
                          /\ ~Waits(DQ!parent(p))
                          /\ ~DQ!IsOnly(p) => Len(Sub[DQ!parent(p)]) >= 2
                          /\ DQ!IsOnly(p) => Len(Sub[DQ!parent(p)]) = 1
<1>1. /\ p \in solved /\ p \notin cells
      /\ \A u \in SThread : Does(u, "k0", p) => u = t
    BY DEF DivideInv, Solutions, SolutionOnce
<1>2. p \notin N
    BY <1>1 DEF Solves, Untouched
<1>3. ASSUME p # Root
      PROVE  /\ DQ!parent(p) \in Problem /\ p \in Children(DQ!parent(p))
             /\ DQ!parent(p) # p
             /\ DQ!parent(p) \notin N /\ DQ!parent(p) \notin solved
             /\ ~Waits(DQ!parent(p))
             /\ ~DQ!IsOnly(p) => Len(Sub[DQ!parent(p)]) >= 2
             /\ DQ!IsOnly(p) => Len(Sub[DQ!parent(p)]) = 1
  <2>1. PICK q \in Problem : q = DQ!parent(p) /\ p \in Children(q)
    BY <1>3, TreeFacts
  <2>2. q \notin solved
    BY <2>1 DEF DivideInv, Solutions, SolvedAfter
  <2>3. q # p
    BY <1>1, <2>2
  <2>4. q \notin N /\ ~Waits(q)
    BY <1>2, <2>1 DEF Solves, Untouched, WaitsOnce
  <2>5. Len(Sub[q]) \in Nat /\ Len(Sub[q]) # 0
    BY <2>1, TreeFacts
  <2>6. DQ!IsOnly(p) <=> Len(Sub[q]) = 1
    BY <2>1 DEF DQ!IsOnly
  <2>7. Len(Sub[q]) # 1 => Len(Sub[q]) >= 2
    <3>1. \A l \in Nat : l # 0 /\ l # 1 => l >= 2
        OBVIOUS
    <3> QED BY <2>5, <3>1
  <2> QED BY <2>1, <2>2, <2>3, <2>4, <2>6, <2>7
<1> QED BY <1>1, <1>2, <1>3

\* Steps after which the same problems wait.
LEMMA WaitingKept ==
    ASSUME NEW N, Solves(N), UNCHANGED store, Given' = Given,
           \A u \in SThread, x \in Problem : Does(u, "solve", x)' <=> Does(u, "solve", x),
           \A u \in SThread, d \in Nat, x \in Problem, i \in Nat :
              Loop(u, d, x, i)' => Loop(u, d, x, i),
           \A u \in SThread, x \in Problem : Does(u, "decget", x)' =>
              Does(u, "decget", x) \/ (x \notin N /\ ~Waits(x)),
           \A x \in cells' : x \in cells \/ x \notin N,
           \A x \in solved' : x \in solved \/ (x \notin N /\ ~Waits(x))
    PROVE  /\ Untouched(N)' /\ WaitsOnce(N)' /\ Loops(N)'
           /\ \A x \in Problem : Waits(x)' <=> Waits(x)
<1>1. \A x : InStore(x)' <=> InStore(x)
    BY DEF InStore
<1>2. \A x \in Problem : Waits(x)' <=> Waits(x)
    BY <1>1 DEF Waits
<1>3. Untouched(N)'
    BY <1>2 DEF Solves, Untouched
<1>4. WaitsOnce(N)'
  <2>1. \A x \in Problem : Waits(x)' =>
          /\ x \notin solved' /\ Children(x) \subseteq N
          /\ \A t \in SThread : ~Does(t, "decget", x)'
    BY <1>2 DEF Solves, WaitsOnce
  <2>2. \A i, j \in DOMAIN store' : store'[i] = store'[j] => i = j
    BY DEF Solves, WaitsOnce
  <2>3. \A x \in Problem, t \in SThread : Does(t, "solve", x)' => ~InStore(x)'
    BY <1>1 DEF Solves, WaitsOnce
  <2>4. \A x \in Problem, t, u \in SThread : Does(t, "solve", x)' /\ Does(u, "solve", x)' => t = u
    BY DEF Solves, WaitsOnce
  <2> QED BY <2>1, <2>2, <2>3, <2>4 DEF WaitsOnce
<1>5. Loops(N)'
    BY <1>2, LoopsKept DEF Solves
<1> QED BY <1>2, <1>3, <1>4, <1>5

\* The root's continuation stores the result.
LEMMA ReturnRootStep ==
    ASSUME DivideInv, NEW t \in SThread, DQ!ReturnRoot(t)
    PROVE  DivideInv'
<1>1. PICK N \in SUBSET Problem : Solves(N)
    BY DEF DivideInv
<1>2. Stacks /\ DQ!Calls(t, "k0") /\ DQ!Top(t) = Root
    BY DEF DivideInv, DivideTypes, DQ!ReturnRoot
<1>3. /\ Root \in Problem /\ stack[t] # <<>> /\ Does(t, "k0", Root)
      /\ \A o, x : Does(t, o, x) => o = "k0" /\ x = Root
    BY <1>2, Innermost
<1>4. /\ DQ!Becomes(t, <<DQ!put>>) /\ cells' = cells \cup {Root}
      /\ UNCHANGED <<store, count, freed, solved>> /\ UNCHANGED DQ!waiter
    BY DEF DQ!ReturnRoot
<1>5. /\ Root \in solved /\ Root \notin cells /\ Root \notin N
      /\ \A u \in SThread : Does(u, "k0", Root) => u = t
    BY <1>1, <1>3, SolutionFacts
<1>6. DQ!put \in DQ!FrameSet /\ DQ!put.op = "put" /\ DQ!put.p = Root
    BY <1>3 DEF DQ!put, DQ!Frame, DQ!FrameSet
<1>7. Replaces(t, {DQ!put}, {})
  <2>1. Fits(<<DQ!put>>, {DQ!put}, {})
    BY <1>6 DEF Fits, TopOp
  <2> QED BY <1>2, <1>3, <1>4, <2>1, ReplacedBecomes
<1>8. /\ \A u \in SThread, x \in Problem :
            /\ Does(u, "solve", x)' <=> Does(u, "solve", x)
            /\ Does(u, "k0", x)' <=> u # t /\ Does(u, "k0", x)
            /\ Does(u, "decget", x)' <=> Does(u, "decget", x)
            /\ Does(u, "put", x)' <=> Does(u, "put", x) \/ (u = t /\ x = Root)
      /\ \A u \in SThread, d \in Nat, x \in Problem, i \in Nat :
            Loop(u, d, x, i)' => Loop(u, d, x, i)
      /\ Stacks'
    BY <1>3, <1>6, <1>7 DEF Replaces, TopOp
<1>9. OneTicket' /\ Given' = Given
    BY <1>4, TicketKept DEF DivideInv
<1>10. DivideTypes'
  <2>1. DivideTypes
    BY DEF DivideInv
  <2> QED BY <1>3, <1>4, <1>8, <2>1 DEF DivideTypes
<1>11. /\ Untouched(N)' /\ WaitsOnce(N)' /\ Loops(N)'
       /\ \A x \in Problem : Waits(x)' <=> Waits(x)
    BY <1>1, <1>4, <1>5, <1>8, <1>9, WaitingKept
<1>12. Solutions'
  <2>1. SolutionOnce'
    BY <1>4, <1>5, <1>8 DEF DivideInv, Solutions, SolutionOnce
  <2>2. SolvedAfter'
    BY <1>4, <1>8, TreeFacts DEF DivideInv, DivideTypes, Solutions, SolvedAfter
  <2>3. DecgetBefore'
    BY <1>4, <1>5, <1>8 DEF DivideInv, Solutions, DecgetBefore
  <2> QED BY <2>1, <2>2, <2>3 DEF Solutions
<1>13. Counters(N)'
  <2>1. \A x \in Problem : Unwritten(x)' = Unwritten(x)
    BY <1>4, TreeFacts DEF Unwritten
  <2>2. \A x \in Problem : Decrementing(x)' = Decrementing(x)
    BY <1>8 DEF Decrementing
  <2> QED BY <1>1, <1>4, <1>11, <2>1, <2>2 DEF Solves, Counters
<1>14. RootTicket'
  <2>1. Given # "none" /\ Given # "spent" /\ \A u \in SThread, x \in Problem : ~Does(u, "put", x)
    BY <1>3, <1>5, StackGiven DEF DivideInv, RootTicket, OneTicket
  <2> QED BY <1>4, <1>8, <1>9, <2>1 DEF RootTicket
<1> QED BY <1>9, <1>10, <1>11, <1>12, <1>13, <1>14 DEF DivideInv, Solves

\* The solution of an only subproblem is that of its parent.
LEMMA ReturnOnlyStep ==
    ASSUME DivideInv, NEW t \in SThread, DQ!ReturnOnly(t)
    PROVE  DivideInv'
<1>1. PICK N \in SUBSET Problem : Solves(N)
    BY DEF DivideInv
<1>2. PICK p, q : p = DQ!Top(t) /\ q = DQ!parent(p)
    OBVIOUS
<1>3. Stacks /\ DQ!Calls(t, "k0") /\ p # Root /\ DQ!IsOnly(p)
    BY <1>2 DEF DivideInv, DivideTypes, DQ!ReturnOnly
<1>4. /\ p \in Problem /\ stack[t] # <<>> /\ Does(t, "k0", p)
      /\ \A o, x : Does(t, o, x) => o = "k0" /\ x = p
    BY <1>2, <1>3, Innermost
<1>5. /\ DQ!Becomes(t, <<DQ!k0(q)>>) /\ solved' = solved \cup {q}
      /\ UNCHANGED <<store, cells, count, freed>> /\ UNCHANGED DQ!waiter
    BY <1>2 DEF DQ!ReturnOnly
<1>6. /\ p \in solved /\ p \notin cells /\ p \notin N
      /\ \A u \in SThread : Does(u, "k0", p) => u = t
      /\ q \in Problem /\ p \in Children(q) /\ q # p
      /\ q \notin N /\ q \notin solved /\ ~Waits(q) /\ Len(Sub[q]) = 1
    BY <1>1, <1>2, <1>3, <1>4, SolutionFacts
<1>7. Replaces(t, {DQ!k0(q)}, {})
  <2>1. Fits(<<DQ!k0(q)>>, {DQ!k0(q)}, {})
    BY <1>6, FrameFields DEF Fits, TopOp
  <2> QED BY <1>3, <1>4, <1>5, <2>1, ReplacedBecomes
<1>8. /\ \A u \in SThread, x \in Problem :
            /\ Does(u, "solve", x)' <=> Does(u, "solve", x)
            /\ Does(u, "k0", x)' <=> IF u = t THEN x = q ELSE Does(u, "k0", x)
            /\ Does(u, "decget", x)' <=> Does(u, "decget", x)
            /\ Does(u, "put", x)' <=> Does(u, "put", x)
      /\ \A u \in SThread, d \in Nat, x \in Problem, i \in Nat :
            Loop(u, d, x, i)' => Loop(u, d, x, i)
      /\ Stacks'
    BY <1>4, <1>6, <1>7, FrameFields DEF Replaces, TopOp
<1>9. OneTicket' /\ Given' = Given
    BY <1>5, TicketKept DEF DivideInv
<1>10. DivideTypes'
  <2>1. DivideTypes
    BY DEF DivideInv
  <2> QED BY <1>5, <1>6, <1>8, <2>1 DEF DivideTypes
<1>11. /\ Untouched(N)' /\ WaitsOnce(N)' /\ Loops(N)'
       /\ \A x \in Problem : Waits(x)' <=> Waits(x)
    BY <1>1, <1>5, <1>6, <1>8, <1>9, WaitingKept
<1>12. Solutions'
  <2>1. q \notin cells /\ \A u \in SThread : ~Does(u, "k0", q) /\ ~Does(u, "decget", q)
    <3>1. q \notin cells /\ \A u \in SThread : ~Does(u, "k0", q)
        BY <1>6 DEF DivideInv, Solutions, SolutionOnce, DecgetBefore
    <3>2. ~(Len(Sub[q]) >= 2)
        BY <1>6
    <3>3. \A u \in SThread : ~Does(u, "decget", q)
        BY <1>6, <3>2 DEF DivideInv, Solutions, DecgetBefore
    <3> QED BY <3>1, <3>3
  <2>2. SolutionOnce'
    BY <1>5, <1>6, <1>8, <2>1 DEF DivideInv, Solutions, SolutionOnce
  <2>3. SolvedAfter'
    <3>1. ASSUME NEW x \in solved, NEW c \in Children(x)
          PROVE  /\ c \in solved' /\ \A u \in SThread : ~Does(u, "k0", c)'
                 /\ Len(Sub[x]) >= 2 => c \in cells'
        <4>1. /\ c \in solved /\ \A u \in SThread : ~Does(u, "k0", c)
              /\ Len(Sub[x]) >= 2 => c \in cells
            BY <3>1 DEF DivideInv, Solutions, SolvedAfter
        <4>2. c # q /\ c \in Problem
            BY <1>6, <4>1, TreeFacts DEF DivideInv, DivideTypes
        <4> QED BY <1>5, <1>8, <4>1, <4>2
    <3>2. ASSUME NEW c \in Children(q)
          PROVE  /\ c \in solved' /\ \A u \in SThread : ~Does(u, "k0", c)'
                 /\ Len(Sub[q]) >= 2 => c \in cells'
        <4>1. c = p
            <5>1. PICK i \in 1..1 : p = Sub[q][i]
                BY <1>6, TreeFacts
            <5>2. PICK j \in 1..1 : c = Sub[q][j]
                BY <1>6, TreeFacts
            <5>3. i = 1 /\ j = 1
                BY <5>1, <5>2
            <5> QED BY <5>1, <5>2, <5>3
        <4> QED BY <1>4, <1>5, <1>6, <1>8, <4>1
    <3> QED BY <1>5, <3>1, <3>2 DEF SolvedAfter
  <2>4. DecgetBefore'
    BY <1>5, <1>8, <2>1 DEF DivideInv, Solutions, DecgetBefore
  <2> QED BY <2>2, <2>3, <2>4 DEF Solutions
<1>13. Counters(N)'
  <2>1. \A x \in Problem : Unwritten(x)' = Unwritten(x) /\ Decrementing(x)' = Decrementing(x)
    BY <1>5, <1>8 DEF Unwritten, Decrementing
  <2> QED BY <1>1, <1>5, <1>11, <2>1 DEF Solves, Counters
<1>14. RootTicket'
  <2>1. Given # "none"
    BY <1>4, StackGiven
  <2> QED BY <1>5, <1>8, <1>9, <2>1 DEF DivideInv, RootTicket
<1> QED BY <1>9, <1>10, <1>11, <1>12, <1>13, <1>14 DEF DivideInv, Solves

\* What t and who decrements with it: finite sets.
LEMMA CountingFinite ==
    ASSUME NEW p \in Problem
    PROVE  IsFiniteSet(Unwritten(p)) /\ IsFiniteSet(Decrementing(p))
<1>1. IsFiniteSet(Solver)
    BY DivideConquerParAssumption DEF DQ!DivideConquerParAssumption, DQ!IsFiniteSet, IsFiniteSet
<1>2. IsFiniteSet(SThread)
    BY <1>1, FS_AddElement DEF SThread
<1>3. Len(Sub[p]) \in Nat /\ DOMAIN Sub[p] = 1..Len(Sub[p])
    BY TreeFacts
<1>4. IsFiniteSet(1..Len(Sub[p]))
    BY <1>3, FS_Interval
<1>5. Unwritten(p) \subseteq 1..Len(Sub[p]) /\ Decrementing(p) \subseteq SThread
    BY <1>3 DEF Unwritten, Decrementing
<1> QED BY <1>2, <1>4, <1>5, FS_Subset

\* The solution of one of several subproblems is stored in its cell.
LEMMA ReturnStep ==
    ASSUME DivideInv, NEW t \in SThread, DQ!Return(t)
    PROVE  DivideInv'
<1>1. PICK N \in SUBSET Problem : Solves(N)
    BY DEF DivideInv
<1>2. PICK p, q : p = DQ!Top(t) /\ q = DQ!parent(p)
    OBVIOUS
<1>3. Stacks /\ DQ!Calls(t, "k0") /\ p # Root /\ ~DQ!IsOnly(p)
    BY <1>2 DEF DivideInv, DivideTypes, DQ!Return
<1>4. /\ p \in Problem /\ stack[t] # <<>> /\ Does(t, "k0", p)
      /\ \A o, x : Does(t, o, x) => o = "k0" /\ x = p
    BY <1>2, <1>3, Innermost
<1>5. /\ DQ!Becomes(t, <<DQ!decget(q)>>) /\ cells' = cells \cup {p}
      /\ UNCHANGED <<store, count, freed, solved>> /\ UNCHANGED DQ!waiter
    BY <1>2 DEF DQ!Return
<1>6. /\ p \in solved /\ p \notin cells /\ p \notin N
      /\ \A u \in SThread : Does(u, "k0", p) => u = t
      /\ q \in Problem /\ p \in Children(q) /\ q # p
      /\ q \notin N /\ q \notin solved /\ ~Waits(q) /\ Len(Sub[q]) >= 2
    BY <1>1, <1>2, <1>3, <1>4, SolutionFacts
<1>7. Replaces(t, {DQ!decget(q)}, {})
  <2>1. Fits(<<DQ!decget(q)>>, {DQ!decget(q)}, {})
    BY <1>6, FrameFields DEF Fits, TopOp
  <2> QED BY <1>3, <1>4, <1>5, <2>1, ReplacedBecomes
<1>8. /\ \A u \in SThread, x \in Problem :
            /\ Does(u, "solve", x)' <=> Does(u, "solve", x)
            /\ Does(u, "k0", x)' <=> u # t /\ Does(u, "k0", x)
            /\ Does(u, "decget", x)' <=> Does(u, "decget", x) \/ (u = t /\ x = q)
            /\ Does(u, "put", x)' <=> Does(u, "put", x)
      /\ \A u \in SThread, d \in Nat, x \in Problem, i \in Nat :
            Loop(u, d, x, i)' => Loop(u, d, x, i)
      /\ Stacks'
    BY <1>4, <1>6, <1>7, FrameFields DEF Replaces, TopOp
<1>9. OneTicket' /\ Given' = Given
    BY <1>5, TicketKept DEF DivideInv
<1>10. DivideTypes'
  <2>1. DivideTypes
    BY DEF DivideInv
  <2> QED BY <1>4, <1>5, <1>8, <2>1 DEF DivideTypes
<1>11. /\ Untouched(N)' /\ WaitsOnce(N)' /\ Loops(N)'
       /\ \A x \in Problem : Waits(x)' <=> Waits(x)
    BY <1>1, <1>5, <1>6, <1>8, <1>9, WaitingKept
<1>12. Solutions'
  <2>1. SolutionOnce'
    BY <1>5, <1>6, <1>8 DEF DivideInv, Solutions, SolutionOnce
  <2>2. SolvedAfter'
    BY <1>5, <1>8, TreeFacts DEF DivideInv, DivideTypes, Solutions, SolvedAfter
  <2>3. DecgetBefore'
    BY <1>5, <1>6, <1>8 DEF DivideInv, Solutions, DecgetBefore
  <2> QED BY <2>1, <2>2, <2>3 DEF Solutions
<1>13. Counters(N)'
  <2>1. ASSUME NEW x \in Problem, x # q
        PROVE  Unwritten(x)' = Unwritten(x) /\ Decrementing(x)' = Decrementing(x)
    <3>1. \A i \in DOMAIN Sub[x] : Sub[x][i] # p
        BY <1>6, <2>1, TreeFacts
    <3>2. Unwritten(x)' = Unwritten(x)
        BY <1>5, <3>1 DEF Unwritten
    <3>3. Decrementing(x)' = Decrementing(x)
        BY <1>8, <2>1 DEF Decrementing
    <3> QED BY <3>2, <3>3
  <2>2. PICK i0 \in DOMAIN Sub[q] : Sub[q][i0] = p
    BY <1>6, TreeFacts
  <2>3. i0 \in Unwritten(q) /\ Unwritten(q)' = Unwritten(q) \ {i0}
    <3>1. \A i \in DOMAIN Sub[q] : Sub[q][i] = p => i = i0
        BY <1>6, <2>2, TreeFacts
    <3> QED BY <1>5, <1>6, <2>2, <3>1 DEF Unwritten
  <2>4. t \notin Decrementing(q) /\ Decrementing(q)' = Decrementing(q) \cup {t}
    <3>1. t \notin Decrementing(q)
        BY <1>4 DEF Decrementing
    <3>2. \A u \in SThread : Does(u, "decget", q)' <=> Does(u, "decget", q) \/ u = t
        BY <1>6, <1>8
    <3> QED BY <3>1, <3>2 DEF Decrementing
  <2>5. Cardinality(Unwritten(q)') = Cardinality(Unwritten(q)) - 1
    BY <1>6, <2>3, CountingFinite, FS_RemoveElement
  <2>6. Cardinality(Decrementing(q)') = Cardinality(Decrementing(q)) + 1
    BY <1>6, <2>4, CountingFinite, FS_AddElement
  <2>7. Cardinality(Unwritten(q)) \in Nat /\ Cardinality(Decrementing(q)) \in Nat
    BY <1>6, CountingFinite, FS_CardinalityType
  <2>8. Cardinality(Unwritten(q)') + Cardinality(Decrementing(q)')
          = Cardinality(Unwritten(q)) + Cardinality(Decrementing(q))
    BY <2>5, <2>6, <2>7
  <2>9. count[q] = Cardinality(Unwritten(q)) + Cardinality(Decrementing(q))
    BY <1>1, <1>6 DEF Solves, Counters
  <2>10. \A x \in Problem : Len(Sub[x]) >= 2 /\ x \notin N /\ ~Waits(x)' /\ x \notin solved' =>
            count'[x] = Cardinality(Unwritten(x)') + Cardinality(Decrementing(x)')
    <3> SUFFICES ASSUME NEW x \in Problem,
                        Len(Sub[x]) >= 2 /\ x \notin N /\ ~Waits(x)' /\ x \notin solved'
                 PROVE  count'[x] = Cardinality(Unwritten(x)') + Cardinality(Decrementing(x)')
        OBVIOUS
    <3>1. CASE x = q
        BY <3>1, <1>5, <2>8, <2>9
    <3>2. CASE x # q
        BY <3>2, <1>1, <1>5, <1>11, <2>1 DEF Solves, Counters
    <3> QED BY <3>1, <3>2
  <2> QED BY <2>10 DEF Counters
<1>14. RootTicket'
  <2>1. Given # "none"
    BY <1>4, StackGiven
  <2> QED BY <1>5, <1>8, <1>9, <2>1 DEF DivideInv, RootTicket
<1> QED BY <1>9, <1>10, <1>11, <1>12, <1>13, <1>14 DEF DivideInv, Solves

\* A subproblem is counted off; the last one has the parent's solution.
LEMMA DecgetFacts ==
    ASSUME DivideInv, NEW N \in SUBSET Problem, Solves(N),
           NEW t \in SThread, NEW p \in Problem, Does(t, "decget", p)
    PROVE  /\ p \notin N /\ ~Waits(p) /\ p \notin solved /\ p \notin cells /\ p \notin freed
           /\ Len(Sub[p]) >= 2
           /\ \A u \in SThread : ~Does(u, "k0", p)
           /\ count[p] \in Nat /\ count[p] >= 1
           /\ count[p] = Cardinality(Unwritten(p)) + Cardinality(Decrementing(p))
           /\ Cardinality(Unwritten(p)) \in Nat /\ Cardinality(Decrementing(p)) \in Nat
           /\ ~(count[p] > 1) => Children(p) \subseteq cells /\ Decrementing(p) = {t}
<1>1. /\ p \notin N /\ ~Waits(p) /\ p \notin solved /\ p \notin cells /\ p \notin freed
      /\ Len(Sub[p]) >= 2 /\ \A u \in SThread : ~Does(u, "k0", p)
  <2>1. p \notin N
    BY DEF Solves, Untouched
  <2>2. ~Waits(p)
    BY DEF Solves, WaitsOnce
  <2>3. p \notin solved /\ Len(Sub[p]) >= 2
    BY DEF DivideInv, Solutions, DecgetBefore
  <2>4. p \notin cells /\ p \notin freed /\ \A u \in SThread : ~Does(u, "k0", p)
    BY <2>3 DEF DivideInv, Solutions, DecgetBefore, SolutionOnce
  <2> QED BY <2>1, <2>2, <2>3, <2>4
<1>2. PICK a, b : a = Cardinality(Unwritten(p)) /\ b = Cardinality(Decrementing(p))
    OBVIOUS
<1>3. a \in Nat /\ b \in Nat
    BY <1>2, CountingFinite, FS_CardinalityType
<1>4. count[p] = a + b
    BY <1>1, <1>2 DEF Solves, Counters
<1>5. t \in Decrementing(p)
    BY DEF Decrementing
<1>6. b # 0
    BY <1>2, <1>5, CountingFinite, FS_EmptySet
<1>7. count[p] \in Nat /\ count[p] >= 1
    BY <1>3, <1>4, <1>6
<1>8. ASSUME ~(count[p] > 1) PROVE Children(p) \subseteq cells /\ Decrementing(p) = {t}
  <2>1. a = 0 /\ b = 1
    BY <1>3, <1>4, <1>6, <1>8
  <2>2. Unwritten(p) = {}
    BY <1>2, <2>1, CountingFinite, FS_EmptySet
  <2>3. Children(p) \subseteq cells
    BY <2>2, TreeFacts DEF Unwritten
  <2>4. PICK u : Decrementing(p) = {u}
    BY <1>2, <2>1, CountingFinite, FS_Singleton
  <2> QED BY <1>5, <2>3, <2>4
<1> QED BY <1>1, <1>2, <1>3, <1>4, <1>7, <1>8

\* The decrement of those that are not the last.
LEMMA DecgetEarlyStep ==
    ASSUME DivideInv, NEW t \in SThread, DQ!Decget(t), count[DQ!Top(t)] > 1
    PROVE  DivideInv'
<1>1. PICK N \in SUBSET Problem : Solves(N)
    BY DEF DivideInv
<1>2. PICK p : p = DQ!Top(t)
    OBVIOUS
<1>3. Stacks /\ DQ!Calls(t, "decget")
    BY DEF DivideInv, DivideTypes, DQ!Decget
<1>4. /\ p \in Problem /\ stack[t] # <<>> /\ Does(t, "decget", p)
      /\ \A o, x : Does(t, o, x) => o = "decget" /\ x = p
    BY <1>2, <1>3, Innermost
<1>5. /\ DQ!Becomes(t, <<>>) /\ count' = [count EXCEPT ![p] = count[p] - 1]
      /\ UNCHANGED <<store, cells, freed, solved>> /\ UNCHANGED DQ!waiter
    BY <1>2 DEF DQ!Decget
<1>6. /\ p \notin N /\ ~Waits(p) /\ p \notin solved
      /\ count[p] \in Nat /\ count[p] >= 1
      /\ count[p] = Cardinality(Unwritten(p)) + Cardinality(Decrementing(p))
      /\ Cardinality(Unwritten(p)) \in Nat /\ Cardinality(Decrementing(p)) \in Nat
    BY <1>1, <1>4, DecgetFacts
<1>7. Replaces(t, {}, {})
  <2>1. Fits(<<>>, {}, {})
    BY DEF Fits
  <2> QED BY <1>3, <1>4, <1>5, <2>1, ReplacedBecomes
<1>8. /\ \A u \in SThread, x \in Problem :
            /\ Does(u, "solve", x)' <=> Does(u, "solve", x)
            /\ Does(u, "k0", x)' <=> Does(u, "k0", x)
            /\ Does(u, "decget", x)' <=> u # t /\ Does(u, "decget", x)
            /\ Does(u, "put", x)' <=> Does(u, "put", x)
      /\ \A u \in SThread, d \in Nat, x \in Problem, i \in Nat :
            Loop(u, d, x, i)' => Loop(u, d, x, i)
      /\ Stacks'
    BY <1>4, <1>7 DEF Replaces, TopOp
<1>9. OneTicket' /\ Given' = Given
    BY <1>5, TicketKept DEF DivideInv
<1>10. DivideTypes'
  <2>1. DivideTypes
    BY DEF DivideInv
  <2>2. count[p] - 1 \in Nat
    BY <1>6
  <2>3. count' \in [Problem -> Nat]
    BY <1>5, <2>1, <2>2 DEF DivideTypes
  <2> QED BY <1>5, <1>8, <2>1, <2>3 DEF DivideTypes
<1>11. /\ Untouched(N)' /\ WaitsOnce(N)' /\ Loops(N)'
       /\ \A x \in Problem : Waits(x)' <=> Waits(x)
    BY <1>1, <1>5, <1>8, <1>9, WaitingKept
<1>12. Solutions'
  <2>1. SolutionOnce'
    BY <1>5, <1>8 DEF DivideInv, Solutions, SolutionOnce
  <2>2. SolvedAfter'
    BY <1>5, <1>8, TreeFacts DEF DivideInv, DivideTypes, Solutions, SolvedAfter
  <2>3. DecgetBefore'
    BY <1>5, <1>8 DEF DivideInv, Solutions, DecgetBefore
  <2> QED BY <2>1, <2>2, <2>3 DEF Solutions
<1>13. Counters(N)'
  <2>1. \A x \in Problem : Unwritten(x)' = Unwritten(x)
    BY <1>5 DEF Unwritten
  <2>2. \A x \in Problem : x # p => Decrementing(x)' = Decrementing(x)
    BY <1>4, <1>8 DEF Decrementing
  <2>3. t \in Decrementing(p) /\ Decrementing(p)' = Decrementing(p) \ {t}
    BY <1>4, <1>8 DEF Decrementing
  <2>4. Cardinality(Decrementing(p)') = Cardinality(Decrementing(p)) - 1
    BY <1>4, <2>3, CountingFinite, FS_RemoveElement
  <2>5. count'[p] = Cardinality(Unwritten(p)') + Cardinality(Decrementing(p)')
    <3>1. count'[p] = count[p] - 1
        BY <1>4, <1>5 DEF DivideInv, DivideTypes
    <3>2. Unwritten(p)' = Unwritten(p)
        BY <1>4, <2>1
    <3> QED BY <1>6, <2>4, <3>1, <3>2
  <2>6. \A x \in Problem : Len(Sub[x]) >= 2 /\ x \notin N /\ ~Waits(x)' /\ x \notin solved' =>
            count'[x] = Cardinality(Unwritten(x)') + Cardinality(Decrementing(x)')
    <3> SUFFICES ASSUME NEW x \in Problem,
                        Len(Sub[x]) >= 2 /\ x \notin N /\ ~Waits(x)' /\ x \notin solved'
                 PROVE  count'[x] = Cardinality(Unwritten(x)') + Cardinality(Decrementing(x)')
        OBVIOUS
    <3>1. CASE x = p
        BY <3>1, <2>5
    <3>2. CASE x # p
        <4>1. count'[x] = count[x]
            BY <1>5, <3>2 DEF DivideInv, DivideTypes
        <4> QED BY <3>2, <4>1, <1>1, <1>5, <1>11, <2>1, <2>2 DEF Solves, Counters
    <3> QED BY <3>1, <3>2
  <2> QED BY <2>6 DEF Counters
<1>14. RootTicket'
  <2>1. Given # "none"
    BY <1>4, StackGiven
  <2> QED BY <1>5, <1>8, <1>9, <2>1 DEF DivideInv, RootTicket
<1> QED BY <1>9, <1>10, <1>11, <1>12, <1>13, <1>14 DEF DivideInv, Solves

\* The last decrement, and the call of the parent's continuation.
LEMMA DecgetLastStep ==
    ASSUME DivideInv, NEW t \in SThread, DQ!Decget(t), ~(count[DQ!Top(t)] > 1)
    PROVE  DivideInv'
<1>1. PICK N \in SUBSET Problem : Solves(N)
    BY DEF DivideInv
<1>2. PICK p : p = DQ!Top(t)
    OBVIOUS
<1>3. Stacks /\ DQ!Calls(t, "decget")
    BY DEF DivideInv, DivideTypes, DQ!Decget
<1>4. /\ p \in Problem /\ stack[t] # <<>> /\ Does(t, "decget", p)
      /\ \A o, x : Does(t, o, x) => o = "decget" /\ x = p
    BY <1>2, <1>3, Innermost
<1>5. /\ DQ!Becomes(t, <<DQ!k0(p)>>) /\ count' = [count EXCEPT ![p] = count[p] - 1]
      /\ freed' = freed \cup {p} /\ solved' = solved \cup {p}
      /\ UNCHANGED <<store, cells>> /\ UNCHANGED DQ!waiter
    BY <1>2 DEF DQ!Decget
<1>6. /\ p \notin N /\ ~Waits(p) /\ p \notin solved /\ p \notin cells
      /\ \A u \in SThread : ~Does(u, "k0", p)
      /\ count[p] \in Nat /\ count[p] >= 1
      /\ Children(p) \subseteq cells /\ Decrementing(p) = {t}
  <2>1. ~(count[p] > 1)
    BY <1>2
  <2> QED BY <1>1, <1>4, <2>1, DecgetFacts
<1>7. Replaces(t, {DQ!k0(p)}, {})
  <2>1. Fits(<<DQ!k0(p)>>, {DQ!k0(p)}, {})
    BY <1>4, FrameFields DEF Fits, TopOp
  <2> QED BY <1>3, <1>4, <1>5, <2>1, ReplacedBecomes
<1>8. /\ \A u \in SThread, x \in Problem :
            /\ Does(u, "solve", x)' <=> Does(u, "solve", x)
            /\ Does(u, "k0", x)' <=> Does(u, "k0", x) \/ (u = t /\ x = p)
            /\ Does(u, "decget", x)' <=> u # t /\ Does(u, "decget", x)
            /\ Does(u, "put", x)' <=> Does(u, "put", x)
      /\ \A u \in SThread, d \in Nat, x \in Problem, i \in Nat :
            Loop(u, d, x, i)' => Loop(u, d, x, i)
      /\ Stacks'
    BY <1>4, <1>7, FrameFields DEF Replaces, TopOp
<1>9. OneTicket' /\ Given' = Given
    BY <1>5, TicketKept DEF DivideInv
<1>10. DivideTypes'
  <2>1. DivideTypes
    BY DEF DivideInv
  <2>2. count[p] - 1 \in Nat
    BY <1>6
  <2>3. count' \in [Problem -> Nat]
    BY <1>5, <2>1, <2>2 DEF DivideTypes
  <2> QED BY <1>4, <1>5, <1>8, <2>1, <2>3 DEF DivideTypes
<1>11. /\ Untouched(N)' /\ WaitsOnce(N)' /\ Loops(N)'
       /\ \A x \in Problem : Waits(x)' <=> Waits(x)
    BY <1>1, <1>5, <1>6, <1>8, <1>9, WaitingKept
<1>12. \A u \in SThread : ~Does(u, "decget", p)'
  <2>1. \A u \in SThread : Does(u, "decget", p) => u = t
    BY <1>6 DEF Decrementing
  <2> QED BY <1>4, <1>8, <2>1
<1>13. Solutions'
  <2>1. SolutionOnce'
    BY <1>5, <1>6, <1>8 DEF DivideInv, Solutions, SolutionOnce
  <2>2. SolvedAfter'
    <3>1. ASSUME NEW x \in solved, NEW c \in Children(x)
          PROVE  /\ c \in solved' /\ \A u \in SThread : ~Does(u, "k0", c)'
                 /\ Len(Sub[x]) >= 2 => c \in cells'
        <4>1. /\ c \in solved /\ \A u \in SThread : ~Does(u, "k0", c)
              /\ Len(Sub[x]) >= 2 => c \in cells
            BY <3>1 DEF DivideInv, Solutions, SolvedAfter
        <4>2. c # p /\ c \in Problem
            BY <1>6, <4>1, <3>1, TreeFacts DEF DivideInv, DivideTypes
        <4> QED BY <1>5, <1>8, <4>1, <4>2
    <3>2. ASSUME NEW c \in Children(p)
          PROVE  /\ c \in solved' /\ \A u \in SThread : ~Does(u, "k0", c)'
                 /\ Len(Sub[p]) >= 2 => c \in cells'
        <4>1. c \in cells /\ c \in Problem /\ c # p
            BY <1>4, <1>6, TreeFacts
        <4>2. c \in solved /\ \A u \in SThread : ~Does(u, "k0", c)
            BY <4>1 DEF DivideInv, Solutions, SolutionOnce, DecgetBefore
        <4> QED BY <1>5, <1>8, <4>1, <4>2
    <3> QED BY <1>5, <3>1, <3>2 DEF SolvedAfter
  <2>3. DecgetBefore'
    BY <1>5, <1>8, <1>12 DEF DivideInv, Solutions, DecgetBefore
  <2> QED BY <2>1, <2>2, <2>3 DEF Solutions
<1>14. Counters(N)'
  <2>1. \A x \in Problem : Unwritten(x)' = Unwritten(x)
    BY <1>5 DEF Unwritten
  <2>2. \A x \in Problem : x # p => Decrementing(x)' = Decrementing(x)
    BY <1>4, <1>8 DEF Decrementing
  <2>3. \A x \in Problem : Len(Sub[x]) >= 2 /\ x \notin N /\ ~Waits(x)' /\ x \notin solved' =>
            count'[x] = Cardinality(Unwritten(x)') + Cardinality(Decrementing(x)')
    <3> SUFFICES ASSUME NEW x \in Problem,
                        Len(Sub[x]) >= 2 /\ x \notin N /\ ~Waits(x)' /\ x \notin solved'
                 PROVE  count'[x] = Cardinality(Unwritten(x)') + Cardinality(Decrementing(x)')
        OBVIOUS
    <3>1. x # p /\ x \notin solved
        BY <1>5
    <3>2. count'[x] = count[x]
        BY <1>5, <3>1 DEF DivideInv, DivideTypes
    <3> QED BY <3>1, <3>2, <1>1, <1>11, <2>1, <2>2 DEF Solves, Counters
  <2> QED BY <2>3 DEF Counters
<1>15. RootTicket'
  <2>1. Given # "none"
    BY <1>4, StackGiven
  <2> QED BY <1>5, <1>8, <1>9, <2>1 DEF DivideInv, RootTicket
<1> QED BY <1>9, <1>10, <1>11, <1>13, <1>14, <1>15 DEF DivideInv, Solves

\* A problem is divided: its counter counts all of its subproblems.
LEMMA ConquerStep ==
    ASSUME DivideInv, NEW t \in SThread, DQ!Conquer(t)
    PROVE  DivideInv'
<1>1. PICK N \in SUBSET Problem : Solves(N)
    BY DEF DivideInv
<1>2. PICK p, d0 : p = DQ!Top(t) /\ d0 = Depth(t) - 1
    OBVIOUS
<1>3. Stacks /\ DQ!Calls(t, "solve")
    BY DEF DivideInv, DivideTypes, DQ!Conquer
<1>4. /\ p \in Problem /\ stack[t] # <<>> /\ Does(t, "solve", p) /\ d0 \in Nat
      /\ \A o, x : Does(t, o, x) => o = "solve" /\ x = p
    BY <1>2, <1>3, Innermost
<1>5. /\ Len(Sub[p]) >= 2 /\ count' = [count EXCEPT ![p] = Len(Sub[p])]
      /\ DQ!Becomes(t, <<DQ!loop2(p, 1)>>)
      /\ UNCHANGED <<store, cells, freed, solved>> /\ UNCHANGED DQ!waiter
    BY <1>2 DEF DQ!Conquer
<1>6. Waits(p) /\ Len(Sub[p]) \in Nat
    BY <1>4, TreeFacts DEF Waits
<1>7. /\ p \notin N /\ p \notin solved /\ Children(p) \subseteq N
      /\ \A u \in SThread : ~Does(u, "decget", p)
      /\ ~InStore(p) /\ \A u \in SThread : Does(u, "solve", p) => u = t
    BY <1>1, <1>4, <1>6 DEF Solves, Untouched, WaitsOnce
<1>8. Replaces(t, {}, {DQ!loop2(p, 1)})
  <2>1. Fits(<<DQ!loop2(p, 1)>>, {}, {DQ!loop2(p, 1)})
    BY <1>4, FrameFields DEF Fits
  <2> QED BY <1>3, <1>4, <1>5, <2>1, ReplacedBecomes
<1>9. /\ \A u \in SThread, x \in Problem :
            /\ Does(u, "solve", x)' <=> u # t /\ Does(u, "solve", x)
            /\ Does(u, "k0", x)' <=> Does(u, "k0", x)
            /\ Does(u, "decget", x)' <=> Does(u, "decget", x)
            /\ Does(u, "put", x)' <=> Does(u, "put", x)
      /\ Stacks'
    BY <1>4, <1>8 DEF Replaces, TopOp
<1>10. \A u \in SThread, d \in Nat, x \in Problem, i \in Nat : Loop(u, d, x, i)' =>
          Loop(u, d, x, i) \/ (u = t /\ d = d0 /\ x = p /\ i = 1)
  <2>1. \A x \in Problem, i \in Nat : DQ!loop2(x, i) = DQ!loop2(p, 1) => x = p /\ i = 1
    BY <1>4, FrameFields
  <2> QED BY <1>2, <1>8, <2>1 DEF Replaces
<1>11. \A x : InStore(x)' <=> InStore(x)
    BY <1>5 DEF InStore
<1>12. \A x \in Problem : Waits(x)' <=> Waits(x) /\ x # p
    BY <1>4, <1>7, <1>9, <1>11 DEF Waits
<1>13. OneTicket' /\ Given' = Given /\ Given # "none"
    BY <1>4, <1>5, TicketKept, StackGiven DEF DivideInv
<1>14. DivideTypes'
  <2>1. DivideTypes
    BY DEF DivideInv
  <2>2. count' \in [Problem -> Nat]
    BY <1>5, <1>6, <2>1 DEF DivideTypes
  <2> QED BY <1>5, <1>9, <2>1, <2>2 DEF DivideTypes
<1>15. Untouched(N)'
    BY <1>1, <1>5, <1>9, <1>12, <1>13 DEF Solves, Untouched
<1>16. WaitsOnce(N)'
  <2>1. \A x \in Problem : Waits(x)' =>
          /\ x \notin solved' /\ Children(x) \subseteq N
          /\ \A u \in SThread : ~Does(u, "decget", x)'
    BY <1>1, <1>5, <1>9, <1>12 DEF Solves, WaitsOnce
  <2>2. \A i, j \in DOMAIN store' : store'[i] = store'[j] => i = j
    BY <1>1, <1>5 DEF Solves, WaitsOnce
  <2>3. \A x \in Problem, u \in SThread : Does(u, "solve", x)' => ~InStore(x)'
    BY <1>1, <1>9, <1>11 DEF Solves, WaitsOnce
  <2>4. \A x \in Problem, u, v \in SThread : Does(u, "solve", x)' /\ Does(v, "solve", x)' => u = v
    BY <1>1, <1>9 DEF Solves, WaitsOnce
  <2> QED BY <2>1, <2>2, <2>3, <2>4 DEF WaitsOnce
<1>17. Loops(N)'
  <2>1. \A u \in SThread, d \in Nat, i \in Nat : ~Loop(u, d, p, i)
    BY <1>1, <1>4, <1>6 DEF Solves, Loops
  <2>2. ASSUME NEW u \in SThread, NEW d \in Nat, NEW x \in Problem, NEW i \in Nat,
               Loop(u, d, x, i)'
        PROVE  /\ x \notin N /\ ~Waits(x)' /\ Len(Sub[x]) >= 2 /\ i \in 1..Len(Sub[x])
               /\ \A j \in i..Len(Sub[x]) : Sub[x][j] \in N
    <3>1. CASE Loop(u, d, x, i)
        BY <3>1, <1>1, <1>12 DEF Solves, Loops
    <3>2. CASE x = p /\ i = 1
        <4>1. 1 \in 1..Len(Sub[p])
            BY <1>5, <1>6
        <4>2. \A j \in 1..Len(Sub[p]) : Sub[p][j] \in N
            BY <1>4, <1>7, TreeFacts
        <4> QED BY <3>2, <4>1, <4>2, <1>5, <1>7, <1>12
    <3> QED BY <2>2, <3>1, <3>2, <1>10
  <2>3. \A u, v \in SThread, d, e \in Nat, x \in Problem, i, j \in Nat :
           Loop(u, d, x, i)' /\ Loop(v, e, x, j)' => u = v /\ d = e
    <3> SUFFICES ASSUME NEW u \in SThread, NEW v \in SThread, NEW d \in Nat, NEW e \in Nat,
                        NEW x \in Problem, NEW i \in Nat, NEW j \in Nat,
                        Loop(u, d, x, i)' /\ Loop(v, e, x, j)'
                 PROVE  u = v /\ d = e
        OBVIOUS
    <3>1. CASE x = p
        BY <3>1, <2>1, <1>10
    <3>2. CASE x # p
        <4>1. Loop(u, d, x, i) /\ Loop(v, e, x, j)
            BY <3>2, <1>10
        <4> QED BY <4>1, <1>1 DEF Solves, Loops
    <3> QED BY <3>1, <3>2
  <2> QED BY <2>2, <2>3 DEF Loops
<1>18. Solutions'
  <2>1. SolutionOnce'
    BY <1>5, <1>9 DEF DivideInv, Solutions, SolutionOnce
  <2>2. SolvedAfter'
    BY <1>5, <1>9, TreeFacts DEF DivideInv, DivideTypes, Solutions, SolvedAfter
  <2>3. DecgetBefore'
    BY <1>5, <1>9 DEF DivideInv, Solutions, DecgetBefore
  <2> QED BY <2>1, <2>2, <2>3 DEF Solutions
<1>19. Counters(N)'
  <2>1. \A x \in Problem : Unwritten(x)' = Unwritten(x) /\ Decrementing(x)' = Decrementing(x)
    BY <1>5, <1>9 DEF Unwritten, Decrementing
  <2>2. Unwritten(p) = 1..Len(Sub[p]) /\ Decrementing(p) = {}
    <3>1. \A i \in 1..Len(Sub[p]) : Sub[p][i] \notin cells
        BY <1>1, <1>4, <1>7, TreeFacts DEF Solves, Untouched
    <3> QED BY <1>4, <1>7, <3>1, TreeFacts DEF Unwritten, Decrementing
  <2>3. Cardinality(1..Len(Sub[p])) = Len(Sub[p]) /\ Cardinality({}) = 0
    <3>1. 1 \in Int /\ Len(Sub[p]) \in Int /\ ~(1 > Len(Sub[p])) /\ Len(Sub[p]) - 1 + 1 = Len(Sub[p])
        BY <1>5, <1>6
    <3>2. Cardinality(1..Len(Sub[p])) = Len(Sub[p]) - 1 + 1
        BY <3>1, FS_Interval
    <3> QED BY <3>1, <3>2, FS_EmptySet
  <2>4. count'[p] = Cardinality(Unwritten(p)') + Cardinality(Decrementing(p)')
    <3>1. count'[p] = Len(Sub[p])
        BY <1>4, <1>5 DEF DivideInv, DivideTypes
    <3>2. Cardinality(Unwritten(p)') = Len(Sub[p]) /\ Cardinality(Decrementing(p)') = 0
        BY <1>4, <2>1, <2>2, <2>3
    <3> QED BY <1>6, <3>1, <3>2
  <2>5. \A x \in Problem : Len(Sub[x]) >= 2 /\ x \notin N /\ ~Waits(x)' /\ x \notin solved' =>
            count'[x] = Cardinality(Unwritten(x)') + Cardinality(Decrementing(x)')
    <3> SUFFICES ASSUME NEW x \in Problem,
                        Len(Sub[x]) >= 2 /\ x \notin N /\ ~Waits(x)' /\ x \notin solved'
                 PROVE  count'[x] = Cardinality(Unwritten(x)') + Cardinality(Decrementing(x)')
        OBVIOUS
    <3>1. CASE x = p
        BY <3>1, <2>4
    <3>2. CASE x # p
        <4>1. count'[x] = count[x]
            BY <1>5, <3>2 DEF DivideInv, DivideTypes
        <4>2. ~Waits(x) /\ x \notin solved
            BY <1>5, <1>12, <3>2
        <4> QED BY <4>1, <4>2, <1>1, <2>1 DEF Solves, Counters
    <3> QED BY <3>1, <3>2
  <2> QED BY <2>5 DEF Counters
<1>20. RootTicket'
    BY <1>5, <1>9, <1>13 DEF DivideInv, RootTicket
<1> QED BY <1>13, <1>14, <1>15, <1>16, <1>17, <1>18, <1>19, <1>20 DEF DivideInv, Solves

\* The ticket is put for the caller.
LEMMA TicketPutStep ==
    ASSUME DivideInv, NEW t \in SThread, DQ!TicketPut(t)
    PROVE  DivideInv'
<1>1. PICK N \in SUBSET Problem : Solves(N)
    BY DEF DivideInv
<1>2. Stacks /\ DQ!Calls(t, "put")
    BY DEF DivideInv, DivideTypes, DQ!TicketPut
<1>3. PICK p : p = DQ!Top(t)
    OBVIOUS
<1>4. /\ p \in Problem /\ stack[t] # <<>> /\ Does(t, "put", p)
      /\ \A o, x : Does(t, o, x) => o = "put" /\ x = p
    BY <1>2, <1>3, Innermost
<1>5. NW!Put("NWT")
    BY DEF DQ!TicketPut, DQ!Ticket, DQ!NW!Put, DQ!NW!Decrement, DQ!NW!Reread, DQ!NW!Unlock,
           DQ!NW!Putting, NW!Put, NW!Decrement, NW!Reread, NW!Unlock, NW!Putting
<1>6. PICK fs : fs = IF Given' = "spent" THEN <<>> ELSE <<DQ!put>>
    OBVIOUS
<1>7. /\ DQ!Becomes(t, fs) /\ UNCHANGED <<store, cells, count, freed, solved>>
    BY <1>6 DEF DQ!TicketPut, DQ!Ticket, Given
<1>8. PICK F : F = IF Given' = "spent" THEN {} ELSE {DQ!put}
    OBVIOUS
<1>9. DQ!put \in DQ!FrameSet /\ DQ!put.op = "put" /\ DQ!put.p = Root
    BY TreeFacts DEF DQ!put, DQ!Frame, DQ!FrameSet
<1>10. Replaces(t, F, {})
  <2>1. Fits(fs, F, {})
    BY <1>6, <1>8, <1>9 DEF Fits, TopOp
  <2> QED BY <1>2, <1>4, <1>7, <2>1, ReplacedBecomes
<1>11. /\ \A u \in SThread, x \in Problem :
            /\ Does(u, "solve", x)' <=> Does(u, "solve", x)
            /\ Does(u, "k0", x)' <=> Does(u, "k0", x)
            /\ Does(u, "decget", x)' <=> Does(u, "decget", x)
            /\ Does(u, "put", x)' <=> IF u = t THEN Given' # "spent" /\ x = Root
                                      ELSE Does(u, "put", x)
       /\ \A u \in SThread, d \in Nat, x \in Problem, i \in Nat :
            Loop(u, d, x, i)' => Loop(u, d, x, i)
       /\ Stacks'
  <2>1. \A f \in F : f = DQ!put
    BY <1>8
  <2>2. (\E f \in F : TRUE) <=> Given' # "spent"
    BY <1>8
  <2> QED BY <1>4, <1>9, <1>10, <2>1, <2>2 DEF Replaces, TopOp
<1>12. /\ OneTicket' /\ Given \in {"held", "counted", "unlocking"}
       /\ Given' \in {"counted", "unlocking", "spent"}
    BY <1>5, PutTicketStep DEF DivideInv
<1>13. DivideTypes'
  <2>1. DivideTypes
    BY DEF DivideInv
  <2> QED BY <1>7, <1>11, <2>1 DEF DivideTypes
<1>14. \A x : InStore(x)' <=> InStore(x)
    BY <1>7 DEF InStore
<1>15. \A x \in Problem : Waits(x)' <=> Waits(x)
    BY <1>11, <1>14 DEF Waits
<1>16. Untouched(N)'
    BY <1>1, <1>7, <1>11, <1>12, <1>15 DEF Solves, Untouched
<1>17. WaitsOnce(N)'
    BY <1>1, <1>7, <1>11, <1>14, <1>15 DEF Solves, WaitsOnce
<1>18. Loops(N)'
    BY <1>1, <1>11, <1>15, LoopsKept DEF Solves
<1>19. Solutions'
  <2>1. SolutionOnce'
    BY <1>7, <1>11 DEF DivideInv, Solutions, SolutionOnce
  <2>2. SolvedAfter'
    BY <1>7, <1>11, TreeFacts DEF DivideInv, DivideTypes, Solutions, SolvedAfter
  <2>3. DecgetBefore'
    BY <1>7, <1>11 DEF DivideInv, Solutions, DecgetBefore
  <2> QED BY <2>1, <2>2, <2>3 DEF Solutions
<1>20. Counters(N)'
  <2>1. \A x \in Problem : Unwritten(x)' = Unwritten(x) /\ Decrementing(x)' = Decrementing(x)
    BY <1>7, <1>11 DEF Unwritten, Decrementing
  <2> QED BY <1>1, <1>7, <1>15, <2>1 DEF Solves, Counters
<1>21. RootTicket'
  <2>1. Root \in cells /\ \A u \in SThread, x \in Problem : Does(u, "put", x) => u = t
    BY <1>4 DEF DivideInv, RootTicket
  <2> QED BY <1>7, <1>11, <1>12, <2>1 DEF RootTicket
<1> QED BY <1>12, <1>13, <1>16, <1>17, <1>18, <1>19, <1>20, <1>21 DEF DivideInv, Solves

\* What the tail of the store holds.
LEMMA StoreShrinks ==
    ASSUME store \in Seq(Problem), store # <<>>, NEW p, p = Head(store), store' = Tail(store),
           \A i, j \in DOMAIN store : store[i] = store[j] => i = j
    PROVE  /\ store' \in Seq(Problem) /\ p \in Problem
           /\ \A x : InStore(x) <=> InStore(x)' \/ x = p
           /\ ~InStore(p)'
           /\ \A i, j \in DOMAIN store' : store'[i] = store'[j] => i = j
<1>1. PICK L : L = Len(store)
    OBVIOUS
<1>2. L \in Nat \ {0} /\ DOMAIN store = 1..L /\ p = store[1]
    BY <1>1, EmptySeq, LenProperties
<1>3. /\ store' \in Seq(Problem) /\ Len(store') = L - 1
      /\ \A i \in 1..L - 1 : store'[i] = store[i + 1]
    BY <1>1, <1>2, HeadTailProperties
<1>4. DOMAIN store' = 1..L - 1
    BY <1>2, <1>3, LenProperties
<1>5. 1 \in 1..L /\ \A i \in 1..L - 1 : i + 1 \in 1..L /\ i + 1 # 1
    BY <1>2
<1>6. \A i \in 1..L : i = 1 \/ \E j \in 1..L - 1 : i = j + 1
  <2>1. \A i \in 1..L : i # 1 => i - 1 \in 1..L - 1 /\ i = (i - 1) + 1
    BY <1>2
  <2> QED BY <2>1
<1>7. \A i, j \in 1..L : store[i] = store[j] => i = j
    BY <1>2
<1>8. p \in Problem
    BY <1>2, <1>5, ElementOfSeq
<1>9. \A x : InStore(x)' <=> \E i \in 1..L - 1 : store'[i] = x
    BY <1>4 DEF InStore
<1>10. \A x : InStore(x) <=> \E i \in 1..L : store[i] = x
    BY <1>2 DEF InStore
<1>11. \A x : InStore(x) <=> InStore(x)' \/ x = p
  <2>1. ASSUME NEW x, InStore(x) PROVE InStore(x)' \/ x = p
    <3>1. PICK i \in 1..L : store[i] = x
        BY <1>10, <2>1
    <3>2. i = 1 \/ \E j \in 1..L - 1 : i = j + 1
        BY <1>6
    <3> QED BY <1>2, <1>3, <1>9, <3>1, <3>2
  <2>2. ASSUME NEW x, InStore(x)' PROVE InStore(x)
    <3>1. PICK i \in 1..L - 1 : store'[i] = x
        BY <1>9, <2>2
    <3> QED BY <1>3, <1>5, <1>10, <3>1
  <2>3. InStore(p)
    BY <1>2, <1>5, <1>10
  <2> QED BY <2>1, <2>2, <2>3
<1>12. ~InStore(p)'
    BY <1>2, <1>3, <1>5, <1>7, <1>9
<1>13. \A i, j \in 1..L - 1 : store'[i] = store'[j] => i = j
  <2> SUFFICES ASSUME NEW i \in 1..L - 1, NEW j \in 1..L - 1, store'[i] = store'[j]
               PROVE  i = j
    OBVIOUS
  <2>1. i + 1 = j + 1
    BY <1>3, <1>5, <1>7
  <2> QED BY <1>2, <2>1
<1> QED BY <1>3, <1>4, <1>8, <1>11, <1>12, <1>13

\* A worker takes out a submitted problem.
LEMMA TakeoutStep ==
    ASSUME DivideInv, NEW t \in SThread, DQ!Takeout(t)
    PROVE  DivideInv'
<1>1. PICK N \in SUBSET Problem : Solves(N)
    BY DEF DivideInv
<1>2. PICK p : p = Head(store)
    OBVIOUS
<1>3. /\ Stacks /\ stack[t] = <<>> /\ store # <<>>
      /\ stack' = [stack EXCEPT ![t] = <<DQ!solve(p)>>] /\ store' = Tail(store)
      /\ UNCHANGED <<cells, count, freed, solved>> /\ UNCHANGED DQ!waiter
    BY <1>2 DEF DivideInv, DivideTypes, DQ!Takeout
<1>4. /\ store' \in Seq(Problem) /\ p \in Problem
      /\ \A x : InStore(x) <=> InStore(x)' \/ x = p
      /\ ~InStore(p)'
      /\ \A i, j \in DOMAIN store' : store'[i] = store'[j] => i = j
  <2>1. store \in Seq(Problem) /\ \A i, j \in DOMAIN store : store[i] = store[j] => i = j
    BY <1>1 DEF DivideInv, DivideTypes, Solves, WaitsOnce
  <2> QED BY <1>2, <1>3, <2>1, StoreShrinks
<1>5. \A o, x : ~Does(t, o, x)
    BY <1>3 DEF Does, DQ!Calls
<1>6. Replaces(t, {DQ!solve(p)}, {})
  <2>1. DQ!solve(p) \in DQ!FrameSet /\ DQ!solve(p).op \in TopOp
    BY <1>4, FrameFields DEF TopOp
  <2>2. PICK f \in DQ!FrameSet : f = DQ!solve(p)
    BY <2>1
  <2> QED BY <1>3, <2>1, <2>2, ReplacedPush
<1>7. /\ \A u \in SThread, x \in Problem :
            /\ Does(u, "solve", x)' <=> Does(u, "solve", x) \/ (u = t /\ x = p)
            /\ Does(u, "k0", x)' <=> Does(u, "k0", x)
            /\ Does(u, "decget", x)' <=> Does(u, "decget", x)
            /\ Does(u, "put", x)' <=> Does(u, "put", x)
      /\ \A u \in SThread, d \in Nat, x \in Problem, i \in Nat :
            Loop(u, d, x, i)' => Loop(u, d, x, i)
      /\ Stacks'
    BY <1>4, <1>5, <1>6, FrameFields DEF Replaces, TopOp
<1>8. InStore(p) /\ \A u \in SThread : ~Does(u, "solve", p)
    BY <1>1, <1>4 DEF Solves, WaitsOnce
<1>9. \A x \in Problem : Waits(x)' <=> Waits(x)
    BY <1>4, <1>7, <1>8 DEF Waits
<1>10. OneTicket' /\ Given' = Given
    BY <1>3, TicketKept DEF DivideInv
<1>11. DivideTypes'
  <2>1. DivideTypes
    BY DEF DivideInv
  <2> QED BY <1>3, <1>4, <1>7, <2>1 DEF DivideTypes
<1>12. Untouched(N)'
    BY <1>1, <1>3, <1>7, <1>9, <1>10 DEF Solves, Untouched
<1>13. WaitsOnce(N)'
  <2>1. \A x \in Problem : Waits(x)' =>
          /\ x \notin solved' /\ Children(x) \subseteq N
          /\ \A u \in SThread : ~Does(u, "decget", x)'
    BY <1>1, <1>3, <1>7, <1>9 DEF Solves, WaitsOnce
  <2>2. \A x \in Problem, u \in SThread : Does(u, "solve", x)' => ~InStore(x)'
    BY <1>1, <1>4, <1>7 DEF Solves, WaitsOnce
  <2>3. \A x \in Problem, u, v \in SThread : Does(u, "solve", x)' /\ Does(v, "solve", x)' => u = v
    BY <1>1, <1>7, <1>8 DEF Solves, WaitsOnce
  <2> QED BY <1>4, <2>1, <2>2, <2>3 DEF WaitsOnce
<1>14. Loops(N)'
    BY <1>1, <1>7, <1>9, LoopsKept DEF Solves
<1>15. Solutions'
  <2>1. SolutionOnce'
    BY <1>3, <1>7 DEF DivideInv, Solutions, SolutionOnce
  <2>2. SolvedAfter'
    BY <1>3, <1>7, TreeFacts DEF DivideInv, DivideTypes, Solutions, SolvedAfter
  <2>3. DecgetBefore'
    BY <1>3, <1>7 DEF DivideInv, Solutions, DecgetBefore
  <2> QED BY <2>1, <2>2, <2>3 DEF Solutions
<1>16. Counters(N)'
  <2>1. \A x \in Problem : Unwritten(x)' = Unwritten(x) /\ Decrementing(x)' = Decrementing(x)
    BY <1>3, <1>7 DEF Unwritten, Decrementing
  <2> QED BY <1>1, <1>3, <1>9, <2>1 DEF Solves, Counters
<1>17. RootTicket'
  <2>1. Given # "none"
    BY <1>3 DEF DivideInv, RootTicket
  <2> QED BY <1>3, <1>7, <1>10, <2>1 DEF DivideInv, RootTicket
<1> QED BY <1>10, <1>11, <1>12, <1>13, <1>14, <1>15, <1>16, <1>17 DEF DivideInv, Solves

\* The caller begins with the root.
LEMMA StartStep ==
    ASSUME DivideInv, DQ!Start
    PROVE  DivideInv'
<1>1. PICK t, N : t = caller /\ N = Problem \ {Root}
    OBVIOUS
<1>2. NW!InitiateLock("NWT")
    BY DEF DQ!Start, DQ!Ticket, DQ!NW!InitiateLock, DQ!NW!Fresh, NW!InitiateLock, NW!Fresh
<1>3. OneTicket' /\ Given = "none" /\ Given' = "held"
    BY <1>2, InitiateLockTicketStep DEF DivideInv
<1>4. /\ Stacks /\ t \in SThread /\ stack[t] = <<>> /\ store = <<>> /\ solved = {}
      /\ stack' = [stack EXCEPT ![t] = <<DQ!solve(Root)>>]
      /\ UNCHANGED <<store, cells, count, freed, solved>>
    BY <1>1, <1>3 DEF DivideInv, DivideTypes, RootTicket, DQ!Start, SThread
<1>5. Replaces(t, {DQ!solve(Root)}, {})
  <2>1. DQ!solve(Root) \in DQ!FrameSet /\ DQ!solve(Root).op \in TopOp
    BY FrameFields, TreeFacts DEF TopOp
  <2>2. PICK f \in DQ!FrameSet : f = DQ!solve(Root)
    BY <2>1
  <2> QED BY <1>4, <2>1, <2>2, ReplacedPush
<1>6. \A u \in SThread : stack[u] = <<>>
    BY <1>3 DEF DivideInv, RootTicket
<1>7. /\ \A u \in SThread : \A o, x : ~Does(u, o, x)
      /\ \A u \in SThread, d \in Nat, x \in Problem, i \in Nat : ~Loop(u, d, x, i)
  <2>1. \A u \in SThread : \A o, x : ~Does(u, o, x)
    BY <1>6 DEF Does, DQ!Calls
  <2>2. \A u \in SThread, d \in Nat : ~(d < Depth(u))
    <3>1. \A u \in SThread : Depth(u) = 0
        BY <1>4, <1>6, TopIs
    <3> QED BY <3>1
  <2> QED BY <2>1, <2>2 DEF Loop
<1>8. /\ \A u \in SThread, x \in Problem :
            /\ Does(u, "solve", x)' <=> u = t /\ x = Root
            /\ ~Does(u, "k0", x)'
            /\ ~Does(u, "decget", x)'
            /\ ~Does(u, "put", x)'
      /\ \A u \in SThread, d \in Nat, x \in Problem, i \in Nat : ~Loop(u, d, x, i)'
      /\ Stacks'
    BY <1>5, <1>7, FrameFields, TreeFacts DEF Replaces, TopOp
<1>9. \A x : ~InStore(x)'
    BY <1>4 DEF InStore
<1>10. \A x \in Problem : Waits(x)' <=> x = Root
    BY <1>4, <1>8, <1>9 DEF Waits
<1>11. cells = {} /\ freed = {}
    BY <1>4 DEF DivideInv, Solutions, DecgetBefore
<1>12. DivideTypes'
  <2>1. DivideTypes
    BY DEF DivideInv
  <2> QED BY <1>4, <1>8, <2>1 DEF DivideTypes
<1>13. Untouched(N)'
  <2>1. \A x \in Problem : Children(x) \subseteq N
    BY <1>1, TreeFacts
  <2> QED BY <1>1, <1>3, <1>4, <1>8, <1>10, <1>11, <2>1 DEF Untouched
<1>14. WaitsOnce(N)'
  <2>1. Children(Root) \subseteq N
    BY <1>1, TreeFacts
  <2>2. \A i, j \in DOMAIN store' : store'[i] = store'[j] => i = j
    BY <1>9 DEF InStore
  <2> QED BY <1>4, <1>8, <1>9, <1>10, <2>1, <2>2 DEF WaitsOnce
<1>15. Loops(N)'
    BY <1>8 DEF Loops
<1>16. Solutions'
    BY <1>4, <1>8, <1>11 DEF Solutions, SolutionOnce, SolvedAfter, DecgetBefore
<1>17. Counters(N)'
    BY <1>1, <1>10 DEF Counters
<1>18. RootTicket'
    BY <1>3, <1>8 DEF RootTicket
<1>19. N \in SUBSET Problem
    BY <1>1
<1> QED BY <1>3, <1>12, <1>13, <1>14, <1>15, <1>16, <1>17, <1>18, <1>19 DEF DivideInv, Solves

\* Steps that leave the ticket and all but the nwaiter alone.
LEMMA CallerStep ==
    ASSUME DivideInv, OneTicket', Given' = Given,
           UNCHANGED <<store, stack, cells, count, freed, solved>>
    PROVE  DivideInv'
<1>1. PICK N \in SUBSET Problem : Solves(N)
    BY DEF DivideInv
<1>2. /\ \A t, op, p : Does(t, op, p)' <=> Does(t, op, p)
      /\ \A t, d, p, i : Loop(t, d, p, i)' <=> Loop(t, d, p, i)
      /\ \A p : InStore(p)' <=> InStore(p)
    BY DEF Does, DQ!Calls, DQ!Top, Loop, Depth, Deep, InStore
<1>3. \A p : Waits(p)' <=> Waits(p)
    BY <1>2 DEF Waits
<1>4. DivideTypes'
    BY DEF DivideInv, DivideTypes, Stacks, Depth, Deep
<1>5. Untouched(N)'
    BY <1>1, <1>2, <1>3 DEF Solves, Untouched
<1>6. WaitsOnce(N)'
    BY <1>1, <1>2, <1>3 DEF Solves, WaitsOnce
<1>7. Loops(N)'
    BY <1>1, <1>2, <1>3 DEF Solves, Loops
<1>8. Solutions'
    BY <1>2 DEF DivideInv, Solutions, SolutionOnce, SolvedAfter, DecgetBefore
<1>9. Counters(N)'
  <2>1. \A x \in Problem : Unwritten(x)' = Unwritten(x) /\ Decrementing(x)' = Decrementing(x)
    BY <1>2 DEF Unwritten, Decrementing
  <2> QED BY <1>1, <1>3, <2>1 DEF Solves, Counters
<1>10. RootTicket'
    BY <1>2 DEF DivideInv, RootTicket
<1> QED BY <1>4, <1>5, <1>6, <1>7, <1>8, <1>9, <1>10 DEF DivideInv, Solves

\* At first every problem is untouched.
LEMMA DivideInit ==
    ASSUME DQ!Init
    PROVE  DivideInv
<1>1. PICK N : N = Problem
    OBVIOUS
<1>2. /\ store = <<>> /\ cells = {} /\ freed = {} /\ solved = {}
      /\ stack = [t \in SThread |-> <<>>] /\ count = [p \in Problem |-> 0]
    BY DEF DQ!Init, DQ!Thread, SThread
<1>3. OneTicket /\ Given = "none"
    BY DEF DQ!Init, DQ!NW!Init, DQ!Ticket, OneTicket, Given, NW!Owner, NW!PC
<1>4. \A t \in SThread : stack[t] = <<>>
    BY <1>2
<1>5. Stacks /\ \A t \in SThread, d \in Nat : ~(d < Depth(t))
  <2>1. \A t \in SThread : Depth(t) = 0
    BY <1>4 DEF Depth
  <2>2. stack \in [SThread -> Seq(DQ!FrameSet)]
    BY <1>2, EmptySeq
  <2>3. \A t \in SThread, d \in Nat : ~(d + 1 < Depth(t)) /\ ~(d < Depth(t))
    BY <2>1
  <2> QED BY <2>2, <2>3 DEF Stacks
<1>6. /\ \A t \in SThread : \A o, x : ~Does(t, o, x)
      /\ \A t \in SThread, d \in Nat, x \in Problem, i \in Nat : ~Loop(t, d, x, i)
      /\ \A x : ~InStore(x)
    BY <1>2, <1>4, <1>5 DEF Does, DQ!Calls, Loop, InStore
<1>7. \A x : ~Waits(x)
    BY <1>6 DEF Waits
<1>8. DivideTypes
    BY <1>2, <1>5, EmptySeq DEF DivideTypes
<1>9. Untouched(N)
    BY <1>1, <1>2, <1>6, <1>7, TreeFacts DEF Untouched
<1>10. WaitsOnce(N)
  <2>1. \A i, j \in DOMAIN store : store[i] = store[j] => i = j
    BY <1>6 DEF InStore
  <2> QED BY <1>6, <1>7, <2>1 DEF WaitsOnce
<1>11. Loops(N)
    BY <1>6 DEF Loops
<1>12. Solutions
    BY <1>2, <1>6 DEF Solutions, SolutionOnce, SolvedAfter, DecgetBefore
<1>13. Counters(N)
    BY <1>1 DEF Counters
<1>14. RootTicket
    BY <1>2, <1>3, <1>4, <1>6 DEF RootTicket
<1> QED BY <1>1, <1>3, <1>8, <1>9, <1>10, <1>11, <1>12, <1>13, <1>14 DEF DivideInv, Solves

\* The steps over a list are those over a channel, but for the submission.
LEMMA SolverStep ==
    ASSUME DivideInv, NEW t \in SThread, DL!Work(t) \/ DQ!Work(t)
    PROVE  DivideInv'
<1>1. CASE DL!SolveBase(t) \/ DQ!SolveBase(t)
  <2>1. DQ!SolveBase(t)
    BY <1>1 DEF DL!SolveBase, DQ!SolveBase, DL!Calls, DQ!Calls, DL!Top, DQ!Top,
                DL!Becomes, DQ!Becomes, DL!k0, DQ!k0, DL!Frame, DQ!Frame, DL!waiter, DQ!waiter
  <2> QED BY <2>1, SolveBaseStep
<1>2. CASE DL!SolveOne(t) \/ DQ!SolveOne(t)
  <2>1. DQ!SolveOne(t)
    BY <1>2 DEF DL!SolveOne, DQ!SolveOne, DL!Calls, DQ!Calls, DL!Top, DQ!Top,
                DL!Becomes, DQ!Becomes, DL!solve, DQ!solve, DL!Frame, DQ!Frame, DL!waiter, DQ!waiter
  <2> QED BY <2>1, SolveOneStep
<1>3. CASE DL!Conquer(t) \/ DQ!Conquer(t)
  <2>1. DQ!Conquer(t)
    BY <1>3 DEF DL!Conquer, DQ!Conquer, DL!Calls, DQ!Calls, DL!Top, DQ!Top,
                DL!Becomes, DQ!Becomes, DL!loop2, DQ!loop2, DL!Frame, DQ!Frame, DL!waiter, DQ!waiter
  <2> QED BY <2>1, ConquerStep
<1>4. CASE DL!Submit(t)
  <2>1. Submits(t)
    BY <1>4 DEF DL!Submit, Submits, DL!Calls, DQ!Calls, DL!Top, DQ!Top, DL!Current, DQ!Current,
                DL!Rest, DQ!Rest,
                DL!Becomes, DQ!Becomes, DL!loop2, DQ!loop2, DL!Frame, DQ!Frame, DL!waiter, DQ!waiter
  <2> QED BY <2>1, SubmitStep
<1>5. CASE DQ!Submit(t)
  <2>1. Submits(t)
    BY <1>5, DivideConquerParAssumption DEF DQ!Submit, Submits, DQ!waiter
  <2> QED BY <2>1, SubmitStep
<1>6. CASE DL!SubmitFull(t) \/ DQ!SubmitFull(t)
  <2>1. DQ!SubmitFull(t)
    BY <1>6 DEF DL!SubmitFull
  <2> QED BY <2>1, SubmitFullStep
<1>7. CASE DL!ReturnRoot(t) \/ DQ!ReturnRoot(t)
  <2>1. DQ!ReturnRoot(t)
    BY <1>7 DEF DL!ReturnRoot, DQ!ReturnRoot, DL!Calls, DQ!Calls, DL!Top, DQ!Top,
                DL!Becomes, DQ!Becomes, DL!put, DQ!put, DL!Frame, DQ!Frame, DL!waiter, DQ!waiter
  <2> QED BY <2>1, ReturnRootStep
<1>8. CASE DL!ReturnOnly(t) \/ DQ!ReturnOnly(t)
  <2>1. DQ!ReturnOnly(t)
    BY <1>8 DEF DL!ReturnOnly, DQ!ReturnOnly, DL!Calls, DQ!Calls, DL!Top, DQ!Top,
                DL!Becomes, DQ!Becomes, DL!k0, DQ!k0, DL!Frame, DQ!Frame, DL!waiter, DQ!waiter,
                DL!IsOnly, DQ!IsOnly, DL!parent, DQ!parent, DL!Subproblems, DQ!Subproblems
  <2> QED BY <2>1, ReturnOnlyStep
<1>9. CASE DL!Return(t) \/ DQ!Return(t)
  <2>1. DQ!Return(t)
    BY <1>9 DEF DL!Return, DQ!Return, DL!Calls, DQ!Calls, DL!Top, DQ!Top,
                DL!Becomes, DQ!Becomes, DL!decget, DQ!decget, DL!Frame, DQ!Frame, DL!waiter, DQ!waiter,
                DL!IsOnly, DQ!IsOnly, DL!parent, DQ!parent, DL!Subproblems, DQ!Subproblems
  <2> QED BY <2>1, ReturnStep
<1>10. CASE DL!Decget(t) \/ DQ!Decget(t)
  <2>1. DQ!Decget(t)
    BY <1>10 DEF DL!Decget, DQ!Decget, DL!Calls, DQ!Calls, DL!Top, DQ!Top,
                DL!Becomes, DQ!Becomes, DL!k0, DQ!k0, DL!Frame, DQ!Frame, DL!waiter, DQ!waiter
  <2> QED BY <2>1, DecgetEarlyStep, DecgetLastStep
<1>11. CASE DL!TicketPut(t) \/ DQ!TicketPut(t)
  <2>1. DQ!TicketPut(t)
    BY <1>11 DEF DL!TicketPut, DQ!TicketPut, DL!Calls, DQ!Calls, DL!Ticket, DQ!Ticket,
                DL!Becomes, DQ!Becomes, DL!put, DQ!put, DL!Frame, DQ!Frame,
                DL!NW!Put, DQ!NW!Put, DL!NW!Decrement, DQ!NW!Decrement, DL!NW!Reread, DQ!NW!Reread,
                DL!NW!Unlock, DQ!NW!Unlock, DL!NW!Putting, DQ!NW!Putting
  <2> QED BY <2>1, TicketPutStep
<1> QED
    BY <1>1, <1>2, <1>3, <1>4, <1>5, <1>6, <1>7, <1>8, <1>9, <1>10, <1>11 DEF DL!Work, DQ!Work

\* Every step of a call keeps the invariant.
LEMMA DivideStep ==
    ASSUME DivideInv, DL!Next \/ DQ!Next
    PROVE  DivideInv'
<1>1. CASE DL!Initiate \/ DQ!Initiate
  <2>1. NW!Initiate /\ UNCHANGED <<store, stack, cells, count, freed, solved>>
    BY <1>1 DEF DL!Initiate, DQ!Initiate, DL!NW!Initiate, DQ!NW!Initiate, NW!Initiate
  <2>2. OneTicket' /\ Given' = Given
    BY <2>1, OwnerTicketStep DEF DivideInv
  <2> QED BY <2>1, <2>2, CallerStep
<1>2. CASE DL!Start \/ DQ!Start
  <2>1. DQ!Start
    BY <1>2 DEF DL!Start, DQ!Start, DL!Ticket, DQ!Ticket, DL!NW!InitiateLock, DQ!NW!InitiateLock,
                DL!NW!Fresh, DQ!NW!Fresh, DL!solve, DQ!solve, DL!Frame, DQ!Frame
  <2> QED BY <2>1, StartStep
<1>3. CASE DL!Wait \/ DQ!Wait
  <2>1. /\ \/ NW!Waitfor \/ NW!WaitforLock \/ NW!WaitforUnlock
           \/ NW!Destroy /\ round = 1
        /\ UNCHANGED <<store, stack, cells, count, freed, solved>>
    BY <1>3 DEF DL!Wait, DQ!Wait, DL!NW!Waitfor, DQ!NW!Waitfor, NW!Waitfor,
                DL!NW!WaitforLock, DQ!NW!WaitforLock, NW!WaitforLock,
                DL!NW!WaitforUnlock, DQ!NW!WaitforUnlock, NW!WaitforUnlock,
                DL!NW!Destroy, DQ!NW!Destroy, NW!Destroy
  <2>2. OneTicket' /\ Given' = Given
    BY <2>1, OwnerTicketStep DEF DivideInv
  <2> QED BY <2>1, <2>2, CallerStep
<1>4. CASE \E t \in Solver : DL!Takeout(t) \/ DQ!Takeout(t)
  <2>1. PICK t \in SThread : DQ!Takeout(t)
    BY <1>4 DEF SThread, DL!Takeout, DQ!Takeout, DL!solve, DQ!solve, DL!Frame, DQ!Frame,
                DL!waiter, DQ!waiter
  <2> QED BY <2>1, TakeoutStep
<1>5. CASE \E t \in SThread : DL!Work(t) \/ DQ!Work(t)
    BY <1>5, SolverStep
<1> QED
    BY <1>1, <1>2, <1>3, <1>4, <1>5
    DEF DL!Next, DQ!Next, DL!Caller, DQ!Caller, DL!Thread, DQ!Thread, SThread

\* What changes no variable of a call keeps it too.
LEMMA DivideStutter ==
    ASSUME DivideInv, UNCHANGED <<common, solver>>
    PROVE  DivideInv'
<1>1. UNCHANGED <<store, stack, cells, count, freed, solved>> /\ UNCHANGED DQ!waiter
    BY DEF common, solver, DQ!waiter
<1>2. OneTicket' /\ Given' = Given
    BY <1>1, TicketKept DEF DivideInv
<1> QED BY <1>1, <1>2, CallerStep

\* What the invariant says of the cells and the counters.
LEMMA DivideSafe ==
    ASSUME DivideInv
    PROVE  DL!CellsWritten /\ DQ!CellsWritten /\ DL!CounterAlive /\ DQ!CounterAlive
<1>1. PICK N \in SUBSET Problem : Solves(N)
    BY DEF DivideInv
<1>2. ASSUME NEW t \in SThread, NEW p \in Problem, DQ!Combining(t, p), Len(Sub[p]) >= 2
      PROVE  DQ!Subproblems(p) \subseteq cells
  <2>1. Does(t, "k0", p)
    BY <1>2 DEF DQ!Combining, Does
  <2> QED BY <1>2, <2>1 DEF DivideInv, Solutions, SolutionOnce, SolvedAfter, Children
<1>3. ASSUME owner \in {"idle", "destroyed"}, round = 1
      PROVE  /\ Root \in cells /\ solved = Problem /\ store = <<>>
             /\ \A t \in SThread : ~DQ!Calls(t, "put")
  <2>1. Given = "spent"
    BY <1>3 DEF DivideInv, OneTicket
  <2>2. Root \in cells /\ Root \in solved
    BY <2>1 DEF DivideInv, RootTicket, Solutions, DecgetBefore
  <2>3. solved = Problem
    <3>1. \A p \in solved : Children(p) \subseteq solved
        BY DEF DivideInv, Solutions, SolvedAfter
    <3>2. solved \in SUBSET Problem
        BY DEF DivideInv, DivideTypes
    <3> QED BY <2>2, <3>1, <3>2, TreeFacts
  <2>4. store = <<>>
    <3>1. \A p \in Problem : ~InStore(p)
        BY <1>1, <2>3 DEF Solves, WaitsOnce, Waits
    <3>2. store \in Seq(Problem)
        BY DEF DivideInv, DivideTypes
    <3>3. ASSUME store # <<>> PROVE FALSE
        <4>1. Len(store) \in Nat \ {0} /\ DOMAIN store = 1..Len(store)
            BY <3>2, <3>3, EmptySeq, LenProperties
        <4>2. 1 \in 1..Len(store)
            BY <4>1
        <4>3. store[1] \in Problem
            BY <3>2, <4>2, ElementOfSeq
        <4> QED BY <3>1, <4>1, <4>2, <4>3 DEF InStore
    <3> QED BY <3>3
  <2>5. ASSUME NEW t \in SThread, DQ!Calls(t, "put") PROVE FALSE
    <3>1. Stacks
        BY DEF DivideInv, DivideTypes
    <3>2. DQ!Top(t) \in Problem /\ Does(t, "put", DQ!Top(t))
        BY <2>5, <3>1, Innermost
    <3> QED BY <2>1, <3>2 DEF DivideInv, RootTicket
  <2> QED BY <2>2, <2>3, <2>4, <2>5
<1>4. ASSUME NEW t \in SThread, DQ!Calls(t, "decget") PROVE DQ!Top(t) \notin freed
  <2>1. Stacks
    BY DEF DivideInv, DivideTypes
  <2>2. DQ!Top(t) \in Problem /\ Does(t, "decget", DQ!Top(t))
    BY <1>4, <2>1, Innermost
  <2> QED BY <2>2 DEF DivideInv, Solutions, DecgetBefore
<1>5. DQ!CellsWritten /\ DQ!CounterAlive
    BY <1>2, <1>3, <1>4 DEF DQ!CellsWritten, DQ!CounterAlive, DQ!Thread, SThread
<1>6. DL!CellsWritten /\ DL!CounterAlive
    BY <1>5 DEF DL!CellsWritten, DQ!CellsWritten, DL!CounterAlive, DQ!CounterAlive,
                DL!Thread, DQ!Thread, DL!Calls, DQ!Calls, DL!Top, DQ!Top,
                DL!Combining, DQ!Combining, DL!Subproblems, DQ!Subproblems
<1> QED BY <1>5, <1>6

\* Over a list and over a channel, no cell is read before it is written, and
\* no counter is decremented after its destruction.
THEOREM DivideHolds ==
    /\ DL!Spec => [](DL!CellsWritten /\ DL!CounterAlive)
    /\ DQ!Spec => [](DQ!CellsWritten /\ DQ!CounterAlive)
<1>1. DL!Init \/ DQ!Init => DivideInv
  <2>1. DL!Init => DQ!Init
    BY DEF DL!Init, DQ!Init, DL!Thread, DQ!Thread, DL!NW!Init, DQ!NW!Init, DL!Ticket, DQ!Ticket
  <2> QED BY <2>1, DivideInit
<1>2. DivideInv /\ [DL!Next]_DL!vars => DivideInv'
    BY DivideStep, DivideStutter DEF DL!vars, DL!waiter, common, solver
<1>3. DivideInv /\ [DQ!Next]_DQ!vars => DivideInv'
    BY DivideStep, DivideStutter DEF DQ!vars, DQ!waiter, common, solver
<1>4. DivideInv => /\ DL!CellsWritten /\ DL!CounterAlive
                   /\ DQ!CellsWritten /\ DQ!CounterAlive
    BY DivideSafe
<1>5. DL!Spec => [](DL!CellsWritten /\ DL!CounterAlive)
    BY <1>1, <1>2, <1>4, PTL DEF DL!Spec
<1>6. DQ!Spec => [](DQ!CellsWritten /\ DQ!CounterAlive)
    BY <1>1, <1>3, <1>4, PTL DEF DQ!Spec
<1> QED BY <1>5, <1>6

\* What a step of a call does to the solutions: it finds one, whose parts are
\* solved, or it is the end of the call, or it changes nothing of the two.
Finds == /\ owner' = "destroyed" <=> owner = "destroyed"
         /\ \E p \in Problem : /\ p \notin solved /\ Children(p) \subseteq solved
                               /\ solved' = solved \cup {p}
Ends == owner # "destroyed" /\ owner' = "destroyed" /\ Root \in solved /\ solved' = solved
Leaves == (owner' = "destroyed" <=> owner = "destroyed") /\ solved' = solved

\* A thread finds at most one solution in a step.
LEMMA SolverEffect ==
    ASSUME DivideInv, NEW t \in SThread, DQ!Work(t)
    PROVE  Finds \/ Leaves
<1>1. PICK N \in SUBSET Problem : Solves(N)
    BY DEF DivideInv
<1>2. PICK p : p = DQ!Top(t)
    OBVIOUS
<1>3. Stacks
    BY DEF DivideInv, DivideTypes
<1>4. CASE DQ!SolveBase(t)
  <2>1. DQ!Calls(t, "solve")
    BY <1>4 DEF DQ!SolveBase
  <2>2. p \in Problem /\ Does(t, "solve", p)
    BY <1>2, <1>3, <2>1, Innermost
  <2>3. p \notin solved
    BY <1>1, <2>2 DEF Solves, WaitsOnce, Waits
  <2>4. Children(p) = {}
    BY <1>2, <1>4, <2>2, TreeFacts DEF DQ!SolveBase
  <2>5. solved' = solved \cup {p} /\ owner' = owner
    BY <1>2, <1>4 DEF DQ!SolveBase, DQ!waiter
  <2> QED BY <2>2, <2>3, <2>4, <2>5 DEF Finds
<1>5. CASE DQ!ReturnOnly(t)
  <2>1. DQ!Calls(t, "k0") /\ p # Root /\ DQ!IsOnly(p)
    BY <1>2, <1>5 DEF DQ!ReturnOnly
  <2>2. p \in Problem /\ Does(t, "k0", p)
    BY <1>2, <1>3, <2>1, Innermost
  <2>3. PICK q : q = DQ!parent(p)
    OBVIOUS
  <2>4. /\ q \in Problem /\ q \notin solved /\ p \in solved /\ p \in Children(q)
        /\ Len(Sub[q]) = 1
    BY <1>1, <2>1, <2>2, <2>3, SolutionFacts
  <2>5. Children(q) \subseteq solved
    <3>1. \A c \in Children(q) : \E i \in 1..1 : c = Sub[q][i]
        BY <2>4, TreeFacts
    <3>2. \A i \in 1..1 : i = 1
        OBVIOUS
    <3> QED BY <2>4, <3>1, <3>2
  <2>6. solved' = solved \cup {q} /\ owner' = owner
    BY <1>2, <1>5, <2>3 DEF DQ!ReturnOnly, DQ!waiter
  <2> QED BY <2>4, <2>5, <2>6 DEF Finds
<1>6. CASE DQ!Decget(t)
  <2>1. DQ!Calls(t, "decget") /\ owner' = owner
    BY <1>6 DEF DQ!Decget, DQ!waiter
  <2>2. CASE count[p] > 1
    BY <1>2, <1>6, <2>1, <2>2 DEF DQ!Decget, Leaves
  <2>3. CASE ~(count[p] > 1)
    <3>1. p \in Problem /\ Does(t, "decget", p)
        BY <1>2, <1>3, <2>1, Innermost
    <3>2. p \notin solved /\ Children(p) \subseteq cells
        BY <1>1, <2>3, <3>1, DecgetFacts
    <3>3. Children(p) \subseteq solved
        BY <3>2 DEF DivideInv, Solutions, DecgetBefore
    <3>4. solved' = solved \cup {p}
        BY <1>2, <1>6, <2>3 DEF DQ!Decget
    <3> QED BY <2>1, <3>1, <3>2, <3>3, <3>4 DEF Finds
  <2> QED BY <2>2, <2>3
<1>7. CASE DQ!SolveOne(t) \/ DQ!Conquer(t) \/ DQ!Submit(t) \/ DQ!SubmitFull(t)
           \/ DQ!ReturnRoot(t) \/ DQ!Return(t)
    BY <1>7 DEF DQ!SolveOne, DQ!Conquer, DQ!Submit, DQ!SubmitFull, DQ!ReturnRoot, DQ!Return,
                DQ!waiter, Leaves
<1>8. CASE DQ!TicketPut(t)
    BY <1>8 DEF DQ!TicketPut, DQ!NW!Put, DQ!NW!Decrement, DQ!NW!Reread, DQ!NW!Unlock, Leaves
<1> QED BY <1>4, <1>5, <1>6, <1>7, <1>8 DEF DQ!Work

\* The same over a list.
LEMMA ListSolverEffect ==
    ASSUME DivideInv, NEW t \in SThread, DL!Work(t)
    PROVE  Finds \/ Leaves
<1>1. CASE DL!Submit(t) \/ DL!SubmitFull(t)
    BY <1>1 DEF DL!Submit, DL!SubmitFull, DL!waiter, Leaves
<1>2. CASE DL!SolveBase(t) \/ DL!SolveOne(t) \/ DL!Conquer(t) \/ DL!ReturnRoot(t)
  <2>1. DQ!SolveBase(t) \/ DQ!SolveOne(t) \/ DQ!Conquer(t) \/ DQ!ReturnRoot(t)
    BY <1>2 DEF DL!SolveBase, DQ!SolveBase, DL!SolveOne, DQ!SolveOne, DL!Conquer, DQ!Conquer,
                DL!ReturnRoot, DQ!ReturnRoot, DL!Calls, DQ!Calls, DL!Top, DQ!Top,
                DL!Becomes, DQ!Becomes, DL!k0, DQ!k0, DL!solve, DQ!solve, DL!loop2, DQ!loop2,
                DL!put, DQ!put, DL!Frame, DQ!Frame, DL!waiter, DQ!waiter
  <2> QED BY <2>1, SolverEffect DEF DQ!Work
<1>3. CASE DL!ReturnOnly(t) \/ DL!Return(t) \/ DL!Decget(t)
  <2>1. DQ!ReturnOnly(t) \/ DQ!Return(t) \/ DQ!Decget(t)
    BY <1>3 DEF DL!ReturnOnly, DQ!ReturnOnly, DL!Return, DQ!Return, DL!Decget, DQ!Decget,
                DL!Calls, DQ!Calls, DL!Top, DQ!Top,
                DL!Becomes, DQ!Becomes, DL!k0, DQ!k0, DL!decget, DQ!decget,
                DL!Frame, DQ!Frame, DL!waiter, DQ!waiter,
                DL!IsOnly, DQ!IsOnly, DL!parent, DQ!parent, DL!Subproblems, DQ!Subproblems
  <2> QED BY <2>1, SolverEffect DEF DQ!Work
<1>4. CASE DL!TicketPut(t)
    BY <1>4 DEF DL!TicketPut, DL!NW!Put, DL!NW!Decrement, DL!NW!Reread, DL!NW!Unlock, Leaves
<1> QED BY <1>1, <1>2, <1>3, <1>4 DEF DL!Work

\* So does the whole call, and the caller destroys the nwaiter when the root
\* is solved.
LEMMA DivideEffect ==
    ASSUME DivideInv, DL!Next \/ DQ!Next
    PROVE  Finds \/ Ends \/ Leaves
<1>1. CASE DL!Initiate \/ DQ!Initiate \/ DL!Start \/ DQ!Start
    BY <1>1 DEF DL!Initiate, DQ!Initiate, DL!Start, DQ!Start, DL!NW!Initiate, DQ!NW!Initiate,
                DL!NW!InitiateLock, DQ!NW!InitiateLock, Leaves
<1>2. CASE DL!Wait \/ DQ!Wait
  <2>1. CASE owner = "idle" /\ owner' = "destroyed" /\ round = 1
    <3>1. Given = "spent"
        BY <2>1 DEF DivideInv, OneTicket
    <3>2. Root \in solved
        BY <3>1 DEF DivideInv, RootTicket, Solutions, DecgetBefore
    <3>3. solved' = solved
        BY <1>2 DEF DL!Wait, DQ!Wait
    <3> QED BY <2>1, <3>2, <3>3 DEF Ends
  <2>2. CASE ~(owner = "idle" /\ owner' = "destroyed" /\ round = 1)
    BY <1>2, <2>2 DEF DL!Wait, DQ!Wait, DL!NW!Waitfor, DQ!NW!Waitfor,
                DL!NW!WaitforLock, DQ!NW!WaitforLock, DL!NW!WaitforUnlock, DQ!NW!WaitforUnlock,
                DL!NW!Destroy, DQ!NW!Destroy, Leaves
  <2> QED BY <2>1, <2>2
<1>3. CASE \E t \in Solver : DL!Takeout(t) \/ DQ!Takeout(t)
    BY <1>3 DEF DL!Takeout, DQ!Takeout, DL!waiter, DQ!waiter, Leaves
<1>4. CASE \E t \in SThread : DL!Work(t) \/ DQ!Work(t)
    BY <1>4, SolverEffect, ListSolverEffect
<1> QED
    BY <1>1, <1>2, <1>3, <1>4
    DEF DL!Next, DQ!Next, DL!Caller, DQ!Caller, DL!Thread, DQ!Thread, SThread

-----------------------------------------------------------------------------
(***************************************************************************)
(* The bench: each use has the invariant of what it runs, and the          *)
(* variables of the others keep their initial values.                      *)
(***************************************************************************)
ParallelInv ==
    /\ use \in {"solve", "solve_channel", "streampar", "workshop"}
    /\ Solving => DivideInv
    /\ ~Solving => solved = {} /\ \A t \in SThread : stack[t] = <<>>
    /\ Streaming => StreamInv
    /\ WorkshopInv

\* All three begin in their invariants.
LEMMA ParallelInit == ASSUME Init PROVE ParallelInv
<1>1. DQ!Init
    BY DEF Init, DL!Init, DQ!Init, DL!Thread, DQ!Thread, DL!NW!Init, DQ!NW!Init,
           DL!Ticket, DQ!Ticket
<1>2. DivideInv /\ StreamInv /\ WorkshopInv
    BY <1>1, DivideInit, StreamInit, WorkshopInit DEF Init
<1>3. solved = {} /\ \A t \in SThread : stack[t] = <<>>
    BY <1>1 DEF DQ!Init, DQ!Thread, SThread
<1> QED BY <1>2, <1>3 DEF Init, ParallelInv

\* A step of one leaves the variables of the others alone.
LEMMA ParallelStep ==
    ASSUME ParallelInv, [Next]_vars
    PROVE  ParallelInv' /\ use' = use
<1>1. CASE UNCHANGED vars
  <2>1. use' = use /\ UNCHANGED <<common, solver>> /\ UNCHANGED <<common, streampar>>
        /\ UNCHANGED workshop /\ solved' = solved /\ stack' = stack
    BY <1>1 DEF vars, solver
  <2> QED BY <2>1, DivideStutter, StreamStutter, WorkshopStutter
          DEF ParallelInv, Solving, Streaming
<1>2. ASSUME use \in {"solve", "solve_channel"}, DL!Next \/ DQ!Next,
             UNCHANGED <<streampar, workshop>>, use' = use
      PROVE  ParallelInv'
  <2>1. DivideInv' /\ WorkshopInv'
    BY <1>2, DivideStep, WorkshopStutter DEF ParallelInv, Solving
  <2> QED BY <1>2, <2>1 DEF ParallelInv, Solving, Streaming
<1>3. ASSUME use = "streampar", SP!Next, UNCHANGED <<solver, workshop>>, use' = use
      PROVE  ParallelInv'
  <2>1. StreamInv' /\ WorkshopInv'
    BY <1>3, StreamStep, WorkshopStutter DEF ParallelInv, Streaming
  <2> QED BY <1>3, <2>1 DEF ParallelInv, Solving, Streaming, solver
<1>4. ASSUME use = "workshop", WS!Next, UNCHANGED <<common, solver, streampar>>, use' = use
      PROVE  ParallelInv'
  <2>1. WorkshopInv'
    BY <1>4, WorkshopStep DEF ParallelInv
  <2> QED BY <1>4, <2>1 DEF ParallelInv, Solving, Streaming, solver
<1> QED BY <1>1, <1>2, <1>3, <1>4 DEF Next, vars

\* What the run checks follows from the invariant of each.
LEMMA ParallelSafe ==
    ASSUME ParallelInv
    PROVE  CellsWritten /\ CounterAlive /\ FrameOutlived /\ HandedOnce /\ WorkersListed
<1>1. CellsWritten /\ CounterAlive
  <2>1. CASE Solving
    BY <2>1, DivideSafe DEF ParallelInv, CellsWritten, CounterAlive
  <2>2. CASE ~Solving
    BY <2>2 DEF ParallelInv, CellsWritten, CounterAlive, DL!CounterAlive, DL!Calls, DL!Thread, SThread
  <2> QED BY <2>1, <2>2
<1>2. FrameOutlived /\ HandedOnce /\ WorkersListed
    BY StreamSafe, WorkshopSafe DEF ParallelInv, FrameOutlived, HandedOnce, WorkersListed
<1> QED BY <1>1, <1>2

\* The invariants of the three, in the behaviours that use them.
THEOREM ParallelInvariant == Spec => []ParallelInv
<1>1. Init => ParallelInv
    BY ParallelInit
<1>2. ParallelInv /\ [Next]_vars => ParallelInv'
    BY ParallelStep
<1> QED BY <1>1, <1>2, PTL DEF Spec

\* combine and the caller read results that were written: DivideConquerPar.
THEOREM CellsWrittenHolds == Spec => []CellsWritten
BY ParallelInvariant, ParallelSafe, PTL

\* spinref_decget is never called with a counter that was destroyed.
THEOREM CounterAliveHolds == Spec => []CounterAlive
BY ParallelInvariant, ParallelSafe, PTL

\* When streampar_foreach returns, nobody will access nwork any more.
THEOREM FrameOutlivedHolds == Spec => []FrameOutlived
BY ParallelInvariant, ParallelSafe, PTL

\* No element of a stream and no work of a workshop is handed to two threads.
THEOREM HandedOnceHolds == Spec => []HandedOnce
BY ParallelInvariant, ParallelSafe, PTL

\* The list that get_nworker measures has every worker that lives.
THEOREM WorkersListedHolds == Spec => []WorkersListed
BY ParallelInvariant, ParallelSafe, PTL

\* Each problem is solved once, after its subproblems, and the call ends when
\* the root is solved: DivideConquerPar implements DivideConquer.
THEOREM DivideConquerImplemented == Spec => ImplementsDivideConquer
<1> DEFINE answered == Solving /\ owner = "destroyed"
<1>1. Init => DC!Init
  <2> SUFFICES ASSUME Init PROVE DC!Init
    OBVIOUS
  <2>1. solved = {} /\ owner = "idle"
    BY DEF Init, DL!Init, DL!NW!Init
  <2>2. (Solving /\ owner = "destroyed") = FALSE
    BY <2>1
  <2> QED BY <2>1, <2>2 DEF DC!Init
<1>2. ParallelInv /\ [Next]_vars => [DC!Next]_<<solved, answered>>
  <2> SUFFICES ASSUME ParallelInv, [Next]_vars PROVE [DC!Next]_<<solved, answered>>
    OBVIOUS
  <2>1. (Solving /\ owner = "destroyed") \in BOOLEAN
    OBVIOUS
  <2>2. use' = use
    BY ParallelStep
  <2>3. CASE ~Solving \/ UNCHANGED vars
    <3>1. solved' = solved
        BY <2>3 DEF Next, Solving, solver, vars
    <3>2. answered' = answered
        BY <2>2, <2>3 DEF Solving, vars, common
    <3> QED BY <3>1, <3>2
  <2>4. CASE Solving /\ ~UNCHANGED vars
    <3>1. DivideInv /\ (DL!Next \/ DQ!Next)
        BY <2>4 DEF ParallelInv, Next, Solving
    <3>2. Solving /\ Solving'
        BY <2>2, <2>4 DEF Solving
    <3>3. CASE Finds
        <4>1. answered' = answered
            BY <3>2, <3>3 DEF Finds
        <4>2. \E p \in Problem : DC!Solve(p)
            BY <3>3, <4>1 DEF Finds, DC!Solve, DC!Subproblems, Children, DQ!Subproblems
        <4> QED BY <4>2 DEF DC!Next
    <3>4. CASE Ends
        <4>1. DC!Answer
            BY <3>2, <3>4 DEF Ends, DC!Answer
        <4> QED BY <4>1 DEF DC!Next
    <3>5. CASE Leaves
        <4>1. answered' = answered /\ solved' = solved
            BY <3>2, <3>5 DEF Leaves
        <4> QED BY <4>1
    <3> QED BY <3>1, <3>3, <3>4, <3>5, DivideEffect
  <2> QED BY <2>3, <2>4
<1>3. DC!Init /\ [][DC!Next]_<<solved, answered>> => ImplementsDivideConquer
    BY DEF ImplementsDivideConquer, DC!Spec
<1> QED BY <1>1, <1>2, <1>3, ParallelInvariant, PTL DEF Spec
=============================================================================
