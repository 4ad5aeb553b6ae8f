--------------------------- MODULE NwaiterMeeting ---------------------------
(***************************************************************************)
(* Nwaiter with a history variable: which calls of nwaiter_ticket_put have *)
(* met another one between the unlock of the spinlock and the test of the  *)
(* count (nwaiter.dats:153-158).  That is where the test may see what the  *)
(* other has done.  The properties say that only such a call may unlock a  *)
(* free mutex or touch freed memory.                                       *)
(***************************************************************************)
EXTENDS Nwaiter

VARIABLE met   \* the tickets that are being put and have met another one

meetvars == <<vars, met>>

Counted == {k \in Ticket : pc[k] = "counted"}

MeetInit == Init /\ met = {}

Remember == met' =
    {k \in Putting' : k \in met \/ (k \in Counted' /\ Counted' # {k})}

MeetNext == Next /\ Remember

MeetSpec == MeetInit /\ [][MeetNext]_meetvars

-----------------------------------------------------------------------------
\* The assertion of ticket_put (nwaiter.dats:163): a put that finds the count
\* at zero finds the mutex locked, unless it has met another.
LockedUnlessMet ==
    \A k \in Ticket \ met : pc[k] = "unlocking" => mtx = "locked"

\* The nwaiter is not freed while some ticket_put has still to read its count
\* or to unlock its mutex, unless that put has met another.
NotFreedUnlessMet == owner = "destroyed" => Putting \subseteq met
=============================================================================
