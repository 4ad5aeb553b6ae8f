----------------------------- MODULE MCThreadkit -----------------------------
(***************************************************************************)
(* Channel, Chanlst, LinChannel and Nwaiter for TLC.  A behaviour is one   *)
(* of the component that use names; the variables of the others keep their *)
(* initial values, and threads that have no calls to make make none.       *)
(*                                                                         *)
(* The programs of Channel are such that the blocking calls balance, so    *)
(* that every caller can return, or have _opt calls, whose answers decide  *)
(* whether the others can proceed.  A nwaiter is used for two rounds whose *)
(* tickets are put one at a time, or for one round in which they are put   *)
(* together; for two rounds of the second kind, see MCNwaiter.             *)
(***************************************************************************)
EXTENDS Channel

CONSTANTS
    ListThread, Element, None,   \* of the chanlst
    Reference, First,            \* of the linear channel
    Ticket, Rounds               \* of the nwaiter

VARIABLES
    use,
    lst, lock, at, call, val, given,
    rfcnt, spin, ref, seen, freed, crossed,
    n, mtx, owner, ticket, round, met

channel == vars
chanlst == <<lst, lock, at, call, val, given>>
linchannel == <<rfcnt, spin, ref, seen, freed, crossed>>
nwaiter == <<n, mtx, owner, ticket, round, met>>
mcvars == <<use, channel, chanlst, linchannel, nwaiter>>

-----------------------------------------------------------------------------
CONSTANTS p1, p2, c1, c2, t1, t2, t3, x1, x2, x3, r1, r2, r3, r4, r5, k1, k2, k3

MCThread == {p1, p2, c1, c2}
MCListThread == {t1, t2, t3}
MCElement == {x1, x2, x3}
MCReference == {r1, r2, r3, r4, r5}
MCTicket == {k1, k2, k3}

Ins == "insert"
Out == "takeout"

\* Two producers and two consumers; one producer overfills the channel.
Balanced == {
    [t \in MCThread |-> IF t \in {p1, p2} THEN <<Ins, Ins>> ELSE <<Out, Out>>],
    [t \in MCThread |-> CASE t = p1 -> <<Ins, Ins, Ins>>
                          [] t = p2 -> <<Ins>>
                          [] t = c1 -> <<Out, Out, Out>>
                          [] t = c2 -> <<Out>>],
    [t \in MCThread |-> CASE t = p1 -> <<Ins, Ins, Out>>
                          [] t = p2 -> <<Ins>>
                          [] OTHER  -> <<Out>>] }

\* The non-blocking calls among blocking ones.  They may leave a blocking
\* caller asleep.
Mixed == {
    [t \in MCThread |-> CASE t = p1 -> <<Ins, "insert_opt">>
                          [] t = p2 -> <<"insert_opt", Ins>>
                          [] t = c1 -> <<Out, "takeout_opt">>
                          [] t = c2 -> <<"takeout_opt", Out>>],
    [t \in MCThread |-> CASE t = p1 -> <<Ins, Ins>>
                          [] t = p2 -> <<"insert_opt", "insert_opt">>
                          [] t = c1 -> <<"takeout_opt", Out>>
                          [] t = c2 -> <<Out, "takeout_opt">>] }

NoCalls == [t \in Thread |-> <<>>]

MCPrograms == Balanced \cup Mixed \cup {NoCalls}

-----------------------------------------------------------------------------

CL == INSTANCE Chanlst
    WITH Thread <- ListThread, buf <- lst, mut <- lock, pc <- at
LC == INSTANCE LinChannel WITH pc <- ref
Serial == INSTANCE NwaiterMeeting WITH Overlapping <- FALSE, pc <- ticket
Together == INSTANCE NwaiterMeeting
    WITH Rounds <- 1, Overlapping <- TRUE, pc <- ticket

ASSUME WellFormedAssumption == ChannelAssumption
ASSUME ChanlstAssumption == CL!ChanlstAssumption
ASSUME LinChannelAssumption == LC!LinChannelAssumption
ASSUME NwaiterAssumption ==
    Serial!NwaiterAssumption /\ Together!NwaiterAssumption

MCInit ==
    /\ use \in {"channel", "chanlst", "linchannel", "nwaiter",
                "nwaiter_together"}
    /\ Init /\ CL!Init /\ LC!Init /\ Serial!MeetInit
    /\ todo # NoCalls <=> use = "channel"

MCNext ==
    /\ \/ use = "channel" /\ Next
          /\ UNCHANGED <<chanlst, linchannel, nwaiter>>
       \/ use = "chanlst" /\ CL!Next
          /\ UNCHANGED <<channel, linchannel, nwaiter>>
       \/ use = "linchannel" /\ LC!Next
          /\ UNCHANGED <<channel, chanlst, nwaiter>>
       \/ use = "nwaiter" /\ Serial!MeetNext
          /\ UNCHANGED <<channel, chanlst, linchannel>>
       \/ use = "nwaiter_together" /\ Together!MeetNext
          /\ UNCHANGED <<channel, chanlst, linchannel>>
    /\ UNCHANGED use

\* Neither fairness asks anything of a component that is not in use: none of
\* its steps is enabled in its initial state.
MCSpec == MCInit /\ [][MCNext]_mcvars /\ Fairness /\ Serial!Fairness

-----------------------------------------------------------------------------
\* Channel is extended: its TypeOK, Fifo, NoLostWakeup and ImplementsQueue are
\* checked as they stand there.

\* The calls of a chanlst take effect at one instant on a stack.
Stack == INSTANCE BlockingStack
    WITH Thread <- ListThread, buf <- lst,
         phase <- [t \in ListThread |-> CL!Phase(at[t])]
ImplementsStack == Stack!Spec
\* Nobody sleeps in a chanlst while there is an element for it.
TakerAwake == CL!NoLostWakeup

\* The count of channel_ref and channel_unref, which overlap in any way: too
\* low only after a channel_ref has returned inside a channel_unref, and wrong
\* only after some call has crossed another.  See LinChannel.
CountAgrees == LC!CountAgrees

\* waitfor comes through only when all tickets of its round have been put,
\* also when they are put together: see Nwaiter.
WaitedForAll == Serial!WaitedForAll
\* However tickets are put, a put that has met no other between its decrement
\* and its test unlocks a locked mutex only: see NwaiterMeeting.
LockedUnlessMet == Serial!LockedUnlessMet
\* Nor is the nwaiter freed while such a put is in progress.
NotFreedUnlessMet == Serial!NotFreedUnlessMet

\* Callers of a channel that between them take out what they insert, with
\* room for what is left over, all return: no call of channel_insert or
\* channel_takeout sleeps for ever.  And waitfor returns.
AllReturn == (todo \in Balanced => <>Finished) /\ Serial!WaitReturns
=============================================================================
