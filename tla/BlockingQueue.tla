---------------------------- MODULE BlockingQueue ----------------------------
(***************************************************************************)
(* What SATS/channel_t.sats and SATS/channel_vt.sats promise of a channel: *)
(* a first-in first-out queue of at most Cap elements whose operations     *)
(* take effect at one instant between call and return.  insert and takeout *)
(* block while they cannot proceed ("Hx: blocking"), their _opt forms      *)
(* answer at once ("Hx: non-blocking").                                    *)
(***************************************************************************)
EXTENDS Naturals, Sequences

CONSTANTS Thread, Cap, Programs

VARIABLES
    buf,      \* the elements of the channel, oldest first
    phase,    \* phase[t]: "idle", "called" or "done"
    todo,     \* todo[t]: the calls t has still to make, the current one first
    sent,     \* the elements accepted so far, in order
    rcvd      \* the elements handed out so far, in order

vars == <<buf, phase, todo, sent, rcvd>>

op(t) == Head(todo[t])

\* The element of an insertion: no other call of the same thread has it.
Message(t) == <<t, Len(todo[t])>>

Call(t) ==
    /\ phase[t] = "idle" /\ todo[t] # <<>>
    /\ phase' = [phase EXCEPT ![t] = "called"]
    /\ UNCHANGED <<buf, todo, sent, rcvd>>

Effect(t) == phase[t] = "called" /\ phase' = [phase EXCEPT ![t] = "done"]

Insert(t) ==
    /\ Effect(t) /\ op(t) \in {"insert", "insert_opt"}
    /\ Len(buf) < Cap
    /\ buf' = Append(buf, Message(t))
    /\ sent' = Append(sent, Message(t))
    /\ UNCHANGED <<todo, rcvd>>

InsertRefused(t) ==
    /\ Effect(t) /\ op(t) = "insert_opt"
    /\ Len(buf) = Cap
    /\ UNCHANGED <<buf, todo, sent, rcvd>>

Takeout(t) ==
    /\ Effect(t) /\ op(t) \in {"takeout", "takeout_opt"}
    /\ buf # <<>>
    /\ buf' = Tail(buf)
    /\ rcvd' = Append(rcvd, Head(buf))
    /\ UNCHANGED <<todo, sent>>

TakeoutNone(t) ==
    /\ Effect(t) /\ op(t) = "takeout_opt"
    /\ buf = <<>>
    /\ UNCHANGED <<buf, todo, sent, rcvd>>

Return(t) ==
    /\ phase[t] = "done"
    /\ phase' = [phase EXCEPT ![t] = "idle"]
    /\ todo' = [todo EXCEPT ![t] = Tail(todo[t])]
    /\ UNCHANGED <<buf, sent, rcvd>>

Init ==
    /\ buf = <<>> /\ sent = <<>> /\ rcvd = <<>>
    /\ phase = [t \in Thread |-> "idle"]
    /\ todo \in Programs

Next == \E t \in Thread :
    \/ Call(t) \/ Return(t)
    \/ Insert(t) \/ InsertRefused(t) \/ Takeout(t) \/ TakeoutNone(t)

Spec == Init /\ [][Next]_vars
=============================================================================
