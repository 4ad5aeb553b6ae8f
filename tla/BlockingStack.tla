---------------------------- MODULE BlockingStack ----------------------------
(***************************************************************************)
(* What SATS/chanlst_t.sats promises of a chanlst: a last-in first-out     *)
(* store without a limit.  insert never blocks and insert_opt is the same call; takeout    *)
(* blocks while the store is empty ("Hx: blocking"), takeout_opt answers   *)
(* at once ("Hx: non-blocking").                                           *)
(***************************************************************************)
EXTENDS Sequences

CONSTANTS Thread, Element, None

VARIABLES
    buf,      \* the elements, last inserted first
    call,     \* call[t]: "none", or the operation t has called
    val,      \* val[t]: its argument, then its result
    phase     \* phase[t]: "idle", "called" or "done"

vars == <<buf, call, val, phase>>

Init ==
    /\ buf = <<>>
    /\ call = [t \in Thread |-> "none"]
    /\ val = [t \in Thread |-> None]
    /\ phase = [t \in Thread |-> "idle"]

Call(t) ==
    /\ phase[t] = "idle"
    /\ \/ call' = [call EXCEPT ![t] = "insert"]
          /\ \E x \in Element : val' = [val EXCEPT ![t] = x]
       \/ \E f \in {"takeout", "takeout_opt"} : call' = [call EXCEPT ![t] = f]
          /\ val' = [val EXCEPT ![t] = None]
    /\ phase' = [phase EXCEPT ![t] = "called"]
    /\ UNCHANGED buf

Effect(t) ==
    /\ phase[t] = "called"
    /\ phase' = [phase EXCEPT ![t] = "done"]
    /\ UNCHANGED call

Insert(t) ==
    /\ Effect(t) /\ call[t] = "insert"
    /\ buf' = <<val[t]>> \o buf
    /\ UNCHANGED val

Takeout(t) ==
    /\ Effect(t) /\ call[t] \in {"takeout", "takeout_opt"}
    /\ buf # <<>>
    /\ val' = [val EXCEPT ![t] = Head(buf)]
    /\ buf' = Tail(buf)

TakeoutNone(t) ==
    /\ Effect(t) /\ call[t] = "takeout_opt"
    /\ buf = <<>>
    /\ UNCHANGED <<buf, val>>

Return(t) ==
    /\ phase[t] = "done"
    /\ phase' = [phase EXCEPT ![t] = "idle"]
    /\ call' = [call EXCEPT ![t] = "none"]
    /\ UNCHANGED <<buf, val>>

Next == \E t \in Thread :
    Call(t) \/ Insert(t) \/ Takeout(t) \/ TakeoutNone(t) \/ Return(t)

Spec == Init /\ [][Next]_vars
=============================================================================
