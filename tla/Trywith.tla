------------------------------- MODULE Trywith -------------------------------
(***************************************************************************)
(* Exceptions in the generated C: the frames that ATStrywith_try enters    *)
(* and ATStrywith_with leaves (src/ccomp/runtime/pats_ccomp_exception.h),  *)
(* atsruntime_raise, which jumps to the last frame entered                 *)
(* (pats_ccomp_runtime_trywith.c), and the jumps that the compiler emits   *)
(* inside and across a try: tail-recursive calls (pats_ccomp_dynexp.dats,  *)
(* pats_ccomp_trywith.dats) and $break and $continue (pats_ccomp_          *)
(* looping.dats).  There is one list of frames, for one thread.            *)
(*                                                                         *)
(* Mutant: TailCallInTry, before the definition it is a slip of.           *)
(***************************************************************************)
EXTENDS Naturals, Sequences

CONSTANTS
    MaxCalls, MaxNest, \* bounds: on the calls that have not returned, and on
                       \* the trys and loops that one of them is within
    JumpOut            \* $break and $continue may leave a try

TrywithAssumption ==
    MaxCalls \in Nat \ {0} /\ MaxNest \in Nat /\ JumpOut \in BOOLEAN

VARIABLES
    calls,   \* the trys and loops each call is within; innermost first
    frames,  \* the list of frames, the last one entered first
    status
vars == <<calls, frames, status>>

Nest == Seq({"try", "loop"})

\* Where a longjmp to the frame goes on: which call, counted from the first,
\* and what surrounds the try in it.
Frame == [call : Nat, outer : Nest]

Init == calls = << <<>> >> /\ frames = <<>> /\ status = "running"

Running == status = "running" /\ UNCHANGED status

\* The innermost call, and what remains of its trys and loops when those
\* before the k-th have been left.
Here == Head(calls)
After(k) == SubSeq(Here, k, Len(Here))
Within(nest) == calls' = <<nest>> \o Tail(calls)

-----------------------------------------------------------------------------
Call ==
    /\ Running /\ Len(calls) < MaxCalls
    /\ calls' = << <<>> >> \o calls /\ UNCHANGED frames

\* A frame that is still on the list is lost with the call it is in.
Lost(f) == IF f.call = Len(calls) THEN [f EXCEPT !.call = MaxCalls + 1] ELSE f

Return ==
    /\ Running /\ Here = <<>>
    /\ calls' = Tail(calls) /\ Tail(calls) # <<>>
    /\ frames' = [i \in DOMAIN frames |-> Lost(frames[i])]

TailCallInTry ==
    /\ Running /\ \A i \in DOMAIN Here : Here[i] # "loop"
    /\ Within(<<>>) /\ UNCHANGED frames

\* A tail-recursive call is a goto to the beginning of the function, except
\* in the body of a try (the_CCOMPATS_tlcalopt).
TailCall ==
    /\ Running /\ Here = <<>>
    /\ Within(<<>>) /\ UNCHANGED frames

Try ==
    /\ Running /\ Len(Here) < MaxNest /\ Within(<<"try">> \o Here)
    /\ frames' = <<[call |-> Len(calls), outer |-> Here]>> \o frames

\* The body of the try yields a value.
TryEnd ==
    /\ Running /\ Here # <<>> /\ Here[1] = "try" /\ Within(After(2))
    /\ frames' = Tail(frames)

Loop ==
    /\ Running /\ Len(Here) < MaxNest /\ Within(<<"loop">> \o Here)
    /\ UNCHANGED frames

LoopEnd ==
    /\ Running /\ Here # <<>> /\ Here[1] = "loop" /\ Within(After(2))
    /\ UNCHANGED frames

\* ATSbreak2 and ATScontinue2: the k-th of what the call is within is the
\* innermost loop.
Jump(k) ==
    /\ Running /\ k \in DOMAIN Here
    /\ Here[k] = "loop" /\ \A j \in 1..(k - 1) : Here[j] = "try"
    /\ JumpOut \/ k = 1
    /\ \E to \in {k, k + 1} : Within(After(to))
    /\ UNCHANGED frames

\* The longjmp of atsruntime_raise goes to the with-part of the try, which
\* leaves the frame.  If no clause matches, it raises the exception again
\* (PTCKNTraise).
Raise ==
    /\ Running /\ frames # <<>>
    /\ LET f == Head(frames)
       IN  /\ f.call <= Len(calls)
           /\ calls' = <<f.outer>> \o SubSeq(calls, Len(calls) - f.call + 2, Len(calls))
    /\ frames' = Tail(frames)

\* The frame was in the stack frame of a call that has returned.
RaiseWild ==
    /\ status = "running" /\ frames # <<>> /\ Head(frames).call > Len(calls)
    /\ status' = "wild" /\ UNCHANGED <<calls, frames>>

\* atsruntime_handle_uncaughtexn
RaiseUncaught ==
    /\ status = "running" /\ frames = <<>>
    /\ status' = "uncaught" /\ UNCHANGED <<calls, frames>>

Next ==
    \/ Call \/ Return \/ TailCall \/ Try \/ TryEnd \/ Loop \/ LoopEnd
    \/ \E k \in 1..MaxNest : Jump(k)
    \/ Raise \/ RaiseWild \/ RaiseUncaught

Spec == Init /\ [][Next]_vars

-----------------------------------------------------------------------------
(* The calls and the frames are well formed.                               *)
TypeOK ==
    /\ calls \in Seq(Nest) /\ calls # <<>> /\ frames \in Seq(Frame)
    /\ status \in {"running", "wild", "uncaught"}

\* The trys that are being evaluated, and the innermost one: the i-th call's
\* k-th.
Trying == {t \in (DOMAIN calls) \X (1..MaxNest) :
               t[2] \in DOMAIN calls[t[1]] /\ calls[t[1]][t[2]] = "try"}
Innermost(t) ==
    \A s \in Trying : t[1] < s[1] \/ (t[1] = s[1] /\ t[2] <= s[2])

(* A raised exception goes to the handlers of the innermost try whose body *)
(* is being evaluated, in whichever call that is, and what was begun since *)
(* then is given up; if there is no such try, the program ends.            *)
Handled ==
    IF Trying = {} THEN status' = "uncaught"
    ELSE \E t \in Trying :
            /\ Innermost(t) /\ status' = "running"
            /\ calls' = <<SubSeq(calls[t[1]], t[2] + 1, Len(calls[t[1]]))>>
                          \o SubSeq(calls, t[1] + 1, Len(calls))
HandledInnermost == [][Raise \/ RaiseWild \/ RaiseUncaught => Handled]_vars
=============================================================================
