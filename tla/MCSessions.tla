------------------------------ MODULE MCSessions ------------------------------
(***************************************************************************)
(* Uchan and SessionLink for TLC.  A behaviour is one of the component     *)
(* that use names; the variables of the other keep their initial values,   *)
(* and in "link" the threads of Uchan have no calls to make.               *)
(***************************************************************************)
EXTENDS Uchan

CONSTANTS
    nrole, MaxChannels, Plans   \* of SessionLink

VARIABLES
    use,
    lrfcnt, lqnext, chans, state, links, unrefs, session, received, plan

uchan == vars
link == <<lrfcnt, lqnext, chans, state, links, unrefs, session, received, plan>>
mcvars == <<use, vars, link>>

SL == INSTANCE SessionLink WITH rfcnt <- lrfcnt, qnext <- lqnext

-----------------------------------------------------------------------------
\* The calls of thread 0, which reads uchan 1, up to those of thread 3, which
\* writes uchan 3.  Readers receive what is sent to them: threads link or close
\* after or before they have forwarded, with messages on either side.
MCCalls(c0, c1, c2, c3) == [t \in 0..3 |->
    CASE t = 0 -> c0 [] t = 1 -> c1 [] t = 2 -> c2 [] t = 3 -> c3]

MCPrograms ==
    LET S == "insert"
        R == "remove"
        L == "link"
        CI == "close_in"
        CO == "close_out"
    IN  { MCCalls(<<>>, <<>>, <<>>, <<>>),
          MCCalls(<<R, R, R, CI>>, <<L>>, <<L>>, <<S, S, S, CO>>),
          MCCalls(<<R, R, R, CI>>, <<S, L>>, <<S, L>>, <<S, CO>>),
          MCCalls(<<R, R, R, CI>>, <<S, R, L>>, <<S, L>>, <<S, S, CO>>),
          MCCalls(<<R, R, CI>>, <<R, S, R, L>>, <<L>>, <<S, S, S, CO>>),
          MCCalls(<<R, CI>>, <<S, CO, CI>>, <<L>>, <<CO>>),
          MCCalls(<<R, R, CI>>, <<R, S, L>>, <<S, R, S, CO, CI>>, <<S, CO>>) }

\* Three sessions of three roles, linked by one call after the other, or two that
\* are linked and closed by two calls at once.
MCPlans ==
    LET Plan(groups, calls, received_) ==
            [groups |-> groups, calls |-> calls, received |-> received_]
    IN  { Plan(<< <<0>>, <<0, 1>>, <<1>> >>, 1, 0), Plan(<< <<0>>, <<0, 1>> >>, 2, 1),
          Plan(<< <<0, 1>>, <<0, 1>> >>, 2, 1), Plan(<< <<0>>, <<0, 1, 2>> >>, 2, 2) }

ASSUME SessionsAssumption == UchanAssumption
ASSUME SessionLinkAssumption == SL!SessionLinkAssumption

-----------------------------------------------------------------------------
\* In "serial" a call of uchan_unref does not begin during another of the same
\* uchan.
Serial == \A s, t \in Thread :
    s # t /\ pc[s] = "counted" /\ pc[t] = "counted" => dead[s] # dead[t]

MCInit ==
    /\ use \in {"serial", "overlapping", "link"}
    /\ Init /\ SL!Init
    /\ use = "link" <=> todo = [t \in Thread |-> <<>>]
    /\ use # "link" => plan = CHOOSE p \in Plans : TRUE

MCNext ==
    /\ \/ use = "serial" /\ Next /\ Serial' /\ UNCHANGED link
       \/ use = "overlapping" /\ Next /\ UNCHANGED link
       \/ use = "link" /\ SL!Next /\ UNCHANGED uchan
    /\ UNCHANGED use

\* A thread that cannot take a step waits for the others; one that may not read
\* a count waits for an unref to end.
MCSpec == MCInit /\ [][MCNext]_mcvars /\ Fairness

-----------------------------------------------------------------------------
\* The counts agree with the references, if unrefs of the same uchan do not
\* overlap; for those that do, see MCUchan.
SerialCountAgrees == use = "serial" => CountAgrees
\* Linking leads the messages between any two roles to the right holder, and the
\* counts of the uchans of whole sessions agree with the references.
LinksAgree == SL!Routed /\ SL!CountAgrees
=============================================================================
