------------------------------- MODULE Patsopt -------------------------------
(***************************************************************************)
(* Several inputs on one command line of patsopt (src/src/pats_main.dats): *)
(* all are translated in the one Trans2Env.  do_trans12 clears the three   *)
(* symenvs before an input whose number since the last flag is two or more *)
(* ("-d a.dats b.dats"); a flag sets that number back to 0, so in          *)
(* "-d a.dats -d b.dats" nothing is cleared between the two.               *)
(***************************************************************************)
EXTENDS Trans2Env

VARIABLES
    ninpfile,   \* the inputs since the last -s, -d or -dd
    since       \* history: ndecls when the current input was begun

pvars == <<vars, ninpfile, since>>

PatsInit == Init /\ ninpfile = 1 /\ since = 0

FirstInput == Start /\ ninpfile' = 1 /\ since' = ndecls

AtEnd == started /\ callers = <<>> /\ Head(kinds) = "top"

\* Another -s, -d or -dd, met where an input may follow.
Flag ==
    /\ AtEnd /\ ninpfile' = 0
    /\ UNCHANGED <<vars, since>>

\* From the second call on: symenv_top_clear.
trans2_env_initialize == map' = Nil

NextInput ==
    /\ AtEnd /\ ninpfile < 2
    /\ ninpfile' = ninpfile + 1 /\ since' = ndecls
    /\ IF ninpfile' >= 2 THEN trans2_env_initialize ELSE UNCHANGED map
    /\ UNCHANGED <<maplst, savedlst, pervasive, namespace, filenvmap, control,
                   ndecls>>

PatsNext ==
    \/ Next /\ ~Start /\ UNCHANGED <<ninpfile, since>>
    \/ FirstInput \/ Flag \/ NextInput

PatsSpec == PatsInit /\ [][PatsNext]_pvars

-----------------------------------------------------------------------------
AtBeginning == AtEnd /\ ndecls = since

(* "The scope of a toplevel binding in a file starts from the point where  *)
(* the binding is introduced until the very end of the file"               *)
(* (INT2PROGINATS/CHAP_PROGELEM/main.atxt:187): where an input begins, a   *)
(* name stands for what the prelude declares.                              *)
ToplevelScopeEnds ==
    AtBeginning => \A n \in Name : Find(n) = pervasive[n]
=============================================================================
