----------------------------- MODULE LinearTypes -----------------------------
(***************************************************************************)
(* How the third translation tracks linear variables: the sets and markers *)
(* of pats_trans3_env_dvar.dats, the states of variables at branches       *)
(* (pats_trans3_env_lstate.dats), loops (pats_trans3_looping.dats,         *)
(* pats_trans3_env_lamlp.dats) and the expressions that use them           *)
(* (pats_trans3_dynexp_up.dats, _dn.dats, _caseof.dats).                   *)
(*                                                                         *)
(* Each action is the next construct that the translator meets, in a       *)
(* program that is well scoped and otherwise arbitrary; ctrl holds what    *)
(* its recursion keeps in local variables.  The model stops at the first   *)
(* error (Report).  Beside the checker an execution of the program is      *)
(* followed: run is its store where the translator is, or Away when it     *)
(* does not come here, having taken another branch or left by a $break or  *)
(* an exception.                                                           *)
(*                                                                         *)
(* All variables are bound by val or are parameters and have linear types, *)
(* of which the subtype relation is all that is known.  Loops have no      *)
(* invariant annotations and no post expression.                           *)
(*                                                                         *)
(* Mutants: ThroughMarkers, LamEndLeft, NoMerges.                          *)
(***************************************************************************)
EXTENDS Naturals, Sequences, FiniteSets

CONSTANTS
    Var,
    Type, Sub,      \* s2exp_tyleq_solve: <<t1, t2>> if t1 fits where t2 is due
    None, Away,
    MaxDepth,       \* bound on the nesting of constructs
    Rules           \* which of two rules programs keep by themselves: "try",
                    \* see Sealable, and "break", see Escapes

ASSUME TypesAssumption ==
    /\ Sub \subseteq Type \X Type /\ None \notin Type
    /\ \A t \in Type : <<t, t>> \in Sub
    /\ \A a, b, c \in Type : <<a, b>> \in Sub /\ <<b, c>> \in Sub => <<a, c>> \in Sub

VARIABLES
    d2var_type,     \* None: the variable has been consumed
    mastype,        \* the type that a variable was declared with
    finknd,         \* the type it must have at the end, None: to be consumed
    the_ld2vs,      \* the variables of the innermost scope
    the_ld2vss,     \* the scopes around it, and markers for functions
    the_lamlplst,   \* the functions and loops around, for $break, $continue
    ctrl,           \* the constructs being translated, innermost first
    err,            \* the_trans3errlst is not empty
    run,            \* history: the store of the execution
    bad             \* history: the execution used what it did not have, or
                    \* lost what it had

dvars == <<d2var_type, mastype, finknd>>
envs == <<the_ld2vs, the_ld2vss>>
exec == <<run, bad>>
vars == <<dvars, envs, the_lamlplst, ctrl, err, exec>>

Maybe == Type \cup {None}
Store == [Var -> Maybe]
Nothing == [v \in Var |-> None]

\* auxVarCK: both are None, or both are types and fit.
VarCK(opt, opt2) == opt = opt2 \/ <<opt, opt2>> \in Sub
Fits(s, t, S) == \A v \in S : VarCK(s[v], t[v])
RunFits(t, S) == run # Away => Fits(run, t, S)

\* The checker refuses the program.
Report == err' = TRUE /\ UNCHANGED <<dvars, envs, the_lamlplst, ctrl, exec>>

-----------------------------------------------------------------------------
(* The scopes.  LD2VSset is an element with node "set", LD2VSlam one with  *)
(* node "lam"; lin = 0 where a search from within stops.                   *)

LD2VSset(S) == [node |-> "set", lin |-> 1, d2vs |-> S]
LD2VSlam(lin) == [node |-> "lam", lin |-> lin, d2vs |-> {}]

Sets == {i \in DOMAIN the_ld2vss : the_ld2vss[i].node = "set"}

ThroughMarkers == DOMAIN the_ld2vss

Walk == {i \in DOMAIN the_ld2vss : \A j \in 1..i : the_ld2vss[j].lin # 0}

Visible == the_ld2vs \cup UNION {the_ld2vss[i].d2vs : i \in Sets}
Local == the_ld2vs \cup UNION {the_ld2vss[i].d2vs : i \in Sets \cap Walk}

\* is_llamlocal leaves the variable on the markers that it comes by.
Marked(v) ==
    [i \in DOMAIN the_ld2vss |->
       IF /\ i \in Walk \ Sets /\ v \notin the_ld2vs
          /\ \A j \in Sets : j < i => v \notin the_ld2vss[j].d2vs
       THEN [the_ld2vss[i] EXCEPT !.d2vs = @ \cup {v}] ELSE the_ld2vss[i]]

push == the_ld2vs' = {} /\ the_ld2vss' = <<LD2VSset(the_ld2vs)>> \o the_ld2vss

push_lam(lin, S) ==
    /\ the_ld2vs' = S
    /\ the_ld2vss' = <<LD2VSlam(lin), LD2VSset(the_ld2vs)>> \o the_ld2vss

pop ==
    \E k \in Sets :
        /\ \A j \in Sets : k <= j
        /\ the_ld2vs' = the_ld2vss[k].d2vs
        /\ the_ld2vss' = SubSeq(the_ld2vss, k + 1, Len(the_ld2vss))

save_lstbefitmlst == [v \in Local |-> d2var_type[v]]
restore_type(lsbis) ==
    [v \in Var |-> IF v \in DOMAIN lsbis THEN lsbis[v] ELSE d2var_type[v]]

\* What is out of scope is gone from the tables and from the store.
Without(s, S) == IF s = Away THEN Away ELSE [v \in Var |-> IF v \in S THEN None ELSE s[v]]
Forget(S) ==
    /\ d2var_type' = Without(d2var_type, S)
    /\ mastype' = Without(mastype, S)
    /\ finknd' = Without(finknd, S)

-----------------------------------------------------------------------------
\* wait: the store of an execution that skips what is translated now; done:
\* that of one that has been through it and goes on after the construct;
\* outer: the variables that are in scope around it.
Frame(kind, lsbis, wait, done) ==
    [kind |-> kind, lsbis |-> lsbis, saits |-> <<>>, wait |-> wait, done |-> done,
     outer |-> Visible]
Enter(kind, lsbis, wait, done) ==
    /\ Len(ctrl) < MaxDepth
    /\ ctrl' = <<Frame(kind, lsbis, wait, done)>> \o ctrl
In(kind) == ctrl # <<>> /\ Head(ctrl).kind = kind
top == Head(ctrl)
Leave == ctrl' = Tail(ctrl)
Become(frame) == ctrl' = <<frame>> \o Tail(ctrl)
Gone == [v \in {} |-> None]
Either(s1, s2) == IF s1 # Away THEN s1 ELSE s2

\* The nearest frame of one of the kinds in the same function, 0 if none.
Nearest(kinds) ==
    LET hits == {i \in DOMAIN ctrl :
                   /\ ctrl[i].kind \in kinds
                   /\ \A j \in 1..i : ctrl[j].kind \notin {"lam", "llam"}}
    IN  IF hits = {} THEN 0 ELSE CHOOSE i \in hits : \A j \in hits : i <= j

Init ==
    /\ d2var_type = Nothing /\ mastype = Nothing /\ finknd = Nothing
    /\ the_ld2vs = {} /\ the_ld2vss = <<>> /\ the_lamlplst = <<>>
    /\ ctrl = <<>> /\ err = FALSE
    /\ run = Nothing /\ bad = FALSE

Bind(v, t, fin) ==
    /\ v \notin Visible
    /\ d2var_type' = [d2var_type EXCEPT ![v] = t]
    /\ mastype' = [mastype EXCEPT ![v] = t]
    /\ finknd' = [finknd EXCEPT ![v] = fin]

\* The execution goes on from s, with a value of type t in v.
Given(s, v, t) ==
    IF s = Away THEN run' = Away
    ELSE \E u \in Type : <<u, t>> \in Sub /\ run' = [s EXCEPT ![v] = u]

-----------------------------------------------------------------------------
(* Using a variable.                                                       *)

\* The rule "try": what is tried in a position without an expected type
\* keeps off the variables of the outside (see TryUp, whose lsbis is here
\* for this rule only).
Sealable(v) ==
    \A i \in DOMAIN ctrl : ctrl[i].kind = "tryup" => v \notin DOMAIN ctrl[i].lsbis

\* d2exp_trup_var_nonmut, of a variable of which type t is expected.
Usable(v, t) == d2var_type[v] # None /\ v \in Local /\ VarCK(d2var_type[v], t)
TrupVar(v, t) ==
    /\ v \in Visible /\ ("try" \in Rules => Sealable(v))
    /\ Usable(v, t)
    /\ the_ld2vss' = Marked(v)
    /\ bad' = (bad \/ (run # Away /\ ~VarCK(run[v], t)))
    /\ UNCHANGED <<mastype, finknd, the_ld2vs, the_lamlplst, ctrl, err>>

\* The argument of a function with a parameter of type t.
Use(v, t) ==
    /\ TrupVar(v, t)
    /\ d2var_type' = [d2var_type EXCEPT ![v] = None]
    /\ run' = Without(run, {v})

\* With a parameter !t >> t2 d3lval_set_type_err gives it back.
Borrow(v, t, t2) ==
    /\ TrupVar(v, t)
    /\ d2var_type' = [d2var_type EXCEPT ![v] = t2]
    /\ Given(run, v, t2)

-----------------------------------------------------------------------------
(* Scopes: let-expressions, and the clauses of a case-expression.          *)

Let ==
    /\ Enter("let", Gone, Away, Away) /\ push
    /\ UNCHANGED <<dvars, the_lamlplst, err, exec>>

\* val v = e, where e has type t.
Declare(v, t) ==
    /\ In("let") /\ Bind(v, t, None) /\ Given(run, v, t)
    /\ the_ld2vs' = the_ld2vs \cup {v}
    /\ UNCHANGED <<the_ld2vss, the_lamlplst, ctrl, err, bad>>

\* the_d2varenv_check: d2vfin_check for all variables of the scope.
Checked == Fits(d2var_type, finknd, the_ld2vs)
ScopeEnd ==
    /\ Checked /\ Leave /\ pop /\ Forget(the_ld2vs)
    /\ bad' = (bad \/ ~RunFits(finknd, the_ld2vs))
    /\ UNCHANGED err

LetEnd ==
    /\ In("let") /\ ScopeEnd
    /\ run' = Without(run, the_ld2vs)
    /\ UNCHANGED the_lamlplst

-----------------------------------------------------------------------------
(* Functions.  A function (lin = 0) may be called at any time and any      *)
(* number of times, so its body finds nothing of what is outside.  A       *)
(* linear one (lin = 1) is called once, and takes along what its body      *)
(* uses.  The execution calls it, and goes on after it.                    *)

lampush(kind, lin, S) ==
    /\ Enter(kind, Gone, run, Away) /\ push_lam(lin, S)
    /\ the_lamlplst' = <<[kind |-> "lam", lsbis |-> Gone]>> \o the_lamlplst
    /\ UNCHANGED <<err, bad>>
Called == IF run = Away THEN Away ELSE Nothing

Lam == lampush("lam", 0, {}) /\ run' = Called /\ UNCHANGED dvars

\* A parameter of type t, which the caller gets back if fin is a type.
LamArg(v, t, fin) ==
    lampush("lam", 0, {v}) /\ Bind(v, t, fin) /\ Given(Called, v, t)

LLam == lampush("llam", 1, {}) /\ UNCHANGED <<dvars, run>>

LamEndLeft ==
    /\ In("lam") /\ ScopeEnd
    /\ UNCHANGED the_lamlplst
    /\ run' = top.wait

LamEnd ==
    /\ In("lam") /\ ScopeEnd
    /\ the_lamlplst' = Tail(the_lamlplst)
    /\ run' = top.wait

\* the_d2varenv_check_llam: what the body has used it must have consumed.
llamd2vs == the_ld2vss[1].d2vs
LLamChecked == \A v \in llamd2vs : d2var_type[v] = None
LLamEnd ==
    /\ In("llam") /\ Checked /\ LLamChecked /\ Leave /\ pop
    /\ bad' = (bad \/ ~RunFits(Nothing, llamd2vs))
    /\ the_lamlplst' = Tail(the_lamlplst)
    /\ run' = Without(top.wait, llamd2vs)
    /\ UNCHANGED <<dvars, err>>

-----------------------------------------------------------------------------
(* Branches: if, sif and case.  The execution takes any one of them.       *)

Branch ==
    /\ \/ Enter("branch", save_lstbefitmlst, run, Away) /\ run' = Away
       \/ Enter("branch", save_lstbefitmlst, Away, Away) /\ UNCHANGED run
    /\ UNCHANGED <<dvars, envs, the_lamlplst, err, bad>>

\* lstaftc3nstr_update, then lstbefitmlst_restore_type.  At most two
\* branches: a bound.
NextBranch ==
    /\ In("branch") /\ top.saits = <<>>
    /\ Become([top EXCEPT !.saits = <<d2var_type>>, !.wait = Away, !.done = run])
    /\ run' = top.wait
    /\ d2var_type' = restore_type(top.lsbis)
    /\ UNCHANGED <<mastype, finknd, envs, the_lamlplst, err, bad>>

\* lstaftc3nstr_check takes the last branch as reference, and the declared
\* type for the variables to which another branch gives a different one.
\* s2exp_refeq compares pointers: equal types may count as different.
Saits == <<d2var_type>> \o top.saits
NoMerges == {{}}

Merges ==
    LET typed == {v \in DOMAIN top.lsbis : d2var_type[v] # None}
        differ == {v \in typed : \E i \in DOMAIN top.saits :
                                   top.saits[i][v] \notin {None, d2var_type[v]}}
    IN  {M \in SUBSET typed : differ \subseteq M /\ (top.saits = <<>> => M = {})}

\* auxsait, for each branch.
Agree(M) ==
    \A i \in DOMAIN Saits, v \in DOMAIN top.lsbis :
        /\ Saits[i][v] = None <=> d2var_type[v] = None
        /\ v \in M => VarCK(Saits[i][v], mastype[v])

Join(M) ==
    /\ In("branch") /\ M \in Merges /\ Agree(M) /\ Leave
    /\ d2var_type' = [v \in Var |-> IF v \in M THEN mastype[v] ELSE d2var_type[v]]
    /\ run' = Either(run, top.done)
    /\ UNCHANGED <<mastype, finknd, envs, the_lamlplst, err, bad>>

-----------------------------------------------------------------------------
(* Exceptions.  Where the type of the result is expected the marker is     *)
(* pushed before the tried expression (d2exp_trdn_trywith), otherwise      *)
(* after it (d2exp_trup_trywith).                                          *)

TryDn ==
    /\ Enter("trydn", Gone, Away, Away) /\ push_lam(0, {})
    /\ UNCHANGED <<dvars, the_lamlplst, err, exec>>

TryUp ==
    /\ Enter("tryup", save_lstbefitmlst, Away, Away)
    /\ UNCHANGED <<dvars, envs, the_lamlplst, err, exec>>

\* Some call raises an exception.
Raise ==
    /\ Nearest({"trydn", "tryup"}) # 0 /\ run # Away
    /\ ctrl' = [ctrl EXCEPT ![Nearest({"trydn", "tryup"})].done = run]
    /\ run' = Away
    /\ UNCHANGED <<dvars, envs, the_lamlplst, err, bad>>

\* What was bound inside and held when the exception was raised is lost:
\* the language accepts that.
Handler ==
    /\ Become([top EXCEPT !.kind = "with", !.wait = run, !.done = Away])
    /\ run' = Without(top.done, Var \ Visible)
    /\ UNCHANGED <<dvars, the_lamlplst, err, bad>>

WithDn == In("trydn") /\ Handler /\ UNCHANGED envs
WithUp == In("tryup") /\ Handler /\ push_lam(0, {})

TryEnd ==
    /\ In("with") /\ Leave /\ pop
    /\ run' = Either(run, top.wait)
    /\ UNCHANGED <<dvars, the_lamlplst, err, bad>>

-----------------------------------------------------------------------------
(* Loops.  A dry run of the body finds the variables whose types it        *)
(* changes, and gives them their declared types: here any R.  After that   *)
(* the body is checked once, for all iterations: the execution begins it   *)
(* with any store that fits the types at the head, and must fit them again *)
(* when it comes back.                                                     *)

Iteration(lsbis) ==
    IF run = Away THEN run' = Away
    ELSE \E s \in [DOMAIN lsbis -> Maybe] :
           /\ Fits(s, lsbis, DOMAIN lsbis)
           /\ run' = [v \in Var |-> IF v \in DOMAIN lsbis THEN s[v] ELSE run[v]]

lsbis1(R) == [v \in Local |-> IF v \in R THEN mastype[v] ELSE d2var_type[v]]
Entered(R) == Fits(d2var_type, lsbis1(R), Local)
Loop(R) ==
    /\ R \subseteq Local /\ Entered(R)
    /\ Enter("test", lsbis1(R), Away, Away)
    /\ d2var_type' = restore_type(lsbis1(R))
    /\ Iteration(lsbis1(R)) /\ bad' = (bad \/ ~RunFits(lsbis1(R), Local))
    /\ UNCHANGED <<mastype, finknd, envs, the_lamlplst, err>>

\* auxBreak and auxContinue look up what is saved here in the loop's lsbis.
LoopChecked(lsbis) == Fits(d2var_type, lsbis, Local \cap DOMAIN lsbis)

\* The test may be the last.
LoopTest ==
    /\ In("test") /\ LoopChecked(top.lsbis)
    /\ \/ Become([top EXCEPT !.kind = "loop", !.done = run]) /\ run' = Away
       \/ Become([top EXCEPT !.kind = "loop"]) /\ UNCHANGED run
    /\ the_lamlplst' = <<[kind |-> "loop1", lsbis |-> top.lsbis]>> \o the_lamlplst
    /\ UNCHANGED <<dvars, envs, err, bad>>

LoopEnd ==
    /\ In("loop") /\ LoopChecked(top.lsbis) /\ Leave
    /\ the_lamlplst' = Tail(the_lamlplst)
    /\ d2var_type' = restore_type(top.lsbis)
    /\ run' = top.done /\ bad' = (bad \/ ~RunFits(top.lsbis, DOMAIN top.lsbis))
    /\ UNCHANGED <<mastype, finknd, envs, err>>

InLoop == the_lamlplst # <<>> /\ Head(the_lamlplst).kind = "loop1"
lsbis0 == Head(the_lamlplst).lsbis
Inner == Visible \ ctrl[Nearest({"loop"})].outer

\* The rule "break": at a $break or $continue nothing is held that the loop
\* has bound, and what a try has put out of reach is as at the loop's head.
Escapes ==
    /\ \A v \in Inner : d2var_type[v] = None
    /\ Fits(d2var_type, lsbis0, DOMAIN lsbis0 \ Local)

loopexn ==
    /\ InLoop /\ ("break" \in Rules => Escapes) /\ LoopChecked(lsbis0)
    /\ run' = Away
    /\ UNCHANGED <<dvars, envs, the_lamlplst, err>>

Break ==
    /\ loopexn
    /\ bad' = (bad \/ ~RunFits(Nothing, Inner))
    /\ ctrl' = [ctrl EXCEPT ![Nearest({"loop"})].done = Either(Without(run, Inner), @)]

Continue ==
    /\ loopexn
    /\ bad' = (bad \/ ~RunFits(Nothing, Inner) \/ ~RunFits(lsbis0, DOMAIN lsbis0))
    /\ UNCHANGED ctrl

-----------------------------------------------------------------------------
\* Whatever comes next, the checker does not refuse it.
Accepts ==
    /\ \A v \in Visible, t \in Type : Usable(v, t)
    /\ In("let") \/ In("lam") => Checked
    /\ In("llam") => LLamChecked
    /\ In("branch") => \A M \in Merges : Agree(M)
    /\ \A R \in SUBSET Local : Entered(R)
    /\ In("test") \/ In("loop") => LoopChecked(top.lsbis)
    /\ InLoop /\ LoopChecked(lsbis0)               \* $break, $continue

\* Something that could come next is refused: the_trans3errlst grows.
Reject == ~Accepts /\ Report

Construct ==
    \/ Let \/ LetEnd \/ Lam \/ LLam \/ LamEnd \/ LLamEnd
    \/ Branch \/ NextBranch \/ (\E M \in SUBSET Var : Join(M))
    \/ TryDn \/ TryUp \/ Raise \/ WithDn \/ WithUp \/ TryEnd
    \/ \E R \in SUBSET Var : Loop(R)
    \/ LoopTest \/ LoopEnd \/ Break \/ Continue
    \/ \E v \in Var, t \in Type : Declare(v, t) \/ Use(v, t)
    \/ \E v \in Var, t \in Type, fin \in Maybe : LamArg(v, t, fin)
    \/ \E v \in Var, t, t2 \in Type : Borrow(v, t, t2)

Next == ~err /\ (Construct \/ Reject)
Spec == Init /\ [][Next]_vars

-----------------------------------------------------------------------------
Kind == {"let", "lam", "llam", "branch", "trydn", "tryup", "with", "test", "loop"}
Lsbis == UNION {[S -> Maybe] : S \in SUBSET Var}
Run == Store \cup {Away}

(* The checker's stacks are well formed, and the stack of functions and    *)
(* loops has one entry for each of them that is being checked.             *)
TypeOK ==
    /\ d2var_type \in Store /\ mastype \in Store /\ finknd \in Store
    /\ the_ld2vs \subseteq Var
    /\ the_ld2vss \in Seq([node : {"set", "lam"}, lin : {0, 1}, d2vs : SUBSET Var])
    /\ the_lamlplst \in Seq([kind : {"lam", "loop1"}, lsbis : Lsbis])
    /\ ctrl \in Seq([kind : Kind, lsbis : Lsbis, saits : Seq(Store),
                     wait : Run, done : Run, outer : SUBSET Var])
    /\ Len(the_lamlplst) =
         Cardinality({i \in DOMAIN ctrl : ctrl[i].kind \in {"lam", "llam", "loop"}})
    /\ err \in BOOLEAN /\ run \in Run /\ bad \in BOOLEAN

(* A program that the checker has not refused does what the checker        *)
(* believes: when its execution is here, it holds in each variable within  *)
(* reach a value of the type that the checker has for it, and nothing      *)
(* where the checker has None.  It has never used a value that it did not  *)
(* have or that was of another type, and at the end of a scope it has      *)
(* never lost one ("needs to be consumed but it is preserved",             *)
(* "needs to be preserved but it is consumed").                            *)
Sound == ~bad /\ RunFits(d2var_type, Local)

(* What lies outside of a function that is not linear, or of a try, is     *)
(* left alone there, whatever is nested inside: the function may never be  *)
(* called, and the try may be left at any point ("preventing linear        *)
(* resources from being accessed", pats_trans3_env_dvar.dats:285).         *)
Sealed == UNION {the_ld2vss[i].d2vs : i \in
                   {i \in Sets : \E j \in 1..i : the_ld2vss[j].lin = 0}}
Untouched ==
    [][\A v \in Sealed : d2var_type'[v] = d2var_type[v]]_vars
=============================================================================
