----------------------------- MODULE Trans1Files -----------------------------
(***************************************************************************)
(* Includes and staloads in the first translation (src/src/pats_trans1_    *)
(* decl.dats), the stack of files (pats_filename.dats) that names are      *)
(* resolved by and that cycles are found in, the table of staloaded files  *)
(* (pats_trans1_env.dats), and the driver that puts the inputs on the      *)
(* stack (pats_parsing.dats, pats_main.dats).  Of a file's declarations    *)
(* those that name a file are kept.  Each carries the file it was written  *)
(* in, since the declarations of an included file are translated among     *)
(* those of the file that includes it.                                     *)
(*                                                                         *)
(* Mutants, each before the definition it is a slip of: PushCheckCurrent,  *)
(* EndStaloadPopOnce.                                                      *)
(***************************************************************************)
EXTENDS Naturals, Sequences, Functions

CONSTANTS
    File, NoFile,    \* NoFile: filename_dummy, and a name that leads nowhere
    MaxDecls,        \* bound on the declarations in all files together
    MaxInputs,       \* bound on the inputs of the command line
    MaxCombined,     \* how many inputs -dd may combine; 1: no -dd
    KeepGoing        \* inputs may follow one with errors

Trans1FilesAssumption ==
    /\ NoFile \notin File
    /\ MaxDecls \in Nat /\ MaxInputs \in Nat /\ MaxCombined \in Nat \ {0}
    /\ KeepGoing \in BOOLEAN

VARIABLES
    text,      \* text[f]: {}, or {the declarations of f} once f was parsed
    stack,     \* the_filename and the_filenamelst
    calls,     \* the nested calls of d0eclist_tr, innermost first
    table,     \* the files in theStaloadMap
    failed,    \* the_trans1errlst is not empty
    broken,    \* an input had errors
    given,     \* the inputs met so far
    combined,  \* the inputs that are being translated
    phase
vars == <<text, stack, calls, table, failed, broken, given, combined, phase>>

Op == {"include", "staload"}
Written(f) == [op : Op, file : File \cup {NoFile}, pfil : {f}]
Decl == UNION {Written(f) : f \in File}
Call == [op : Op \cup {"input"}, file : File, todo : Seq(Decl)]

-----------------------------------------------------------------------------
(* The stack of files.                                                     *)

ppush(s, f) == [cur |-> f, lst |-> <<s.cur>> \o s.lst]
ppop(s) == [cur |-> Head(s.lst), lst |-> Tail(s.lst)]

Listed(s) == {s.lst[i] : i \in DOMAIN s.lst}

PushCheckCurrent(s, f) == f = s.cur

\* the_filenamelst_push_check, for a file that exists.
push_check(s, f) == f \in Listed(ppush(s, f))

-----------------------------------------------------------------------------
Init ==
    /\ text = [f \in File |-> {}]
    /\ stack = [cur |-> NoFile, lst |-> <<>>]
    /\ calls = <<>> /\ table = {} /\ failed = FALSE /\ broken = FALSE
    /\ given = 0 /\ combined = 0 /\ phase = "idle"

\* How many declarations the files parsed so far have.
Length(f) == IF text[f] = {} THEN 0 ELSE Len(CHOOSE ds \in text[f] : TRUE)
Parsed == FoldFunction(+, 0, [f \in File |-> Length(f)])

\* A file that is parsed again has the declarations it had.
Contents(f) ==
    IF text[f] # {} THEN text[f]
    ELSE UNION {[1..k -> Written(f)] : k \in 0..(MaxDecls - Parsed)}
Parse(f, ds) == ds \in Contents(f) /\ text' = [text EXCEPT ![f] = {ds}]

-----------------------------------------------------------------------------
(* The driver.  It goes on after an input with errors, which do_transfinal2 *)
(* counts.                                                                 *)

Given(f) ==
    /\ given < MaxInputs /\ given' = given + 1
    /\ phase = "idle" /\ (broken => KeepGoing)

\* --depgen or --taggen: the ppop follows the ppush at once.
Scan(f) ==
    /\ Given(f) /\ \E ds \in Contents(f) : Parse(f, ds)
    /\ stack' = ppop(ppush(stack, f))
    /\ UNCHANGED <<calls, table, failed, broken, combined, phase>>

Give(f) ==
    /\ Given(f)
    /\ \E ds \in Contents(f) :
          /\ Parse(f, ds)
          /\ calls' = <<[op |-> "input", file |-> f, todo |-> ds]>>
    /\ stack' = ppush(stack, f) /\ combined' = 1 /\ phase' = "given"
    /\ UNCHANGED <<table, failed, broken>>

\* -dd: the next input belongs to the same translation.
GiveMore(f) ==
    /\ phase = "given" /\ combined < MaxCombined /\ combined' = combined + 1
    /\ \E ds \in Contents(f) :
          /\ Parse(f, ds)
          /\ calls' = <<[calls[1] EXCEPT !.file = f, !.todo = @ \o ds]>>
    /\ stack' = ppush(stack, f)
    /\ UNCHANGED <<table, failed, broken, given, phase>>

Translate ==
    /\ phase = "given" /\ phase' = "translating"
    /\ UNCHANGED <<text, stack, calls, table, failed, broken, given, combined>>

\* d0eclist_tr_errck and trans1_finalize.  Errors end the former by an
\* exception, and the latter, with its ppop, is not called.
InputEnd ==
    /\ phase = "translating" /\ Len(calls) = 1 /\ calls[1].todo = <<>>
    /\ stack' = IF failed THEN stack ELSE ppop(stack)
    /\ broken' = (broken \/ failed) /\ failed' = FALSE
    /\ calls' = <<>> /\ combined' = 0 /\ phase' = "idle"
    /\ UNCHANGED <<text, table, given>>

-----------------------------------------------------------------------------
(* d0ecl_tr, for D0Cinclude and D0Cstaload.                                *)

\* The next declaration is d.
Meets(d) ==
    /\ phase = "translating" /\ calls[1].todo # <<>> /\ d = Head(calls[1].todo)

\* The calls cs, once their next declaration is translated.
Done(cs) == <<[cs[1] EXCEPT !.todo = Tail(@)]>> \o Tail(cs)

\* i0nclude_tr and s0taload_tr resolve the name and check the file while the
\* file that the declaration was written in is the current one.
Writing(d) == ppush(stack, d.pfil)
Loops(d) == d.file # NoFile /\ push_check(Writing(d), d.file)

\* The name leads nowhere.  The translation goes on with a file of nothing.
Missing ==
    /\ \E d \in Decl : Meets(d) /\ d.file = NoFile
    /\ failed' = TRUE /\ calls' = Done(calls)
    /\ UNCHANGED <<text, stack, table, broken, given, combined, phase>>

\* "generates the following looping trace", and the compiler ends.
Refuse ==
    /\ \E d \in Decl : Meets(d) /\ Loops(d)
    /\ phase' = "refused"
    /\ UNCHANGED <<text, stack, calls, table, failed, broken, given, combined>>

Enter(d) ==
    \E ds \in Contents(d.file) :
       /\ Parse(d.file, ds)
       /\ calls' = <<[op |-> d.op, file |-> d.file, todo |-> ds]>> \o calls

Include(d) ==
    /\ Meets(d) /\ d.op = "include" /\ d.file # NoFile /\ ~Loops(d)
    /\ Enter(d) /\ stack' = Writing(d)
    /\ UNCHANGED <<table, failed, broken, given, combined, phase>>

Staload(d) ==
    /\ Meets(d) /\ d.op = "staload" /\ d.file # NoFile /\ ~Loops(d)
    /\ d.file \notin table
    /\ Enter(d) /\ stack' = ppush(Writing(d), d.file)
    /\ UNCHANGED <<table, failed, broken, given, combined, phase>>

\* staload_file_search has found the file.
StaloadAgain ==
    /\ \E d \in Decl : Meets(d) /\ d.op = "staload" /\ ~Loops(d) /\ d.file \in table
    /\ calls' = Done(calls)
    /\ UNCHANGED <<text, stack, table, failed, broken, given, combined, phase>>

Ends(op) == phase = "translating" /\ calls[1].todo = <<>> /\ calls[1].op = op

EndInclude ==
    /\ Ends("include") /\ stack' = ppop(stack) /\ calls' = Done(Tail(calls))
    /\ UNCHANGED <<text, table, failed, broken, given, combined, phase>>

EndStaloadPopOnce ==
    /\ Ends("staload") /\ stack' = ppop(stack)
    /\ table' = table \cup {calls[1].file} /\ calls' = Done(Tail(calls))
    /\ UNCHANGED <<text, failed, broken, given, combined, phase>>

\* auxload's pop and staload_file_insert, and the pop of D0Cstaload.
EndStaload ==
    /\ Ends("staload") /\ stack' = ppop(ppop(stack))
    /\ table' = table \cup {calls[1].file} /\ calls' = Done(Tail(calls))
    /\ UNCHANGED <<text, failed, broken, given, combined, phase>>

Next ==
    \/ \E f \in File : Scan(f) \/ Give(f) \/ GiveMore(f)
    \/ Translate \/ InputEnd
    \/ Missing \/ Refuse \/ StaloadAgain \/ EndInclude \/ EndStaload
    \/ \E d \in Decl : Include(d) \/ Staload(d)

Spec == Init /\ [][Next]_vars

-----------------------------------------------------------------------------
(* The stack, the calls and the table are well formed.                     *)
TypeOK ==
    /\ text \in [File -> SUBSET Seq(Decl)]
    /\ stack \in [cur : File \cup {NoFile}, lst : Seq(File \cup {NoFile})]
    /\ calls \in Seq(Call) /\ table \in SUBSET File
    /\ failed \in BOOLEAN /\ broken \in BOOLEAN
    /\ given \in 0..MaxInputs /\ combined \in 0..MaxCombined
    /\ phase \in {"idle", "given", "translating", "refused"}

\* The files whose declarations are being translated: each call waits in one,
\* of the file it was written in.
Writer(i) == Head(calls[i].todo).pfil
Busy == {i \in DOMAIN calls : calls[i].todo # <<>>}

(* The recursion ends: no file is included or staloaded, directly or       *)
(* through others, by its own declarations.  It is what the second         *)
(* translation, which has no such check, relies on (Busy in Trans2Env).    *)
NoCycle == \A i, j \in Busy : Writer(i) = Writer(j) => i = j

(* "generates the following looping trace" is said of nothing else: the    *)
(* file that is refused has a declaration that is being translated.        *)
RefusedLoops ==
    phase = "refused" => Head(calls[1].todo).file \in {Writer(i) : i \in Busy}

(* Pushes and pops balance on every path: the current file, of which the   *)
(* names of static constants and packages are made (s0tacst_tr,            *)
(* ats_packname_get2), is the one being staloaded or the input or, for     *)
(* text that is included, the one with the include declaration.  Between   *)
(* two inputs it is none, so that the names on the command line are        *)
(* relative to the working directory (filenameopt_make_local); only an     *)
(* input with errors is left behind (InputEnd).                            *)
Current ==
    IF calls = <<>> THEN NoFile
    ELSE IF calls[1].op = "include" THEN Writer(2) ELSE calls[1].file
CurrentFile == broken \/ stack.cur = Current
=============================================================================
