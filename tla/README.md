# ATS-Postiats in TLA+

A verification development of ATS-Postiats: TLA+ modules translated from the
source, TLC configurations that check them on small instances, and TLAPS proofs
of what matters most for every instance.  `PROJECT.json` lists the components,
the runs, the mutants, the theorems, the hazards, and for each definition the
lines of the source that it stands for.

To check a run: `tlc -workers 2 -config MCThreadkit.cfg MCThreadkit.tla`.
To check a proof: `tlapm ThreadkitProofs.tla`.

## 1. The system

ATS-Postiats is the compiler of the ATS2 language (`src/src`, written in ATS1),
the run-time system of the C it generates (`src/ccomp/runtime`), its libraries
(`src/prelude`, `src/libats`), and packages distributed with it
(`src/npm-utils/contrib/libats-/hwxi`, `src/contrib`).  `src/src/CBOOT` is
generated C and `src/doc` the books, which say what the language promises.

### 1.1 The compiler

The compiler is one sequential process that keeps most of its state in global
references.  What is hard in it is not concurrency but *state that is pushed,
popped, saved and restored by hand* while the translator recurses, and that
outlives a file.

| Part | State | Operations | Talks to | What would make it correct |
|---|---|---|---|---|
| Lexer and token buffer (`pats_lexing`, `pats_tokbuf`) | byte buffer, deque of tokens, read position | get, advance, backtrack, unget, reset | the parser backtracks in it | a token is the same whenever it is read again |
| **First translation** (`pats_trans1*`), **stack of files** (`pats_filename`) | fixity environments, current file, table of files parsed | include, staload, save, restore | parser, second translation | no file inside itself, each file once, the current file is the one being translated |
| **Binding environments** (`pats_symenv`, `pats_namespace`, `pats_trans2_env`) | three symbol environments and a namespace stack, each a current map, a stack and a stack of saved stacks; the table of translated files | push, pop, localjoin, save, restore, join with the prelude, add, find | everything in the second translation | every name has its lexical meaning; no stack underflows; files are translated once |
| **Driver** (`pats_main`) | inputs since the last flag | flags, inputs | all passes in turn | one input does not see another's names |
| **Linear variables** (`pats_trans3_env_dvar`, `_lstate`, `_lamlp`, `_looping`, ...) | types and obligations of variables, scopes with markers, saved states of branches, the stack of functions and loops | scopes, functions, branches, loops, `$break`, `try` | the rest of the third translation | an accepted program neither loses nor duplicates a linear value |
| Proof variables, effects, metrics | stacks in step with the above | the same constructs | third translation | as above |
| Constraints (`pats_constraint3*`, `pats_lintprgm*`) | lists of linear inequalities | Fourier-Motzkin elimination | third translation | never proves what is false |
| Pattern exhaustiveness, macros, erasure, code generation | trees | pure translations | passes in turn | preserve meaning |
| **Run-time** (`ccomp/runtime`) | stack of exception frames | enter, leave, raise | generated code | frames match the dynamic nesting of `try` |

### 1.2 The libraries

| Part | State | Operations | What is hard | What would make it correct |
|---|---|---|---|---|
| **deqarray** (`libats`) | a ring of cap+1 slots, two pointers | insert, take out at both ends, index, foreach, free | wrap-around; slots are uninitialised | is a bounded deque; reads no slot that was not written |
| **channel_t** (`threadkit`) | deqarray, mutex, two condition variables | insert, takeout, `_opt` forms | broadcasts are conditional; waits release the mutex | atomic FIFO queue, no lost wake-up |
| **chanlst_t** | list, mutex, condition variable | insert, takeout, `_opt` | the same | atomic stack, no lost wake-up |
| **channel_vt** | as channel_t, with a count under a spinlock | ref, unref | the count is written after the unlock | freed by the last reference and no earlier |
| **nwaiter** | a count under a spinlock, a mutex as a gate | initiate, split and put tickets, waitfor | one thread unlocks what another locked; the count is read twice | the owner passes when all tickets were put |
| **fworkshop** | a store of works, a list of workers | add workers, insert works | threads register and leave asynchronously | every work called once; workers never under-counted |
| **DivideConquer(Par)** (`libats/BUCS320`) | a counter and a cell per pending problem | solve, continuations | order of results; who frees a counter; a full store | implements sequential divide and conquer, and returns |
| **StreamPar** | a counter in the caller's frame | foreach | lifetime of that frame | each element once, frame outlives all uses |
| **mysession-g** | a matrix of bounded queues between roles, each with a count and a pointer to its continuation | send, receive, link, close | a reader moves to another queue while the writer is leaving | order kept across links, nothing used after it was freed |
| Other containers, ML library, sorting, bindings | sequential data | | | |

Threads interact through the shared objects of the table only: `DivideConquerPar`
and `StreamPar` submit closures to an `fworkshop`, whose store is a `chanlst` or
a `channel`, and wait on a `nwaiter`; session channels hold queues built on
`deqarray`.  Nothing is persisted, nothing crosses a network: there are no
crashes, lost messages or timeouts to model.  What can happen are
interleavings, spurious wake-ups (POSIX allows them, and all waits here are
loops), works that end their worker, and exceptions in translated programs.

## 2. The modules

`A -> B`: A is shown to implement B.

| Module | Stands for | Relations |
|---|---|---|
| `BoundedDeque` | what `libats/SATS/deqarray.sats` promises | |
| `Deqarray` | `deqarray.dats` over `deqarray.cats` | -> `BoundedDeque` (proved) |
| `BlockingQueue` | what `threadkit/SATS/channel_t.sats` promises | |
| `Channel` | `threadkit/DATS/channel_t.dats` | -> `BlockingQueue` (proved) |
| `BlockingStack`, `Chanlst` | `chanlst_t.sats`, `chanlst_t.dats` | -> `BlockingStack` (proved) |
| `LinChannel` | ref and unref of `channel_vt.dats` | |
| `Nwaiter`, `NwaiterMeeting` | `nwaiter.dats`; with a history of which puts overlap | the second extends the first |
| `Fworkshop` | `fworkshop.dats`, `fworkshop_chanlst.dats` | instantiates `Chanlst` as its store |
| `DivideConquer` | `BUCS320/DivideConquer`: every problem once, after its parts | |
| `DivideConquerPar` | `BUCS320/DivideConquerPar` over either store | instantiates `Nwaiter`; -> `DivideConquer` (proved) |
| `StreamPar` | `BUCS320/StreamPar` | instantiates `Nwaiter` |
| `Wire`, `Uchan` | `basis_ssntype.sats` on links; `basis_uchan.dats` and the calls of it | -> `Wire` (proved) |
| `Intset`, `SessionLink` | `basis_intset.dats`, `basis_channel0.dats`, `basis_channel1.dats` | |
| `LexicalScope` | scoping as the books describe it, with environments that are copied | |
| `Trans2Env` | `pats_symenv`, `pats_namespace`, `pats_trans2_env`, declarations of `pats_trans2_decl`, `pervasive_load` | -> `LexicalScope` (run and proof) |
| `Trans1Files` | `pats_filename`, include and staload in `pats_trans1_decl`, the inputs in `pats_parsing` and `pats_main` | what `Trans2Env` assumes of cycles |
| `Patsopt` | the command line of `pats_main` | extends `Trans2Env` |
| `Trywith` | `pats_ccomp_exception.h`, `pats_ccomp_runtime_trywith.c`, and the jumps that `pats_ccomp_*` emits | |
| `LinearTypes` | linear variables in the third translation | |
| `DeqarrayProofs`, `NwaiterProofs`, `TrywithProofs`, `LinearTypesProofs` | theorems of the module of the same name | |
| `ThreadkitProofs`, `ParallelProofs`, `Trans2EnvProofs`, `SessionsProofs` | theorems of the components that share a bench, and of the bench | |
| `MC...` | instances for TLC | |

### How the models correspond to the code

*Threads.*  One action is one section under a mutex or a spinlock, or one access
outside of any lock.  `pc[t]` is the place of thread t: where the code reads
a count under a lock and uses it after, as `nwaiter_ticket_put`,
`channel_unref` and `uchan_unref` do, the read and the use are two actions.
`condvar_wait` gives the mutex up and waits in one step; a waiter is woken by a
broadcast or by itself (`SpuriousWakeup`), competes for the mutex and tests
again.  A fork-join call is a stack of frames per thread, because a task that
finds the store full is run inside the submission.

*`Deqarray`.*  A pointer is the index of its slot.  `rear` is the slot of the
first element, `frnt` the one after the last, as in the C; the static
preconditions of the SATS file are the guards.  `Uninit` fills the slots that
`arrayptr_make_uninitized` returns.

*`Trans2Env`.*  `map`, `maplst`, `savedlst`, `pervasive` are the fields of a
`symenv` (in the declarations modelled the three symenvs are pushed, popped, saved and restored
together, and one map with three kinds of items stands for them; `D1Cdcstdecs`, `pats_trans2_decl.dats:2703`,
pushes and pops that of static names by itself, around its parameters), `fenvlst`,
`fenvlstlst`, `nsaved` those of `pats_namespace`, `filenvmap` the table of
translated files.  `kinds`, `file`, `callers` are the recursion of
`d1eclist_tr` and `s1taload_tr`: which construct ends next.  The inputs of the
model are all programs that nest let, local and staload, name or open files, and
name or open namespaces by their names, in any order; files may form any dependency
graph without cycles.  That a cycle is refused is the work of the first
translation (`the_filenamelst_push_check`) and a guard here (`Busy`).

*`Trans1Files`.*  `stack` is the pair of `the_filename` and `the_filenamelst`,
`calls` the recursion of `d0eclist_tr`, `table` `theStaloadMap`.  A declaration keeps
`pfil`, the file that it was written in, which an include pushes and a staload
pushes too before the file that it enters.  What a file declares is chosen when it is first
parsed and then stays.  `NoCycle` and `RefusedLoops` (together `CyclesRefused`)
say that a file is refused exactly if it is inside itself, which is what `Busy`
in `Trans2Env` takes from here.

*`Trywith`.*  `calls` are the C functions that have not returned with the trys and loops that
each is within, `frames` the list that `my_atsexnframe_getref` leads to.  A frame knows its call and what
surrounds its try, as the `jmp_buf` does.  `RaiseWild` is a `longjmp` into
a function that has returned.

*`LinearTypes`.*  `d2var_type`, `finknd`, `mastype` are fields of variables,
`the_ld2vs`, `the_ld2vss` and `the_lamlplst` the globals of
`pats_trans3_env_dvar` and `pats_trans3_env_lamlp`, `ctrl` the recursion with
the saved `lstbefitmlst` and `lstaftc3nstr`.  Beside the checker the model follows
one execution of the program being checked: `run` is what the variables hold,
`bad` records that a value was lost or used amiss; the frames in `ctrl` keep the stores of executions that wait, and
what was in scope around them (`wait`, `done`, `outer`), for the same purpose.  `Sound` relates the two, and so
states what the type system is for; the checker alone has no such property to state.

*Sessions.*  `Uchan` has every step of one direction along a chain of channels:
thread k writes uchan k and reads uchan k+1.  `SessionLink` has the matrices of
whole sessions, of which each channel may be held by another thread: a link, a close or
a reception has one step for each uchan, and the steps of
different holders interleave. It shows which uchans a link joins while others are half joined, and
that no uchan gets a second continuation, which is an assumption of `Uchan`. Messages are left out
(a reception that moves on is `Recv`), and an unref of a uchan is one step: `Uchan` has the read and the write of the count apart.
`session` is a history variable: which channels are ends of one session, after links have joined some.
The programs of the threads keep what the types of the channels ask for (`Linear`: an end is used by
whoever has it, and not after it was given up; `Agreed`: both ends of a channel follow one
protocol, so that who closes an end has received what was sent to it).

## 3. The runs

Several components share a bench (`MCThreadkit`, `MCTrans2Env`, `MCParallel`, `MCSessions`): the
variable `use` chooses the component of a behaviour, all others stand still, and
each property speaks of the component it names.  The modules of the benches declare the
constants, with the assumptions of the components, and the `.cfg` files give
them their values; the proofs extend the benches, so that a theorem speaks of what its run
checks, for every value of the constants.

### Runs that pass

**`deqarray`**: `Cap` = 3, two elements, operations in any order, freeing and
making again included.  `TypeOK`: pointers stay in the block.  `LiveInitialised`: no operation
can reach a slot that was never written.  `SizeAgrees`: `is_nil`, `is_full` and
`get_size` agree.  `ImplementsDeque`.  `ForeachInOrder`: a foreach over a deque
that is not empty visits the elements in order.  Four slots are enough for every
position of the two pointers (wrapped, unwrapped, adjacent at either end); the proofs
remove the bound.

**`threadkit`**: four threads on a channel of capacity 2, over five sets of
programs, three that balance insertions and removals and two with `_opt` calls.
`TypeOK` (of `Channel`), `Fifo`, `NoLostWakeup`, `ImplementsQueue`.  Three threads and three elements on a
chanlst: `ImplementsStack`, `TakerAwake`.  Five references of a linear channel,
ref and unref overlapping in any way: `CountAgrees` says that a count is too low, and the channel freed too early, only after a `channel_ref` has returned between
the read and the write of another call, and that the count is exact until some call has written inside another (`crossed` is the history of that).
Five references leave two pairs of calls that overlap beside one that does not.  Three tickets of a nwaiter, over
two rounds one at a time, or in one round in any way: `WaitedForAll`; and `LockedUnlessMet`,
`NotFreedUnlessMet`: a put that finds the count at zero finds the mutex locked, and is over before the nwaiter is freed, unless it was between its decrement and its test
at the same time as another (`met`).  With three tickets two puts may meet before or while a third is out.  `AllReturn`: balanced callers and
`waitfor` return.  Capacity 2 with three insertions in a row fills, empties and passes through
"neither"; with two producers and two consumers there are two waiters of a kind and one overtaking them,
which is what a conditional broadcast has to survive.

**`parallel`**: seven problems: one divided into three, of which one
has two parts, one has one part and one has none without being a base case; two
workers and the caller; a list, and a channel of one element, in which the
store is full for most of the run and submissions nest.  `CellsWritten`: a parent's continuation reads no cell before it
was written.  `CounterAlive`: nobody decrements a destroyed counter.
`ImplementsDivideConquer`.  `CallReturns`: the one thread that waits does not
wait in vain.  A stream of four elements with three workers:
`FrameOutlived` (nobody touches the caller's frame after the caller has gone) and
one half of `HandedOnce` (an element is given to one worker).  A workshop by itself: two workers, added at any time and again after they
ended, three works which end their worker or not.  `WorkersListed`: a worker that
lives and has been registered is counted; and nobody else is counted, outside of a creation
that is under way, if every worker was registered before the first work was inserted.
(Without that, a worker may end before it is registered, and stays counted.)  The other half of
`HandedOnce`: a work is called once.  `WorkDone`: every work is called while there are workers.

**`trans2env`**: two names, two files, four declarations (declaring, opening a
scope, staload, naming and opening all count); names and files are symmetric.
`StacksSuffice`: no `val-` of the pops meets an empty list, also across saves.
`OpenedLoaded`, `LoadedOnce`.  `ImplementsLexicalScope`: for each name, what `the_*env_find`
returns at any point of any program is what lexical scope gives.  Four declarations
are enough for a local inside a staloaded file opened inside a let, for shadowing in
three layers, for a file that is staloaded twice through two ways, and for the prelude.

In other behaviours of the same run, `Trans1Files`: three files with three declarations
in all, two inputs one at a time (`MaxCombined` = 1, the second only after one without errors, `KeepGoing` = FALSE). Three declarations
make a cycle of three files, a cycle through an include and a staload, or a second way to a file.
`CyclesRefused`; `CurrentFile`: the current file is that of the declarations being
translated, and none between two inputs.  And `Trywith`: three calls, each within at most three trys and loops, so that a frame
may lie below two further calls, and a loop be inside or outside of a try; no
`$break` leaves a try (`JumpOut` = FALSE).  `HandledInnermost`.

**`linear`**: every nesting of at most three constructs, two variables, two types
of which one is a subtype of the other.  `Sound`, `Untouched` (what lies outside of a non-linear function, or of a
handler, is not touched inside).  Three levels have a marker between a use and a
scope on either side, a branch in a loop in a function, and a `try` in a branch; two variables tell "the other variable was merged" apart.
The run keeps two rules by itself, which the checker does not enforce
(`Rules = {"try", "break"}`): see section 4.

**`sessions`**: four threads along three uchans of two messages (the
`channel_cap` of the code), in six programs that send, receive, link before, between and after
forwarding, and close; in some behaviours unrefs of the same uchan overlap, in others (`Serial`) they do not.
`FreedSafely`: nothing is touched after it was freed.  `ImplementsWire`: what the last reader receives is what was sent
in the order of the links.  `SerialCountAgrees`: where unrefs do not overlap, counts are numbers of references.  `AllReturn`.  And `SessionLink`
with three roles and up to seven channels: `LinksAgree` says that the channels of a session share its roles out; that for any
two roles, following the `qnext` pointers and the links still to be made from the reader's uchan leads to the writer's, which leads nowhere;
that `qnext_insert` finds the place empty; and that the count of a uchan is the number of references to it
from channels, from links and unrefs that calls have still to make, and from other uchans, so that none is left when all are closed.
The plans (`MCPlans`) bound a behaviour: three sessions by one call at a time, which makes chains of two links, the first of which may make a new channel; or two
sessions by two calls that overlap, with groups of one and two roles (links that leave a channel, and those that leave
none) or of all three roles, and one or two receptions that move on in between. Sessions are created
first; otherwise links, receptions and closes come in any order. Seven channels leave room for one link that makes a channel; `LinksAgreeHolds`
has no such bound. The uchans of one call of `auxlink` are linked in one order, which `LinkUchan` chooses once and for all.

### Runs that find what a text of the repository denies

These runs each check one property, which TLC violates.

| Run | What it shows |
|---|---|
| `deqarray_foreach_nil` | `deqarray_foreach` of an empty deque applies the function to all Cap+1 slots (`deqarray.dats:566` tests `p_frnt > p_rear`). |
| `nwaiter_assert` | Two last tickets put together both see the count at zero, and the second unlocks a mutex that is free. If the nwaiter has been initiated again in between, that unlock lets its owner through while tickets are out. |
| `uchan_unref` | `uchan_unref` writes the count after it released the spinlock. For a session this happens at its ordinary end, when both sides close: the uchan leaks. `channel_unref` of `channel_vt.dats` does the same. |
| `patsopt_scope` | `patsopt -d a.dats -d b.dats`: toplevel names of `a.dats` are bound where `b.dats` begins. |
| `trywith_break` | A `$break` out of the body of a `try` is a `goto` past `my_atsexnframe_leave`: the frame stays, and the next exception goes to handlers of a `try` that was left, or into a function that has returned. |
| `linear_try` | In a `try` whose result type is not known, the tried expression may consume outer variables: `d2exp_trup_trywith` pushes the marker after it. |

## 4. What was seen on the way

Not each of these has a run of its own.

* `$break` and `$continue` compare the variables of the loop's head only
  (`auxitm3 ... list_nil => ()`, `pats_trans3_looping.dats:523`). A linear variable bound in the body and
  still held is dropped without an error. In a `try` the markers hide outer variables
  from the comparison altogether. With `Rules = {"try"}` TLC violates `Sound` this
  way; the rule "break" (`Escapes`) excludes it from the run `linear`.
* `-dd` puts every input on the stack of files before the first is translated, and `trans1_finalize` takes
  one off. With `MaxCombined` = 2 TLC violates `RefusedLoops`: an input that staloads another input is refused as a loop. The name of the
  second input is also resolved in the directory of the first.
* An input with errors ends `d0eclist_tr_errck` by an exception and skips `trans1_finalize`; its name stays on the stack
  for the next input (`KeepGoing` = TRUE violates `CurrentFile` without its first disjunct).
* `do_depgen` and `do_taggen` pop the stack of files after each input. For the standard input,
  or with both flags, they pop more than was pushed, and a `val-` ends the compiler.
* For a `$break` in the test of an inner loop the checker takes the outer loop, whose variables it compares, and code generation the inner one, which it has
  pushed before it translates the test (`pats_ccomp_looping.dats:76-81`). `LinearTypes` follows the checker, in the execution too.
* `$ldelay` is checked like a branch, without the marker of a function: a thunk may borrow a variable that its surroundings still own.
* `the_trans2_env_pervasive_joinwth1` pops three of the four stacks that
  `the_trans2_env_push` pushed. One empty level of the namespace stack stays behind for each file of the
  prelude; `ImplementsLexicalScope` shows that this is harmless.
* In `mysession-g` nothing excludes linking two channels of one and the same session:
  the types only ask that their groups together are all roles. `SessionLink` excludes it by a guard (`Linkable`).
* `get_nworker` may count a worker that has ended (see `WorkersListed`).

## 5. Fairness

* `Channel`: each thread's own steps are weakly fair, since a runnable thread is
  scheduled. Taking the mutex is strongly fair: a mutex is not continuously free
  while others take and release it, and a thread that finds it free again and
  again is given it in the end, as a mutex with a queue of waiters does.
  Calls are steps of the program of a thread; spurious wake-ups have no fairness,
  and happen finitely often (`<>[]`): a thread that is woken for nothing without end
  makes no progress in the code either.
* `Uchan`: weak fairness of each thread, spurious wake-ups finitely often. Each
  uchan has one writer and one reader, so nobody is overtaken without end.
* `Nwaiter`: weak fairness of the owner in `waitfor` and of each ticket's put.
* `DivideConquerPar`, `StreamPar`: weak fairness of the caller and, separately, of each worker.
  A worker that waits for work keeps waiting until it gets some, and the number of works is finite.
* `Fworkshop`: weak fairness of the registration, strong fairness of an insertion in progress
  and of each worker, who compete for the store's mutex. Works return.

The compiler's modules have no liveness properties: whether a
translation ends depends on its input.

Deadlock is checked in `deqarray`, where a further operation is always possible. The other runs have
CHECK_DEADLOCK FALSE, because their systems stop: threads finish their programs, blocked
non-balanced callers wait, declarations reach `MaxDecls`, a program with an error is refused.
Where nobody should be stuck a liveness property says so.

## 6. What is proved

All proofs are for every value of the constants. `tlapm` checks them to the last leaf.

* **`DeqarrayProofs`** from `CapAssumption` and `UninitAssumption`.
  Inductive invariant: `IInv == TypeOK /\ LiveInitialised`. The pointer lemmas (`PtrRing`, `RingSize`,
  `RingIndex`) replace the ring by arithmetic on 0..Cap; `ContentsSeq` reads the deque off the ring; then each
  operation is that operation of `BoundedDeque`. Theorems: `TypeCorrect`, `LiveInitialisedHolds`,
  `SizeAgreesHolds`, `RingImplementsDeque`, `ForeachInOrderHolds`.
* **`ThreadkitProofs`**, for the bench `MCThreadkit`.
  - *Channel*, from `ChannelAssumption` (any threads and programs, capacity of at least one).
  `IInv` adds to `TypeOK`, `Fifo` and `NoLostWakeup` that at most one
  thread is inside (`Exclusion`) and that a thread inside a call has that call ahead of it. Without `Exclusion`
  `NoLostWakeup` is not inductive: another thread could begin to wait between the test and the broadcast. Theorems:
  `TypeCorrect`, `NoLostWakeupHolds`, `FifoHolds`, `ExclusionHolds`, `ChannelImplementsQueue`.
  - *Chanlst*, from `ChanlstAssumption`: the same argument for one condition variable, since only an insertion into
  the empty list broadcasts. Theorems: `TakerAwakeHolds`, `MCImplementsStack`.
  - *channel_vt*, from `LinChannelAssumption` (any finite set of references), for calls that overlap in any way: until a `channel_ref` returns inside another call,
  neither the count nor what a call has read of it and may write back is below the number of references, the ones that calls are about to give up included (`NotLow`): an unref
  that writes back too much takes a reference away as well. Until any call writes inside another, all of these are equal (`NotWrong`). Theorem: `CountAgreesHolds`.
  - *nwaiter*: the invariant of `NwaiterProofs`, carried over by INSTANCE. Theorems: `WaitedForAllHolds`, `LockedUnlessMetHolds`, `NotFreedUnlessMetHolds`.
* **`ParallelProofs`**, for the bench `MCParallel`.
  - *DivideConquerPar*, from `DivideConquerParAssumption`: any finite set of workers and any tree of problems,
  all of which are below the root; a list, or a channel with room for at least one element.
  `CellsWritten` and `CounterAlive` are not inductive: they speak of one counter, and who may still decrement it depends on
  all the problems below. `DivideInv` says that there is a set N of problems that no task and no call has come to,
  closed under taking subproblems (`Untouched`), such that a problem that is still to be solved waits in one place, a task of the store or a call (`WaitsOnce`);
  a loop that submits subproblems is the only one of its problem, and what it has not come to is in N (`Loops`); and
  the counter of a problem that has been divided is the number of its subproblems without a written cell plus the
  number of threads that have written a cell and are still to decrement it (`Counters`). Who decrements it last finds every cell written. `Stacks` says
  that all calls of a thread but the innermost are such loops, since a submission to a full channel runs the task inside.
  `Solutions` says that a result is passed on once, after those of the subproblems, and `RootTicket` and `OneTicket` that
  the ticket of the call is put once, when the root is solved.
  Theorems: `CellsWrittenHolds`, `CounterAliveHolds`, `DivideConquerImplemented`.
  - *StreamPar*, from `StreamParAssumption` (any finite set of workers, any number of elements): `nwork` is the number of elements being processed, and one more
  for whoever has the rest of the stream (`NworkCounts`); the rest is in one place (`StreamOnce`), and begins where the elements handed out
  end (`AllTaken`); so zero means that nobody will access the frame (`PutLast`). Theorems: `FrameOutlivedHolds`, and `HandedOnceHolds` for elements.
  - *Fworkshop*, from `FworkshopAssumption`: a work that has not been called is in one place (`Placed`); `Listing` says how the list
  of workers and the workers that live differ between a creation and `add_tid`. Theorems: `HandedOnceHolds` for works, `WorkersListedHolds`.
* **`Trans2EnvProofs`**, for the bench `MCTrans2Env`.
  - *Trans2Env*, from `NamesAssumption` (any names, files and bound on declarations).
  `IInv` says that the stacks are aligned with the constructs being translated (`Aligned`, also for
  what is saved), that the prelude is loaded before everything else and not nested (`Phase`), that a file being
  translated is not in the table (`BusyNotLoaded`), and that all names lead to loaded files (`AllLoaded`).
  The frames of `LexicalScope` are the stacks seen from each scope on (`Scopes`), also for the files that wait (`Units`). A search through a list with a map on top,
  or through two lists one after the other, is the `Join` of what is seen below with what is put on top (`VisCons`, `VisConcat`), and so for the lists of opened files
  (`OpenFacts`): so each operation changes the topmost frame as `LexicalScope` does, and the ones below stay (`ScopesCons`). The table of files changes only where nothing is opened from (`ScopesSame`), and
  the list of opened files that `pervasive_load` leaves is empty (`ScopesEmpty`).
  Theorems: `TypeCorrect`, `StacksSufficeHolds`, `OpenedLoadedHolds`, `LoadedOnceHolds`, `Trans2EnvIsLexical`.
  - *Trans1Files*, from `Trans1FilesAssumption`, for inputs one at a time and a compiler that stops at an error: `Balanced` counts calls and the stack of files
  from the bottom on, and gives each call the height of the stack up to its own entries, one for an include, two for a staload (`Heights`, `Entries`). Hence the stack has
  the files that `calls` is within and no others, a search finds a file exactly if it is inside itself, and leaving a call brings back what was current before.
  Theorems: `CyclesRefusedHolds`, `CurrentFileHolds`. Section 4 says what happens without the two conditions.
  - *Trywith*: the invariant of `TrywithProofs`, carried over by INSTANCE. Theorem: `MCHandledInnermost`.
* **`SessionsProofs`**, for the bench `MCSessions`.
  - *Uchan*, from `UchanAssumption`: any number of uchans and threads in
  a chain, any capacity, and any programs that are `Linear` and `Agreed`. `FreedSafely` is not inductive: whether an unref frees
  a uchan depends on counts that it or others have read before, and whether that uchan is nil depends on what its writer is still going to send. `Tokens` says that the
  reader's reference is in one place, an end, the local variable of `uchan_remove2`, a `qnext` pointer or a call of `uchan_unref`, and the writer's in an end or such a call. `Counts` says that
  when a count is 1 one of the two is gone; overlapping unrefs leave a count too high, never too low. `Paths` says that
  what lies between a reader and the uchan it reads, or between a uchan and its `qnext`, is linked and nil. `Silence` says that what no reader will come to
  is nil and stays so, which is where `Agreed` is needed: `Protocol` says of whoever closes, or is going to, that the messages still due from the threads up the links are no more than
  the receptions still expected, and `Sent` that a queue has its writer's messages in the order of the calls. `SerialInv` adds, for unrefs that do not overlap, that the count is the number of references (`Exact`).
  In the refinement of `Wire` the queues are its segments, and `Paths` gives the guard of its `Remove`.
  Theorems: `FreedSafelyHolds`, `SerialCountAgreesHolds`, `WireImplemented`.
  - *SessionLink*, from `SessionLinkAssumption`: any number of roles, channels, sessions and overlapping calls. Neither half of `LinksAgree` is inductive:
  whether a link leads to the right uchan depends on matrices that other calls have changed or are changing. `LinkInv` says that
  the channels of a session that were not linked away share its roles out (`Shares`); that a matrix has uchans exactly
  where one role is in the group and the other is not, each for its two roles (`Matrices`), and that `qnext` and the links lead from a uchan only to one
  for the same roles (`Straight`); that the writer's reference to a uchan is in one place, a channel or a link, the reader's in one, a
  channel, a link to it, a `qnext` or an unref still to be made, and a uchan that is written leads nowhere (`OnePlace`); that the count is the number of the two that there are (`LinkCounts`);
  that between two open channels of a session, the uchan that one reads leads to the one that the other writes (`Routes`); and that no
  set of uchans in which each has a predecessor exists (`Acyclic`). Reachability is by closed sets (`Reaches`), so no path has to be counted: a link adds
  edges and splices two lines, an unref takes off the head of a line that nobody reads. `Acyclic` gives the last part of
  `CountAgrees`: of uchans left over when everything is closed, one would have nobody who reads it.
  A link computes the groups with `intset_union` and `intset_ncomplement`, recursive functions on lists. What they return
  is proved for every n (`UnionOf`, `ComplementOf`) without induction over lists: `Recursion` shows from well-foundedness of the lengths, by the smallest counterexample, that
  the function which the definition chooses exists, and a second smallest counterexample that each result has the elements it should, in order.
  Theorem: `LinksAgreeHolds`.
* **`NwaiterProofs`** from `NwaiterAssumption`, for rounds of tickets put one at a time, or one round of tickets put in any way. (In a second round a late unlock of the
  first may come between, see `nwaiter_assert`.)
  `IInv` ties the count to the tickets that are out and to the state of the mutex. `Lone` says that while a put which has met no other is under way there is no other put at all,
  and the owner is still before the mutex: who decrements a count finds no put past its test, since a ticket was out, and no ticket is left once somebody has found zero. Theorems: `WaitedForAllHolds`,
  `LockedUnlessMetHolds`, `NotFreedUnlessMetHolds`; `ThreadkitProofs` states them of the bench.
* **`TrywithProofs`** from `TrywithAssumption` and `~JumpOut` (any bounds). `IInv` adds to `TypeOK` and the bounds that the list of frames
  is the list of the trys being evaluated, the innermost first (`Matches`). Calls are counted from the first and trys from the outermost one, since these numbers do not change when
  something begins or ends further in. Theorems: `FramesMatchTrys`, `HandledInnermostHolds`. The run `trywith_break` shows that the assumption is needed.
* **`LinearTypesProofs`** from `TypesAssumption` (any variables, any subtype relation that is reflexive and transitive, any
  depth of nesting). Theorems: `TypeCorrect`, `UntouchedHolds`, `SoundHolds`.
  The checker's stacks have their tops in front; the proofs see them from the outermost element on, where a step changes only the end, but
  for the marks that a search leaves. `Shaped(T)` gives each construct a height `T[d]`, the number of scopes and markers up to its own; a variable is in one scope only, so that what
  a search finds from within is found from around too (`LocalDown`), and what lies beyond a marker is not (`Barrier`). A step assigns only to what a search finds (`Assigned`), hence `Untouched`.
  `Sound` is not inductive: it says nothing of what is out of reach for now, and of the executions that wait. `Fitting(T)` says it for
  each construct. A function, a handler and a try with an expected type put up a marker, so the types around them stay, and what waits there goes on fitting. Branches and loops
  have saved the types that what waits is due to meet (`Base`, `First`). For a try without an expected type (`Seals`), what an exception has left fits the types now, or those at the end of a branch that is still to be joined; this
  needs the rule "try". For a linear function (`Takes`), what it has not taken fits, now and at the head of every branch inside. `Synced` ties the entries of `the_lamlplst` to the loops, so that `$break` compares with
  the loop it leaves; that the comparison is enough needs the rule "break". `linear_try` and section 4 show that `Sound` fails without either rule.

**Model-checked only.** Liveness (`AllReturn`, `CallReturns`, `WorkDone`), which the provers cannot do under fairness. All
other properties of the passing runs are theorems.

## 7. What is not modelled

`PROJECT.json` lists every component with a note; in short:

* Lexing, parsing, fixity, proof variables, effects, metrics, constraints, pattern exhaustiveness and the symbol maps: planned.
* Type checking proper, unification, macros, erasure, code generation, output: pure functions on large data, of
  which a small instance shows little.
* How a name becomes a path, `dynload`, `require` and the other declarations of the first translation: left out of `Trans1Files`. The values of exceptions and the choice of a clause: left out of `Trywith`, where no clause may match.
* `D1Cstaloadloc` (local declarations under a name, `pats_trans2_decl.dats:2851-2870`), the scope of `D1Cdcstdecs`, overloading, qualified names, levels of macros, templates and variables: left out of `Trans2Env`.
* Invariant annotations and the post expression of loops, `$ldelay`, mutable variables, views, what is left of a scrutinee, and the parameters of linear
  functions: left out of `LinearTypes`; a dry run of a loop is "any set of variables changes"; the pointer comparison `s2exp_refeq` may call equal types different.
* Choices, repetition and protocols of session types; a worker that itself calls `solve`.
* Bindings, drivers and tools (I/O); generated code; older copies of the same algorithms.

## 8. Plan

Done, in this order: `Deqarray`, `Channel`, `Trans2Env` with `LexicalScope`, `Nwaiter`,
`DivideConquerPar`, `StreamPar`, `Fworkshop`, `LinearTypes`, `LinChannel`, `Uchan`, `SessionLink`, `Trans1Files`, `Trywith`, and the proofs of section 6.

Next, most important first; new modules join the benches that exist.

1. `LinearTypes`: add `$ldelay` and the parameters of linear functions, with their cases in the proofs.
2. `Tokbuf`: the token buffer against "the tokens of the text"; `Lintprgm`: Fourier-Motzkin against a search; open-addressing tables; AVL maps.
3. The proof variables of the third translation, whose marked list is searched as that of linear variables is.
