---------------------------- MODULE LexicalScope ----------------------------
(***************************************************************************)
(* The scoping of names in ATS as its books describe it, by environments   *)
(* that are copied and never mutated: a let-expression, a local            *)
(* declaration and a file each open a frame that holds what its            *)
(* declarations see and what they add.  CHAP_PROGELEM "Scopes for          *)
(* Bindings" of INT2PROGINATS and CHAP_STALOAD of ATS2TUTORIAL.            *)
(*                                                                         *)
(* A name stands for what is declared last in the same file; failing that  *)
(* for what the file opened last exports; failing that for the prelude.    *)
(***************************************************************************)
EXTENDS Naturals, Sequences

CONSTANTS
    Name,
    Decl,       \* the entities that declarations introduce
    DVar,       \* those among them that files do not export when opened
    File,       \* the files that can be staloaded
    Main,       \* the file given to the compiler
    NoItem

Item == Decl \cup File
Maybe == Item \cup {NoItem}
Map == [Name -> Maybe]
Nil == [n \in Name |-> NoItem]

\* m0 over m2.
Join(m2, m0) == [n \in Name |-> IF m0[n] # NoItem THEN m0[n] ELSE m2[n]]
Public(m) == [n \in Name |-> IF m[n] \in DVar THEN NoItem ELSE m[n]]

VARIABLES
    frames,     \* the frames of the file being translated, innermost first
    units,      \* the files whose translation waits for this one, latest first
    file,       \* the file being translated
    prelude,    \* what the prelude declares
    loaded,     \* loaded[f]: what f exports, {} before it has been translated
    started     \* the prelude is loaded and Main is being translated

vars == <<frames, units, file, prelude, loaded, started>>

top == frames[1]

\* A frame: what is declared and opened around it, and what it adds itself.
Frame(k, vis, open) ==
    [kind |-> k, vis |-> vis, own |-> Nil, open |-> open, opened |-> Nil]

Resolve(n) == IF top.vis[n] # NoItem THEN top.vis[n]
              ELSE IF top.open[n] # NoItem THEN top.open[n]
              ELSE prelude[n]

SetTop(fr) == <<fr>> \o Tail(frames)
Bound(fr, n, x) == [fr EXCEPT !.vis[n] = x, !.own[n] = x]
Opened(fr, m) == [fr EXCEPT !.open = Join(@, m), !.opened = Join(@, m)]
Joined(fr, in) ==
    [fr EXCEPT !.vis = Join(@, in.own), !.own = Join(@, in.own),
               !.open = Join(@, in.opened), !.opened = Join(@, in.opened)]

Declare(n, x) ==
    /\ started \/ top.kind # "top"
    /\ frames' = SetTop(Bound(top, n, x))
    /\ UNCHANGED <<units, file, prelude, loaded, started>>

Enter(k) == frames' = <<Frame(k, top.vis, top.open)>> \o frames

Let ==
    /\ started \/ top.kind # "top"
    /\ Enter("let") /\ UNCHANGED <<units, file, prelude, loaded, started>>

LetEnd ==
    /\ top.kind = "let" /\ frames' = Tail(frames)
    /\ UNCHANGED <<units, file, prelude, loaded, started>>

Local ==
    /\ started \/ top.kind # "top"
    /\ Enter("head") /\ UNCHANGED <<units, file, prelude, loaded, started>>

LocalIn ==
    /\ top.kind = "head" /\ Enter("body")
    /\ UNCHANGED <<units, file, prelude, loaded, started>>

\* What the body declares and opens remains, what the head did is gone.
LocalEnd ==
    /\ top.kind = "body"
    /\ frames' = <<Joined(frames[3], top)>> \o Tail(Tail(Tail(frames)))
    /\ UNCHANGED <<units, file, prelude, loaded, started>>

\* A file is translated on its own, in sight of the prelude only.
Staload(f) ==
    /\ started /\ loaded[f] = {} /\ f # file
    /\ \A i \in DOMAIN units : units[i].file # f
    /\ frames' = <<Frame("top", Nil, Nil)>>
    /\ units' = <<[file |-> file, frames |-> frames]>> \o units
    /\ file' = f
    /\ UNCHANGED <<prelude, loaded, started>>

\* The end of a staloaded file, whose namespace is opened ...
StaloadEndOpen ==
    /\ units # <<>> /\ top.kind = "top"
    /\ file' = units[1].file
    /\ frames' = <<Opened(units[1].frames[1], Public(top.own))>>
                 \o Tail(units[1].frames)
    /\ units' = Tail(units)
    /\ loaded' = [loaded EXCEPT ![file] = {top.own}]
    /\ UNCHANGED <<prelude, started>>

\* ... or named n.
StaloadEndNamed(n) ==
    /\ units # <<>> /\ top.kind = "top"
    /\ file' = units[1].file
    /\ frames' = <<Bound(units[1].frames[1], n, file)>>
                 \o Tail(units[1].frames)
    /\ units' = Tail(units)
    /\ loaded' = [loaded EXCEPT ![file] = {top.own}]
    /\ UNCHANGED <<prelude, started>>

\* "then foo.sats is not actually loaded by the compiler".
StaloadAgainOpen(f) ==
    /\ started
    /\ \E m \in loaded[f] : frames' = SetTop(Opened(top, Public(m)))
    /\ UNCHANGED <<units, file, prelude, loaded, started>>

StaloadAgainNamed(f, n) ==
    /\ started /\ loaded[f] # {}
    /\ frames' = SetTop(Bound(top, n, f))
    /\ UNCHANGED <<units, file, prelude, loaded, started>>

\* staload of a namespace by its name.
OpenName(n) ==
    /\ started /\ Resolve(n) \in File
    /\ \E m \in loaded[Resolve(n)] : frames' = SetTop(Opened(top, Public(m)))
    /\ UNCHANGED <<units, file, prelude, loaded, started>>

AliasName(n, m) ==
    /\ started /\ Resolve(m) \in File
    /\ frames' = SetTop(Bound(top, n, Resolve(m)))
    /\ UNCHANGED <<units, file, prelude, loaded, started>>

Prelude(f) ==
    /\ ~started /\ file = Main /\ loaded[f] = {}
    /\ Enter("prelude") /\ file' = f
    /\ UNCHANGED <<units, prelude, loaded, started>>

PreludeEnd ==
    /\ top.kind = "prelude"
    /\ frames' = Tail(frames) /\ file' = Main
    /\ prelude' = Join(prelude, top.own)
    /\ loaded' = [loaded EXCEPT ![file] = {top.own}]
    /\ UNCHANGED <<units, started>>

Start ==
    /\ ~started /\ file = Main /\ started' = TRUE
    /\ UNCHANGED <<frames, units, file, prelude, loaded>>

Init ==
    /\ frames = <<Frame("top", Nil, Nil)>>
    /\ units = <<>> /\ file = Main
    /\ prelude = Nil
    /\ loaded = [f \in File |-> {}]
    /\ started = FALSE

Next ==
    \/ \E n \in Name, x \in Decl : Declare(n, x)
    \/ Let \/ LetEnd \/ Local \/ LocalIn \/ LocalEnd
    \/ \E f \in File : Staload(f) \/ StaloadAgainOpen(f) \/ Prelude(f)
    \/ StaloadEndOpen \/ PreludeEnd \/ Start
    \/ \E n \in Name : StaloadEndNamed(n) \/ OpenName(n)
    \/ \E n \in Name, f \in File : StaloadAgainNamed(f, n)
    \/ \E n, m \in Name : AliasName(n, m)

Spec == Init /\ [][Next]_vars
=============================================================================
