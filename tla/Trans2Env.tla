------------------------------ MODULE Trans2Env ------------------------------
(***************************************************************************)
(* The binding environment of the second translation: a symenv (src/src/   *)
(* pats_symenv.dats), the stack of opened namespaces (pats_namespace.dats) *)
(* and the table of translated files, driven by pats_trans2_env.dats as    *)
(* the translator (pats_trans2_decl.dats, pats_trans2_dynexp.dats) walks   *)
(* the declarations.  The compiler keeps three symenvs, for sorts, static  *)
(* and dynamic names, which every operation below changes alike: the model *)
(* has one.  A symmap is a function that yields NoItem where nothing is    *)
(* bound.                                                                  *)
(*                                                                         *)
(* Mutants, each before the definition it is a slip of: LocalJoinOld,      *)
(* LocalInNoPush, StaloadUnchecked, StaloadEndUnsaved,                     *)
(* StaloadEndNamedCaller.                                                  *)
(***************************************************************************)
EXTENDS Naturals, Sequences

CONSTANTS
    Name,
    File, Main, \* the files that can be staloaded, and the input
    NoItem,
    MaxDecls    \* bound on the declarations of a program, its size

\* The entities that declarations introduce, known by their stamps.
DVar == {"d2var"} \X (0..MaxDecls)
Decl == {"d2cst", "d2var"} \X (0..MaxDecls)

ASSUME NamesAssumption ==
    /\ MaxDecls \in Nat /\ Main \notin File
    /\ NoItem \notin Decl \cup File /\ Decl \cap File = {}

VARIABLES
    map, maplst, savedlst, pervasive,       \* the symenv
    fenvlst, fenvlstlst, nsaved,            \* the namespaces
    filenvmap,     \* filenvmap[f]: {} or {the symmap of f}
    kinds,         \* what the scopes of the current file are, innermost first
    file,          \* the file being translated
    callers,       \* kinds and file where the recursion of s1taload_tr waits
    started,       \* the_prelude_load has returned
    ndecls         \* the declarations translated so far

symenv == <<map, maplst, savedlst, pervasive>>
namespace == <<fenvlst, fenvlstlst, nsaved>>
control == <<kinds, file, callers, started>>
vars == <<symenv, namespace, filenvmap, control, ndecls>>

Item == Decl \cup File
Maybe == Item \cup {NoItem}
Map == [Name -> Maybe]
Nil == [n \in Name |-> NoItem]

\* symmap_joinwth (m2, m0): what is in m0 replaces what is in m2.
Join(m2, m0) == [n \in Name |-> IF m0[n] # NoItem THEN m0[n] ELSE m2[n]]

\* symmaplst_search: the first of the maps ms that binds n decides.
Search(ms, n) ==
    LET hits == {k \in DOMAIN ms : ms[k][n] # NoItem}
    IN  IF hits = {} THEN NoItem
        ELSE ms[CHOOSE k \in hits : \A j \in hits : k <= j][n]

\* A file that is opened shows what fopr lets through: no d2var.
Public(m) == [n \in Name |-> IF m[n] \in DVar THEN NoItem ELSE m[n]]
Exports(f) == Public(CHOOSE m \in filenvmap[f] : TRUE)

\* the_namespace_search: auxlst on each list of opened files, auxlstlst on
\* the lists.
Level(fs) == [n \in Name |-> Search([k \in DOMAIN fs |-> Exports(fs[k])], n)]
Levels(fss) == [i \in DOMAIN fss |-> Level(fss[i])]
NamespaceSearch(fss, n) == Search(Levels(fss), n)

Maps == <<map>> \o maplst
Files == <<fenvlst>> \o fenvlstlst

\* the_s2rtenv_find, the_s2expenv_find and the_d2expenv_find.
Find(n) ==
    IF Search(Maps, n) # NoItem THEN Search(Maps, n)
    ELSE IF NamespaceSearch(Files, n) # NoItem THEN NamespaceSearch(Files, n)
    ELSE pervasive[n]

Init ==
    /\ map = Nil /\ maplst = <<>> /\ savedlst = <<>> /\ pervasive = Nil
    /\ fenvlst = <<>> /\ fenvlstlst = <<>> /\ nsaved = <<>>
    /\ filenvmap = [f \in File |-> {}]
    /\ kinds = <<"top">> /\ file = Main /\ callers = <<>> /\ started = FALSE
    /\ ndecls = 0

\* One more declaration is met.
More == ndecls < MaxDecls /\ ndecls' = ndecls + 1

Translating == started \/ Head(kinds) # "top"
Within(k) == kinds' = <<k>> \o kinds
Leave(k, rest) == Head(kinds) = k /\ kinds' = rest

-----------------------------------------------------------------------------
(* Declarations.  Each makes a new entity, with a new stamp.               *)

Declare(n, tag) ==
    /\ Translating /\ More
    /\ map' = [map EXCEPT ![n] = <<tag, ndecls>>]
    /\ UNCHANGED <<maplst, savedlst, pervasive, namespace, filenvmap, control>>

(* Scopes: a function declaration, a let- or a where-expression (Let), and *)
(* local declarations.                                                     *)

SymenvPush == map' = Nil /\ maplst' = <<map>> \o maplst
NamespacePush == fenvlst' = <<>> /\ fenvlstlst' = <<fenvlst>> \o fenvlstlst

trans2_env_push ==
    NamespacePush /\ SymenvPush /\ UNCHANGED <<savedlst, pervasive, nsaved>>

SymenvPop == map' = Head(maplst) /\ maplst' = Tail(maplst)

NamespacePop == fenvlst' = Head(fenvlstlst) /\ fenvlstlst' = Tail(fenvlstlst)

trans2_env_pop ==
    NamespacePop /\ SymenvPop /\ UNCHANGED <<savedlst, pervasive, nsaved>>

LocalJoinOld ==
    /\ map' = Join(map, maplst[2])
    /\ maplst' = Tail(Tail(maplst))

SymenvLocalJoin ==
    /\ map' = Join(maplst[2], map)
    /\ maplst' = Tail(Tail(maplst))

NamespaceLocalJoin ==
    /\ fenvlst' = fenvlst \o fenvlstlst[2]
    /\ fenvlstlst' = Tail(Tail(fenvlstlst))

trans2_env_localjoin ==
    /\ NamespaceLocalJoin /\ SymenvLocalJoin
    /\ UNCHANGED <<savedlst, pervasive, nsaved>>

Let ==
    /\ Translating /\ More /\ Within("let") /\ trans2_env_push
    /\ UNCHANGED <<filenvmap, file, callers, started>>

LetEnd ==
    /\ Leave("let", Tail(kinds)) /\ trans2_env_pop
    /\ UNCHANGED <<filenvmap, file, callers, started, ndecls>>

Local ==
    /\ Translating /\ More /\ Within("head") /\ trans2_env_push
    /\ UNCHANGED <<filenvmap, file, callers, started>>

LocalInNoPush ==
    /\ Head(kinds) = "head" /\ Within("body") /\ UNCHANGED <<symenv, namespace>>
    /\ UNCHANGED <<filenvmap, file, callers, started, ndecls>>

LocalIn ==
    /\ Head(kinds) = "head" /\ Within("body") /\ trans2_env_push
    /\ UNCHANGED <<filenvmap, file, callers, started, ndecls>>

LocalEnd ==
    /\ Leave("body", Tail(Tail(kinds))) /\ trans2_env_localjoin
    /\ UNCHANGED <<filenvmap, file, callers, started, ndecls>>

-----------------------------------------------------------------------------
(* Files: s1taload_tr and s1taloadnm_tr.  That no file is staloaded while  *)
(* it is itself being translated was checked by the first translation      *)
(* (the_filenamelst_push_check).                                           *)

trans2_env_save ==
    /\ fenvlst' = <<>> /\ fenvlstlst' = <<>>
    /\ nsaved' = <<[cur |-> fenvlst, lst |-> fenvlstlst]>> \o nsaved
    /\ map' = Nil /\ maplst' = <<>>
    /\ savedlst' = <<[map |-> map, maplst |-> maplst]>> \o savedlst
    /\ UNCHANGED pervasive

Busy == {file} \cup {callers[i].file : i \in DOMAIN callers}

StaloadUnchecked(f) ==
    /\ started /\ More /\ f \notin Busy
    /\ trans2_env_save
    /\ kinds' = <<"top">> /\ file' = f
    /\ callers' = <<[kinds |-> kinds, file |-> file]>> \o callers
    /\ UNCHANGED <<filenvmap, started>>

Staload(f) ==
    /\ started /\ More /\ filenvmap[f] = {} /\ f \notin Busy
    /\ trans2_env_save
    /\ kinds' = <<"top">> /\ file' = f
    /\ callers' = <<[kinds |-> kinds, file |-> file]>> \o callers
    /\ UNCHANGED <<filenvmap, started>>

StaloadEndUnsaved ==
    /\ callers # <<>> /\ Head(kinds) = "top"
    /\ fenvlstlst' = Head(nsaved).lst /\ nsaved' = Tail(nsaved)
    /\ maplst' = Head(savedlst).maplst /\ savedlst' = Tail(savedlst)
    /\ kinds' = Head(callers).kinds /\ file' = Head(callers).file
    /\ callers' = Tail(callers)
    /\ UNCHANGED <<filenvmap, pervasive, started, ndecls>>

\* The rest of s1taload_tr once the declarations of the file are translated,
\* up to the choice between opening and naming its namespace.
StaloadEnd ==
    /\ callers # <<>> /\ Head(kinds) = "top"
    /\ filenvmap' = [filenvmap EXCEPT ![file] = {map}]
    /\ fenvlstlst' = Head(nsaved).lst /\ nsaved' = Tail(nsaved)
    /\ maplst' = Head(savedlst).maplst /\ savedlst' = Tail(savedlst)
    /\ kinds' = Head(callers).kinds /\ file' = Head(callers).file
    /\ callers' = Tail(callers)
    /\ UNCHANGED <<pervasive, started, ndecls>>

StaloadEndOpen ==
    /\ StaloadEnd
    /\ fenvlst' = <<file>> \o Head(nsaved).cur
    /\ map' = Head(savedlst).map

StaloadEndNamedCaller(n) ==
    /\ StaloadEnd
    /\ fenvlst' = Head(nsaved).cur
    /\ map' = [Head(savedlst).map EXCEPT ![n] = file']

StaloadEndNamed(n) ==
    /\ StaloadEnd
    /\ fenvlst' = Head(nsaved).cur
    /\ map' = [Head(savedlst).map EXCEPT ![n] = file]

namespace_add(f) ==
    /\ More
    /\ fenvlst' = <<f>> \o fenvlst
    /\ UNCHANGED <<symenv, fenvlstlst, nsaved, filenvmap, control>>

namespace_name(f, n) ==
    /\ More
    /\ map' = [map EXCEPT ![n] = f]
    /\ UNCHANGED <<maplst, savedlst, pervasive, namespace, filenvmap, control>>

\* the_filenvmap_find has found the file.
StaloadAgainOpen(f) == started /\ filenvmap[f] # {} /\ namespace_add(f)

StaloadAgainNamed(f, n) == started /\ filenvmap[f] # {} /\ namespace_name(f, n)

\* "staload $M" opens the namespace that M names, "staload N = $M" gives it the
\* name N too.
OpenName(n) == started /\ Find(n) \in File /\ namespace_add(Find(n))

AliasName(n, m) == started /\ Find(m) \in File /\ namespace_name(Find(m), n)

-----------------------------------------------------------------------------
(* The prelude.  pervasive_load pops the three symenvs, but leaves on the  *)
(* namespace stack what trans2_env_push put there.  No file of the prelude *)
(* has a staload declaration.                                              *)

Prelude(f) ==
    /\ ~started /\ More /\ file = Main /\ filenvmap[f] = {}
    /\ Within("prelude") /\ trans2_env_push /\ file' = f
    /\ UNCHANGED <<filenvmap, callers, started>>

PreludeEnd ==
    /\ Leave("prelude", Tail(kinds))
    /\ SymenvPop
    /\ pervasive' = Join(pervasive, map)
    /\ filenvmap' = [filenvmap EXCEPT ![file] = {map}]
    /\ file' = Main
    /\ UNCHANGED <<savedlst, namespace, callers, started, ndecls>>

Start ==
    /\ ~started /\ file = Main /\ started' = TRUE
    /\ UNCHANGED <<symenv, namespace, filenvmap, kinds, file, callers, ndecls>>

Next ==
    \/ \E n \in Name, tag \in {"d2cst", "d2var"} : Declare(n, tag)
    \/ Let \/ LetEnd \/ Local \/ LocalIn \/ LocalEnd
    \/ \E f \in File : Staload(f) \/ StaloadAgainOpen(f) \/ Prelude(f)
    \/ StaloadEndOpen \/ PreludeEnd \/ Start
    \/ \E n \in Name : StaloadEndNamed(n) \/ OpenName(n)
    \/ \E n \in Name, f \in File : StaloadAgainNamed(f, n)
    \/ \E n, m \in Name : AliasName(n, m)

Spec == Init /\ [][Next]_vars

-----------------------------------------------------------------------------
Kind == {"top", "let", "head", "body", "prelude"}

(* The four stacks, the saved environments and the table of files are well *)
(* formed.                                                                 *)
TypeOK ==
    /\ map \in Map /\ maplst \in Seq(Map) /\ pervasive \in Map
    /\ savedlst \in Seq([map : Map, maplst : Seq(Map)])
    /\ fenvlst \in Seq(File) /\ fenvlstlst \in Seq(Seq(File))
    /\ nsaved \in Seq([cur : Seq(File), lst : Seq(Seq(File))])
    /\ filenvmap \in [File -> SUBSET Map]
    /\ kinds \in Seq(Kind) /\ file \in File \cup {Main}
    /\ callers \in Seq([kinds : Seq(Kind), file : File \cup {Main}])
    /\ started \in BOOLEAN /\ ndecls \in 0..MaxDecls

(* No pop, join or restore meets an empty stack: the compiler takes each   *)
(* of these lists apart with a val- that aborts if it is empty.  And when  *)
(* a file ends its outermost map is on top, with no scope left open: it is *)
(* what symenv_restore hands out as the names the file exports.            *)
StacksSuffice ==
    /\ Head(kinds) \in {"let", "prelude"} => maplst # <<>> /\ fenvlstlst # <<>>
    /\ Head(kinds) = "body" => Len(maplst) >= 2 /\ Len(fenvlstlst) >= 2
    /\ callers # <<>> => savedlst # <<>> /\ nsaved # <<>>
    /\ Head(kinds) = "top" => maplst = <<>>

(* Whatever a name leads to has been translated: an opened file or a named *)
(* namespace is in the table, in all the environments that are set aside   *)
(* too.                                                                    *)
FilesIn(m) == {m[n] : n \in Name} \cap File
OpenedLoaded ==
    /\ \A i \in DOMAIN Files : \A j \in DOMAIN Files[i] : filenvmap[Files[i][j]] # {}
    /\ \A i \in DOMAIN Maps : \A f \in FilesIn(Maps[i]) : filenvmap[f] # {}
    /\ \A i \in DOMAIN nsaved : \A j \in DOMAIN nsaved[i].cur :
           filenvmap[nsaved[i].cur[j]] # {}
    /\ \A f \in File : \A m \in filenvmap[f] : \A g \in FilesIn(m) : filenvmap[g] # {}

(* A file is translated once: a second staload is given what the first one *)
(* left in the table (CHAP_STALOAD: "then foo.sats is not actually loaded  *)
(* by the compiler").                                                      *)
LoadedOnce ==
    [][\A f \in File : filenvmap[f] # {} => filenvmap'[f] = filenvmap[f]]_vars

(* The stacks that are pushed, joined, set aside and brought back give     *)
(* each name the meaning that lexical scoping gives it, at every point of  *)
(* the translation: see LexicalScope.                                      *)
Scopes(ms, fss, ks) ==
    [i \in DOMAIN ks |->
       [kind |-> ks[i],
        vis |-> [n \in Name |-> Search(SubSeq(ms, i, Len(ms)), n)],
        own |-> ms[i],
        open |-> [n \in Name |-> NamespaceSearch(SubSeq(fss, i, Len(fss)), n)],
        opened |-> Level(fss[i])]]

Frames == Scopes(Maps, Files, kinds)
Units ==
    [i \in DOMAIN callers |->
       [file |-> callers[i].file,
        frames |-> Scopes(<<savedlst[i].map>> \o savedlst[i].maplst,
                          <<nsaved[i].cur>> \o nsaved[i].lst,
                          callers[i].kinds)]]

Lexical == INSTANCE LexicalScope WITH
    frames <- Frames, units <- Units, prelude <- pervasive, loaded <- filenvmap
ImplementsLexicalScope == Lexical!Spec
=============================================================================
