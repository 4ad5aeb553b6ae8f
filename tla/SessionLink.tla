------------------------------ MODULE SessionLink ------------------------------
(***************************************************************************)
(* mysession-g/DATS/basis_channel0.dats: the channels of a session among   *)
(* 0..nrole-1.  A channel is held for a group of roles and has a matrix of *)
(* uchans: i's messages to j pass through the uchan at <<i, j>>, which the *)
(* holder of i writes and the holder of j reads.  Two channels of the same *)
(* protocol are linked into one for the roles they have in common, or away *)
(* if they have none; the messages of the roles they served for each other *)
(* then pass from the one session to the other.                            *)
(*                                                                         *)
(* The holders are threads of their own: a link, a reception or a close    *)
(* has one step for each uchan, and those of different channels overlap.   *)
(* Uchan has the steps inside of each, among them unrefs of one uchan that *)
(* overlap, which are not in question here.                                *)
(***************************************************************************)
EXTENDS Intset, FiniteSets

CONSTANTS
    nrole,
    MaxChannels,    \* bound: the channels made
    Plans           \* bound: the groups that sessions are created with, how many
                    \* calls overlap, and receptions move to another uchan

Role == 0..nrole - 1

\* <<c, i, j>> is the uchan for <<i, j>> in the matrix that was made for c.
Uchans == (1..MaxChannels) \X Role \X Role
Null == <<0, 0, 0>>

SessionLinkAssumption ==
    /\ nrole \in Nat \ {0} /\ MaxChannels \in Nat
    /\ Plans \subseteq [groups : Seq(intset(nrole)), calls : Nat, received : Nat]

VARIABLES
    rfcnt, qnext,  \* the fields of each uchan
    chans,         \* the channels there have been: group and matrix
    state,         \* state[c]: "open", "closed", or "linked" to another
    links,         \* what auxlink has still to do: <<from, to, the new channel>>
    unrefs,        \* the calls of uchan_unref that another one has still to make
    session,       \* history: session[c], the session that c now belongs to
    received,      \* how many receptions have moved to another uchan
    plan           \* the bounds of this behaviour

vars == <<rfcnt, qnext, chans, state, links, unrefs, session, received, plan>>

\* A channel can be used when the link that makes it has returned.
Open == {c \in DOMAIN chans : state[c] = "open" /\ \A l \in links : l[3] # c}

\* The calls that make or eliminate a link, or free a channel.
Calls ==
    {l[3] : l \in links} \cup
    {c \in DOMAIN chans : state[c] = "closed" /\ \E ij \in Role \X Role : chans[c].chmat[ij] # Null}

\* The places of the matrix of a group that have a uchan.
Across(G) == {ij \in Role \X Role : (ij[1] \in G) # (ij[2] \in G)}
Slots(c) == Across(elements(chans[c].group))

Init ==
    /\ rfcnt = [u \in Uchans \cup {Null} |-> 0]
    /\ qnext = [u \in Uchans \cup {Null} |-> Null]
    /\ chans = <<>> /\ state = <<>> /\ session = <<>>
    /\ links = {} /\ unrefs = {}
    /\ received = 0
    /\ plan \in Plans

-----------------------------------------------------------------------------
\* uchan_unref, of a uchan whose qnext is x, while others are to be done.
uchan_unref(u, x, others) ==
    IF rfcnt[u] > 1
    THEN /\ rfcnt' = [rfcnt EXCEPT ![u] = @ - 1]
         /\ qnext' = [qnext EXCEPT ![u] = x]
         /\ unrefs' = others
    ELSE /\ rfcnt' = [rfcnt EXCEPT ![u] = 0]
         /\ qnext' = [qnext EXCEPT ![u] = Null]
         /\ unrefs' = others \cup ({x} \ {Null})

\* channel0_posneg for the channel c: the matrix of both ends, and the counts.
posneg_mat(c, G0) ==
    [ij \in Role \X Role |->
        IF ij \in Across(elements(G0)) THEN <<c, ij[1], ij[2]>> ELSE Null]
posneg_rfcnt(c, G0) ==
    [u \in DOMAIN rfcnt |->
        IF u[1] = c /\ <<u[2], u[3]>> \in Across(elements(G0)) THEN 2 ELSE rfcnt[u]]

auxlinkSameEnds(G0, G1, p0, p1, c) ==
    UNION {LET ji == <<ij[2], ij[1]>>
           IN  {<<p0[ij], p1[ij], c>>, <<p0[ji], p1[ji], c>>} :
           ij \in intset2_foreach(G0, G1)}

\* The calls of uchan_qinsert and uchan_unref.  LinkUchan makes those of one
\* link in one order.
auxlink(G0, G1, p0, p1, c) ==
    UNION {LET ji == <<ij[2], ij[1]>>
           IN  {<<p0[ij], p1[ij], c>>, <<p1[ji], p0[ji], c>>} :
           ij \in intset2_foreach(G0, G1)}

\* The channels of the sessions of c and d become one session.
Merged(c, d) ==
    [b \in DOMAIN session |-> IF session[b] = session[d] THEN session[c] ELSE session[b]]

-----------------------------------------------------------------------------
\* cchannel1_create_exn.  Bound: the sessions are created first.
Create ==
    /\ Open = DOMAIN chans
    /\ Len(chans) < 2 * Len(plan.groups) /\ Len(chans) + 2 <= MaxChannels
    /\ LET c == Len(chans) + 1
           G0 == plan.groups[(Len(chans) \div 2) + 1]
           mat == posneg_mat(c, G0)
       IN  /\ chans' = chans \o <<[group |-> G0, chmat |-> mat],
                      [group |-> intset_ncomplement(G0, nrole), chmat |-> mat]>>
           /\ rfcnt' = posneg_rfcnt(c, G0)
           /\ state' = state \o <<"open", "open">>
           /\ session' = session \o <<c, c>>
    /\ UNCHANGED <<qnext, links, unrefs, received, plan>>

\* What the types of channel1_link and channel1_link_elim ask for.  (They do not
\* keep the two channels from being those of one session.)  Bound: plan.calls.
Linkable(c, d) ==
    /\ Cardinality(Calls) < plan.calls
    /\ {c, d} \subseteq Open
    /\ session[c] # session[d]
    /\ elements(chans[c].group) \cup elements(chans[d].group) = Role

\* channel0_link.
Link(c, d) ==
    /\ Linkable(c, d)
    /\ Len(chans) < MaxChannels
    /\ LET G0_ == intset_ncomplement(chans[c].group, nrole)
           G1_ == intset_ncomplement(chans[d].group, nrole)
           G2_ == intset_union[<<G0_, G1_>>]
           G2 == intset_ncomplement(G2_, nrole)
           p0 == chans[c].chmat
           p1 == chans[d].chmat
           e == Len(chans) + 1
           p2_ == posneg_mat(e, G2_)
       IN  /\ rfcnt' = posneg_rfcnt(e, G2_)
           /\ chans' = Append(chans, [group |-> G2, chmat |-> p2_])
           /\ links' = links \cup auxlink(G2, G0_, p0, p2_, e)
                             \cup auxlink(G2, G1_, p1, p2_, e)
                             \cup auxlink(G0_, G1_, p1, p0, e)
    /\ state' = Append([state EXCEPT ![c] = "linked", ![d] = "linked"], "open")
    /\ session' = Append(Merged(c, d), session[c])
    /\ UNCHANGED <<qnext, unrefs, received, plan>>

\* channel0_link_elim.
LinkElim(c, d) ==
    /\ Linkable(c, d)
    /\ elements(chans[c].group) \cap elements(chans[d].group) = {}
    /\ links' = links \cup auxlink(chans[c].group, chans[d].group,
                                   chans[c].chmat, chans[d].chmat, c)
    /\ state' = [state EXCEPT ![c] = "linked", ![d] = "linked"]
    /\ session' = Merged(c, d)
    /\ UNCHANGED <<rfcnt, qnext, chans, unrefs, received, plan>>

\* uchan_qinsert and uchan_unref, for one place.  (qnext_insert has another
\* branch, for a uchan that goes on already: there is none, by Routed.)
LinkUchan(from, to, c) ==
    /\ <<from, to, c>> = CHOOSE l \in links : l[3] = c
    /\ qnext[from] = Null
    /\ uchan_unref(from, to, unrefs)
    /\ links' = links \ {<<from, to, c>>}
    /\ UNCHANGED <<chans, state, session, received, plan>>

\* The recursive call of uchan_unref.
UnrefNext(u) ==
    /\ u \in unrefs
    /\ uchan_unref(u, qnext[u], unrefs \ {u})
    /\ UNCHANGED <<chans, state, links, session, received, plan>>

\* channel0_free gives up the uchans of the matrix one after the other.
Close(c) ==
    /\ c \in Open
    /\ Cardinality(Calls) < plan.calls
    /\ state' = [state EXCEPT ![c] = "closed"]
    /\ UNCHANGED <<rfcnt, qnext, chans, links, unrefs, session, received, plan>>

CloseUchan(c, ij) ==
    /\ state[c] = "closed" /\ chans[c].chmat[ij] # Null
    /\ ij = CHOOSE kl \in Slots(c) : chans[c].chmat[kl] # Null
    /\ uchan_unref(chans[c].chmat[ij], qnext[chans[c].chmat[ij]], unrefs)
    /\ chans' = [chans EXCEPT ![c].chmat[ij] = Null]
    /\ UNCHANGED <<state, links, session, received, plan>>

\* channel0_recv, where the uchan is nil and another goes on.
Recv(c, ij) ==
    /\ c \in Open /\ received < plan.received
    /\ ij \in Slots(c) /\ ij[2] \in elements(chans[c].group)
    /\ qnext[chans[c].chmat[ij]] # Null
    /\ uchan_unref(chans[c].chmat[ij], Null, unrefs)
    /\ chans' = [chans EXCEPT ![c].chmat[ij] = qnext[chans[c].chmat[ij]]]
    /\ received' = received + 1
    /\ UNCHANGED <<state, links, session, plan>>

Next ==
    \/ Create
    \/ \E c, d \in Open : Link(c, d) \/ LinkElim(c, d)
    \/ \E l \in links : LinkUchan(l[1], l[2], l[3])
    \/ \E u \in unrefs : UnrefNext(u)
    \/ \E c \in Open : Close(c)
    \/ \E c \in DOMAIN chans : \E ij \in Role \X Role : CloseUchan(c, ij) \/ Recv(c, ij)

Spec == Init /\ [][Next]_vars

-----------------------------------------------------------------------------
\* The matrices name uchans, and each channel belongs to a session.
TypeOK ==
    /\ rfcnt \in [Uchans \cup {Null} -> 0..2]
    /\ qnext \in [Uchans \cup {Null} -> Uchans \cup {Null}]
    /\ chans \in Seq([group : intset(nrole),
                      chmat : [Role \X Role -> Uchans \cup {Null}]])
    /\ Len(chans) <= MaxChannels
    /\ state \in [DOMAIN chans -> {"open", "closed", "linked"}]
    /\ session \in [DOMAIN chans -> DOMAIN chans]
    /\ links \subseteq Uchans \X Uchans \X DOMAIN chans
    /\ unrefs \subseteq Uchans
    /\ received \in Nat
    /\ plan \in Plans

\* From u messages come to be read from v, or will when the link is made.
Onward(u, v) == qnext[u] = v \/ \E l \in links : l[1] = u /\ l[2] = v

\* The uchans in use for messages from i to j.
Line(i, j) == {u \in (DOMAIN chans) \X {i} \X {j} : rfcnt[u] > 0}

\* Who reads u will come to w in the end: w is in every set that u is in and no
\* link leads out of.
Leads(u, w) ==
    \A S \in SUBSET Line(u[2], u[3]) :
        /\ u \in S
        /\ \A v \in S : \A x \in Line(u[2], u[3]) : Onward(v, x) => x \in S
        => w \in S

\* The channels of each session share its roles out.  Where the holder of j
\* reads what i sends, the uchans lead to the one that the holder of i writes,
\* and that one leads nowhere.  So qnext_insert always finds the place empty.
\* (The null pointer is never followed.)
Routed ==
    LET Members(s) == {c \in DOMAIN chans : session[c] = s /\ state[c] # "linked"}
        Of(c) == elements(chans[c].group)
    IN  /\ \A s \in {session[c] : c \in DOMAIN chans} :
              /\ UNION {Of(c) : c \in Members(s)} = Role
              /\ \A c, d \in Members(s) : c # d => Of(c) \cap Of(d) = {}
              /\ \A c, d \in Members(s) : c # d /\ state[c] = "open" /\ state[d] = "open" =>
                    \A i \in Of(c) : \A j \in Of(d) :
                        LET u == chans[d].chmat[<<i, j>>]
                            w == chans[c].chmat[<<i, j>>]
                        IN  /\ {u, w} \subseteq Line(i, j)
                            /\ Leads(u, w)
                            /\ \A x \in Line(i, j) : ~Onward(w, x)
        /\ \A l \in links : qnext[l[1]] = Null
        /\ rfcnt[Null] = 0 /\ qnext[Null] = Null

\* A uchan has as many references as its count says, those that calls hold
\* included; and when all channels are closed none is left.
CountAgrees ==
    /\ \A u \in Uchans :
           rfcnt[u] =
               Cardinality({c \in DOMAIN chans :
                               state[c] # "linked" /\ chans[c].chmat[<<u[2], u[3]>>] = u})
             + Cardinality({l \in links : l[1] = u}) + Cardinality({l \in links : l[2] = u})
             + Cardinality({v \in Line(u[2], u[3]) : qnext[v] = u})
             + Cardinality(unrefs \cap {u})
    /\ Open = {} /\ Calls = {} /\ unrefs = {} => \A u \in Uchans : rfcnt[u] = 0
=============================================================================
