-------------------------- MODULE LocalHistory_proofs --------------------------
(***************************************************************************)
(* Proofs about LocalHistory: the types, that a frozen pane is painted      *)
(* where its pane is, that a pane waits for one capture only, and that the  *)
(* client implements PaneView.                                              *)
(*                                                                         *)
(* One invariant, HistoryInv, carries all of them.  Its heart is ClientOK,  *)
(* which every operator of the client preserves, whatever calls it.         *)
(***************************************************************************)
EXTENDS LocalHistory, FiniteSetTheorems, SequenceTheorems, TLAPS

-----------------------------------------------------------------------------
(* The invariant *)

PerPane(V) == UNION {[S -> V] : S \in SUBSET Panes}

\* What the helper captures holds the screen at least.
Lengths == {n \in Nat : n >= Height}
Shots == {s \in Snapshots : Len(s.lines) \in Lengths}
RouteMaps == {f \in PerPane(Shots) : \A p \in DOMAIN f : f[p].pane = p}
Frozens == {v \in Views : v.snap \in Shots /\ v.offset \in 0..Highest(v.snap)}
FrozenOf(p) == {v \in Frozens : v.snap.pane = p}
ViewMaps == {f \in PerPane(Frozens) : \A p \in DOMAIN f : f[p].snap.pane = p}
Deeps == [id : 1..MaxIds, epoch : Nat, pane : Panes, lines : Lengths]
DeepSets == SUBSET Deeps
Ids == 1..MaxIds

\* The messages under way while the epochs of the client were in E.
Ups(E) ==
    [kind : {"input"}, id : {None}, after : E,
     what : {<<>>} \union ({"wheel", "drag"} \X Positions)]
    \union [kind : {"prefetch"}, id : Ids]
    \union [kind : {"request"}, id : Ids, at : Positions, lines : Lengths]
Downs(E) ==
    [kind : {"batch"}, id : Ids, panes : RouteMaps, after : E]
    \union [kind : {"answer"}, id : Ids, snap : Shots \union {None}]
    \union [kind : {"screen"}, id : {None}, cursor : Positions, bar : BOOLEAN]

Clients ==
    [epoch : Nat \ {0}, prefetch : Ids \union {None}, asked : Nat \union {None},
     routes : RouteMaps, ready : BOOLEAN, stamp : Nat, cache : PerPane(Shots),
     views : ViewMaps, deep : DeepSets,
     capture : {"none", "local", "agent", "other"}, refresh : BOOLEAN,
     screen : [cursor : Positions, bar : BOOLEAN] \union {None},
     out : Seq(Ups(Nat))]

\* Every view stands on its route.
Placing(c) ==
    \A p \in DOMAIN c.views :
        p \in DOMAIN c.routes /\ Same(c.views[p].snap, c.routes[p])
\* A capture is waited for by a frozen pane, and each pane waits for one.
Waiting(c) ==
    \A d \in c.deep : /\ d.pane \in DOMAIN c.views
                      /\ \A e \in c.deep : e.pane = d.pane => e = d

ClientOK(c) ==
    /\ c \in Clients /\ c.stamp <= c.epoch /\ c.out \in Seq(Ups(1..c.epoch))
    /\ Cardinality(DOMAIN c.cache) <= CacheLimit
    /\ Placing(c) /\ Waiting(c)

HistoryInv ==
    /\ srv \in [layout : Layouts, after : 1..cli.epoch, dirty : BOOLEAN,
                text : [Panes -> {t \in Seq(Texts) : Len(t) >= Height}]]
    /\ ClientOK(cli) /\ cli.out = <<>>
    /\ held \in {None, "agent", "other"}
    /\ up \in Seq(Ups(1..cli.epoch)) /\ down \in Seq(Downs(1..cli.epoch))
    /\ spent \in [Events -> Nat]

-----------------------------------------------------------------------------
(* Data *)

LEMMA PerPaneFacts ==
    ASSUME NEW V, NEW f \in PerPane(V)
    PROVE  /\ DOMAIN f \subseteq Panes /\ \A p \in DOMAIN f : f[p] \in V
           /\ f = [p \in DOMAIN f |-> f[p]]
BY DEF PerPane

LEMMA InPerPane ==
    ASSUME NEW V, NEW S \in SUBSET Panes, NEW f \in [S -> V]
    PROVE  f \in PerPane(V)
BY DEF PerPane

LEMMA ShotFacts ==
    ASSUME NEW s \in Shots
    PROVE  /\ s.pane \in Panes /\ s.cell \in Cells /\ s.lines \in Seq(Texts)
           /\ Len(s.lines) \in Nat /\ Len(s.lines) >= Height
           /\ Height \in Nat /\ Highest(s) \in Nat
BY LineAssumption DEF Shots, Snapshots, Highest, Lengths

LEMMA FrozenFacts ==
    ASSUME NEW v \in Frozens
    PROVE  /\ v.snap \in Shots /\ v.offset \in Nat /\ v.offset <= Highest(v.snap)
           /\ v.limit \in Nat /\ v.exhausted \in BOOLEAN
BY DEF Frozens, Views

LEMMA NewFrozen ==
    ASSUME NEW s \in Shots, NEW o \in 0..Highest(s), NEW n \in Nat,
           NEW b \in BOOLEAN
    PROVE  [snap |-> s, offset |-> o, limit |-> n, exhausted |-> b] \in Frozens
BY ShotFacts DEF Frozens, Views, Shots

LEMMA RowFacts ==
    ASSUME NEW n \in Nat, NEW o \in Nat, NEW h \in Nat, NEW i \in 1..h, o + h <= n
    PROVE  n - o - h + i \in 1..n
OBVIOUS

LEMMA ShownRows ==
    ASSUME NEW v \in Frozens PROVE Shown(v) \in [1..Height -> Texts]
<1>1. /\ v.snap \in Shots /\ v.offset \in Nat /\ v.offset <= Highest(v.snap)
  BY FrozenFacts
<1>2. /\ v.snap.lines \in Seq(Texts) /\ Len(v.snap.lines) \in Nat /\ Height \in Nat
  BY <1>1, ShotFacts
<1>3. ASSUME NEW i \in 1..Height
      PROVE  Bottom(v) - Height + i \in 1..Len(v.snap.lines)
  <2>1. PICK n \in Nat : n = Len(v.snap.lines) /\ v.offset + Height <= n
    BY <1>1, <1>2 DEF Highest
  <2>2. PICK o \in Nat : o = v.offset BY <1>1
  <2>3. Bottom(v) - Height + i = n - o - Height + i BY <2>1, <2>2 DEF Bottom
  <2>4. n - o - Height + i \in 1..n BY <1>2, <1>3, <2>1, <2>2, RowFacts
  <2>5. QED BY <2>1, <2>3, <2>4
<1>4. \A i \in 1..Height : v.snap.lines[Bottom(v) - Height + i] \in Texts
  BY <1>2, <1>3
<1>5. QED BY <1>4 DEF Shown

\* What one capture of a pane that is visible returns.
LEMMA CaptureFacts ==
    ASSUME HistoryInv, NEW p \in Visible, NEW n \in Lengths
    PROVE  Capture(p, n) \in Shots /\ Capture(p, n).pane = p
<1> DEFINE t == srv.text[p]
           k == Smaller(n, Len(t))
<1>1. /\ p \in Panes /\ t \in Seq(Texts) /\ Len(t) \in Nat /\ Len(t) >= Height
      /\ srv.layout.place[p] \in Cells
  BY LayoutAssumption DEF Visible, HistoryInv
<1>2. k \in Nat /\ k >= Height /\ k <= Len(t)
  BY <1>1, LineAssumption DEF Smaller, Lengths
<1>3. /\ SubSeq(t, Len(t) - k + 1, Len(t)) \in Seq(Texts)
      /\ Len(SubSeq(t, Len(t) - k + 1, Len(t))) = k
  BY <1>1, <1>2
<1>4. QED
  BY <1>1, <1>2, <1>3 DEF Capture, Shots, Snapshots, Lengths

\* What _remember_content leaves.
LEMMA CachesFacts ==
    ASSUME NEW old \in PerPane(Shots), NEW f \in PerPane(Shots),
           NEW cache \in Caches(old, f)
    PROVE  cache \in PerPane(Shots) /\ Cardinality(DOMAIN cache) <= CacheLimit
<1> DEFINE all == Over(f, old)
<1>1. /\ DOMAIN all \subseteq Panes
      /\ \A p \in DOMAIN all : all[p] \in Shots
  BY PerPaneFacts DEF Over
<1>2. PICK S \in SUBSET DOMAIN all :
         /\ Cardinality(S) = Smaller(CacheLimit, Cardinality(DOMAIN all))
         /\ cache = [p \in S |-> all[p]]
  BY DEF Caches
<1>3. cache \in PerPane(Shots)
  BY <1>1, <1>2, InPerPane
<1>4. Cardinality(DOMAIN all) \in Nat
  BY <1>1, PaneAssumption, FS_Subset, FS_CardinalityType
<1>5. QED BY <1>2, <1>3, <1>4, LineAssumption DEF Smaller

-----------------------------------------------------------------------------
(* The client's operators *)

LEMMA ClientFacts ==
    ASSUME NEW c \in Clients
    PROVE  /\ c.epoch \in Nat \ {0} /\ c.prefetch \in Ids \union {None}
           /\ c.asked \in Nat \union {None} /\ c.routes \in RouteMaps
           /\ c.ready \in BOOLEAN /\ c.stamp \in Nat /\ c.cache \in PerPane(Shots)
           /\ c.views \in ViewMaps /\ c.deep \in DeepSets
           /\ c.capture \in {"none", "local", "agent", "other"}
           /\ c.refresh \in BOOLEAN
           /\ c.screen \in [cursor : Positions, bar : BOOLEAN] \union {None}
           /\ c.out \in Seq(Ups(Nat))
BY DEF Clients

LEMMA ViewFacts ==
    ASSUME NEW f \in ViewMaps
    PROVE  /\ DOMAIN f \subseteq Panes /\ f \in PerPane(Frozens)
           /\ \A p \in DOMAIN f : f[p] \in Frozens /\ f[p].snap.pane = p
BY PerPaneFacts DEF ViewMaps

LEMMA RouteFacts ==
    ASSUME NEW f \in RouteMaps
    PROVE  /\ DOMAIN f \subseteq Panes /\ f \in PerPane(Shots)
           /\ \A p \in DOMAIN f : f[p] \in Shots /\ f[p].pane = p
                                  /\ f[p].cell \in Positions
BY PerPaneFacts, ShotFacts DEF RouteMaps, Positions

LEMMA NothingFacts == Nothing \in ViewMaps /\ Nothing \in RouteMaps
                      /\ Nothing \in PerPane(Shots) /\ DOMAIN Nothing = {}
<1>1. /\ DOMAIN Nothing = {} /\ Nothing \in [{} -> Shots]
      /\ Nothing \in [{} -> Frozens]
  BY DEF Nothing
<1>2. Nothing \in PerPane(Shots) /\ Nothing \in PerPane(Frozens)
  BY <1>1, InPerPane
<1>3. QED BY <1>1, <1>2 DEF ViewMaps, RouteMaps

LEMMA WithoutFacts ==
    ASSUME NEW f \in ViewMaps, NEW S, NEW V, V = Without(f, S)
    PROVE  /\ V \in ViewMaps /\ DOMAIN V = DOMAIN f \ S
           /\ \A p \in DOMAIN V : V[p] = f[p]
<1>1. /\ DOMAIN V = DOMAIN f \ S
      /\ \A p \in DOMAIN V : V[p] = f[p]
  BY DEF Without
<1>2. /\ DOMAIN f \ S \in SUBSET Panes
      /\ V \in [DOMAIN f \ S -> Frozens]
  BY ViewFacts DEF Without
<1>3. V \in PerPane(Frozens) BY <1>2, InPerPane
<1>4. QED BY <1>1, <1>3, ViewFacts DEF ViewMaps

LEMMA WithFacts ==
    ASSUME NEW f \in ViewMaps, NEW p \in Panes, NEW v \in FrozenOf(p),
           NEW V, V = With(f, p, v)
    PROVE  /\ V \in ViewMaps /\ DOMAIN V = DOMAIN f \union {p} /\ V[p] = v
           /\ \A q \in DOMAIN f \ {p} : V[q] = f[q]
<1>1. /\ DOMAIN V = DOMAIN f \union {p} /\ V[p] = v
      /\ \A q \in DOMAIN f \ {p} : V[q] = f[q]
  BY DEF With
<1>2. /\ DOMAIN f \union {p} \in SUBSET Panes
      /\ V \in [DOMAIN f \union {p} -> Frozens]
  BY ViewFacts DEF With, FrozenOf
<1>3. V \in PerPane(Frozens) BY <1>2, InPerPane
<1>4. QED BY <1>1, <1>3, ViewFacts DEF ViewMaps, FrozenOf

LEMMA ChangedView ==
    ASSUME NEW f \in ViewMaps, NEW p \in DOMAIN f, NEW v \in FrozenOf(p), NEW V,
           V = [f EXCEPT ![p] = v]
    PROVE  /\ V \in ViewMaps /\ DOMAIN V = DOMAIN f /\ V[p] = v
           /\ \A q \in DOMAIN f \ {p} : V[q] = f[q]
<1>1. /\ DOMAIN f \in SUBSET Panes /\ f \in [DOMAIN f -> Frozens]
  BY ViewFacts, PerPaneFacts
<1>2. V \in [DOMAIN f -> Frozens] BY <1>1 DEF FrozenOf
<1>3. V \in PerPane(Frozens) BY <1>1, <1>2, InPerPane
<1>4. QED BY <1>1, <1>3, ViewFacts DEF ViewMaps, FrozenOf

\* What a client is besides its views, its captures and what it sends.
Rest(c) == <<c.epoch, c.routes, c.stamp, c.cache>>
\* No view is new, or says something else.
Fewer(c, d) ==
    \A p \in DOMAIN d.views : p \in DOMAIN c.views /\ d.views[p] = c.views[p]
\* No view but that of p is another.
Only(c, d, p) ==
    \A q \in Panes \ {p} : /\ q \in DOMAIN d.views <=> q \in DOMAIN c.views
                           /\ q \in DOMAIN d.views => d.views[q] = c.views[q]

LEMMA SetViews ==
    ASSUME NEW c \in Clients, NEW V \in ViewMaps,
           NEW d, d = [c EXCEPT !.views = V]
    PROVE  /\ d \in Clients /\ d.views = V /\ d.deep = c.deep
           /\ Rest(d) = Rest(c) /\ d.out = c.out
BY DEF Clients, Rest

LEMMA SetDeep ==
    ASSUME NEW c \in Clients, NEW D \in DeepSets,
           NEW d, d = [c EXCEPT !.deep = D]
    PROVE  /\ d \in Clients /\ d.views = c.views /\ d.deep = D
           /\ Rest(d) = Rest(c) /\ d.out = c.out
BY DEF Clients, Rest

LEMMA SetOut ==
    ASSUME NEW c \in Clients, NEW m \in Ups(Nat),
           NEW d, d = [c EXCEPT !.out = Append(@, m)]
    PROVE  /\ d \in Clients /\ d.views = c.views /\ d.deep = c.deep
           /\ Rest(d) = Rest(c) /\ d.out = Append(c.out, m)
<1> DEFINE q == Append(c.out, m)
<1>1. q \in Seq(Ups(Nat)) BY ClientFacts
<1>2. d = [c EXCEPT !.out = q] OBVIOUS
<1> HIDE DEF q
<1>3. /\ d \in Clients /\ d.views = c.views /\ d.deep = c.deep
      /\ Rest(d) = Rest(c) /\ d.out = q
  BY <1>1, <1>2 DEF Clients, Rest
<1>4. QED BY <1>3 DEF q

LEMMA UpsGrow ==
    ASSUME NEW E, NEW F, E \subseteq F
    PROVE  /\ Ups(E) \subseteq Ups(F) /\ Downs(E) \subseteq Downs(F)
           /\ Seq(Ups(E)) \subseteq Seq(Ups(F))
           /\ Seq(Downs(E)) \subseteq Seq(Downs(F))
<1>1. Ups(E) \subseteq Ups(F) /\ Downs(E) \subseteq Downs(F)
  BY DEF Ups, Downs
<1>2. QED BY <1>1

\* ClientOK says nothing of the other fields.
LEMMA SameOK ==
    ASSUME NEW c, NEW d \in Clients, ClientOK(c), Rest(d) = Rest(c),
           d.views = c.views, d.deep = c.deep, d.out \in Seq(Ups(1..c.epoch))
    PROVE  ClientOK(d)
BY DEF ClientOK, Rest, Placing, Waiting

LEMMA CancelPaneOK ==
    ASSUME NEW c, NEW p, ClientOK(c), NEW d, d = CancelPane(c, p)
    PROVE  /\ ClientOK(d) /\ Rest(d) = Rest(c) /\ d.out = c.out
           /\ Fewer(c, d) /\ Only(c, d, p) /\ d.views = Without(c.views, {p})
           /\ \A x \in d.deep : x.pane # p
<1>1. c \in Clients /\ c.views \in ViewMaps /\ c.deep \in DeepSets
  BY ClientFacts DEF ClientOK
<1> DEFINE V == Without(c.views, {p})
           D == {x \in c.deep : x.pane # p}
<1>2. /\ V \in ViewMaps /\ DOMAIN V = DOMAIN c.views \ {p}
      /\ \A q \in DOMAIN V : V[q] = c.views[q]
  <2>1. PICK U : U = Without(c.views, {p}) OBVIOUS
  <2>2. /\ U \in ViewMaps /\ DOMAIN U = DOMAIN c.views \ {p}
        /\ \A q \in DOMAIN U : U[q] = c.views[q]
    BY <1>1, <2>1, WithoutFacts
  <2>3. QED BY <2>1, <2>2
<1>3. D \in DeepSets BY <1>1 DEF DeepSets
<1>4. d = [c EXCEPT !.views = V, !.deep = D] BY DEF CancelPane
<1>5. /\ d \in Clients /\ d.views = V /\ d.deep = D
      /\ Rest(d) = Rest(c) /\ d.out = c.out
  <2> HIDE DEF V, D
  <2>1. PICK e : e = [c EXCEPT !.views = V] OBVIOUS
  <2>2. d = [e EXCEPT !.deep = D] BY <1>4, <2>1
  <2>3. /\ e \in Clients /\ e.views = V /\ Rest(e) = Rest(c) /\ e.out = c.out
    BY <1>1, <1>2, <2>1, SetViews
  <2>4. /\ d \in Clients /\ d.views = e.views /\ d.deep = D /\ Rest(d) = Rest(e)
        /\ d.out = e.out
    BY <1>3, <2>2, <2>3, SetDeep
  <2>5. QED BY <2>3, <2>4
<1>6. ClientOK(d)
  BY <1>2, <1>5 DEF ClientOK, Placing, Waiting, Rest
<1>7. Fewer(c, d) /\ Only(c, d, p)
  BY <1>2, <1>5 DEF Fewer, Only
<1>8. QED BY <1>5, <1>6, <1>7

LEMMA CancelOK ==
    ASSUME NEW c, ClientOK(c), NEW d, d = Cancel(c)
    PROVE  /\ ClientOK(d) /\ Rest(d) = Rest(c) /\ d.out = c.out
           /\ d.views = Nothing /\ d.deep = {}
<1>1. c \in Clients BY DEF ClientOK
<1>2. d \in Clients /\ d.views = Nothing /\ d.deep = {} /\ Rest(d) = Rest(c)
      /\ d.out = c.out
  <2>1. {} \in DeepSets BY DEF DeepSets
  <2>2. QED BY <1>1, <2>1, NothingFacts DEF Cancel, Clients, Rest
<1>3. QED
  BY <1>2, NothingFacts DEF ClientOK, Placing, Waiting, Rest

LEMMA InvalidatedOK ==
    ASSUME NEW c, ClientOK(c), NEW d, d = Invalidated(c)
    PROVE  /\ ClientOK(d) /\ d.out = c.out /\ d.views = Nothing /\ d.deep = {}
           /\ d.epoch = c.epoch + 1
<1>1. PICK e : e = Cancel(c) OBVIOUS
<1>2. /\ ClientOK(e) /\ Rest(e) = Rest(c) /\ e.out = c.out
      /\ e.views = Nothing /\ e.deep = {} /\ e \in Clients
  BY <1>1, CancelOK DEF ClientOK
<1>3. e.epoch \in Nat \ {0} BY <1>2, ClientFacts
<1>4. d = [e EXCEPT !.epoch = @ + 1, !.routes = Nothing, !.ready = FALSE,
                    !.prefetch = None, !.asked = None]
  BY <1>1 DEF Invalidated
<1>5. /\ d \in Clients /\ d.views = e.views /\ d.deep = e.deep /\ d.out = e.out
      /\ d.epoch = e.epoch + 1 /\ d.stamp = e.stamp /\ d.cache = e.cache
  <2> DEFINE n == e.epoch + 1
  <2>1. n \in Nat \ {0} BY <1>3
  <2> HIDE DEF n
  <2>2. d = [e EXCEPT !.epoch = n, !.routes = Nothing, !.ready = FALSE,
                      !.prefetch = None, !.asked = None]
    BY <1>4 DEF n
  <2>3. /\ d \in Clients /\ d.views = e.views /\ d.deep = e.deep /\ d.out = e.out
        /\ d.epoch = n /\ d.stamp = e.stamp /\ d.cache = e.cache
    BY <1>2, <2>1, <2>2, NothingFacts DEF Clients
  <2>4. QED BY <2>3 DEF n
<1>6. d.out \in Seq(Ups(1..d.epoch))
  <2> DEFINE E == 1..c.epoch
             F == 1..d.epoch
  <2>1. E \subseteq F BY <1>2, <1>3, <1>5 DEF Rest
  <2>2. Seq(Ups(E)) \subseteq Seq(Ups(F))
    <3> HIDE DEF E, F
    <3>1. QED BY <2>1, UpsGrow
  <2>3. QED BY <1>2, <1>5, <2>2 DEF ClientOK
<1>7. d.stamp <= d.epoch
  <2>1. e.stamp \in Nat /\ e.stamp <= e.epoch BY <1>2, ClientFacts DEF ClientOK
  <2>2. QED BY <1>3, <1>5, <2>1
<1>8. Placing(d) /\ Waiting(d)
  BY <1>2, <1>5, NothingFacts DEF Placing, Waiting
<1>9. QED BY <1>2, <1>5, <1>6, <1>7, <1>8 DEF ClientOK, Rest

LEMMA ForwardOK ==
    ASSUME NEW c, ClientOK(c), NEW w, NEW x,
           w \in {"wheel", "drag"} => x \in Positions, NEW d, d = Forward(c, w, x)
    PROVE  ClientOK(d) /\ Rest(d) = Rest(c) /\ d.views = c.views /\ d.deep = c.deep
<1>1. c \in Clients /\ c.epoch \in Nat \ {0} /\ c.out \in Seq(Ups(1..c.epoch))
  BY ClientFacts DEF ClientOK
<1>2. Input(c, w, x) \in Ups(1..c.epoch) /\ Input(c, w, x) \in Ups(Nat)
  BY <1>1 DEF Input, Ups
<1>3. Append(c.out, Input(c, w, x)) \in Seq(Ups(1..c.epoch))
  BY <1>1, <1>2
<1> DEFINE m == Input(c, w, x)
<1>4. d = [c EXCEPT !.out = Append(@, m)] BY DEF Forward
<1> HIDE DEF m
<1>5. /\ d \in Clients /\ Rest(d) = Rest(c) /\ d.views = c.views
      /\ d.deep = c.deep /\ d.out = Append(c.out, m)
  BY <1>1, <1>2, <1>4, SetOut DEF m
<1>6. QED BY <1>3, <1>5, SameOK DEF m

LEMMA RefreshOK ==
    ASSUME NEW c, ClientOK(c), NEW d, d = Refresh(c)
    PROVE  /\ ClientOK(d) /\ Rest(d) = Rest(c) /\ d.views = c.views
           /\ d.deep = c.deep /\ d.out = c.out
<1>1. c \in Clients BY DEF ClientOK
<1>2. /\ d \in Clients /\ Rest(d) = Rest(c) /\ d.views = c.views
      /\ d.deep = c.deep /\ d.out = c.out
  BY <1>1 DEF Refresh, Clients, Rest
<1>3. d.out \in Seq(Ups(1..c.epoch)) BY <1>2 DEF ClientOK
<1>4. QED BY <1>2, <1>3, SameOK

LEMMA CaptureOK ==
    ASSUME NEW c, ClientOK(c), NEW k \in {"none", "local", "agent", "other"},
           NEW d, d = [c EXCEPT !.capture = k]
    PROVE  /\ ClientOK(d) /\ Rest(d) = Rest(c) /\ d.views = c.views
           /\ d.deep = c.deep /\ d.out = c.out
<1>1. c \in Clients BY DEF ClientOK
<1>2. /\ d \in Clients /\ Rest(d) = Rest(c) /\ d.views = c.views
      /\ d.deep = c.deep /\ d.out = c.out
  BY <1>1 DEF Clients, Rest
<1>3. d.out \in Seq(Ups(1..c.epoch)) BY <1>2 DEF ClientOK
<1>4. QED BY <1>2, <1>3, SameOK

LEMMA NewIdFacts ==
    ASSUME NEW c, CanAsk(c) PROVE NewId(c) \in Ids
BY DEF CanAsk, NewId, Ids

LEMMA BeginPrefetchOK ==
    ASSUME NEW c, ClientOK(c), NEW late, NEW d, d = BeginPrefetch(c, late)
    PROVE  ClientOK(d) /\ Rest(d) = Rest(c) /\ d.views = c.views /\ d.deep = c.deep
<1>1. CASE ~MayAsk(c, late) \/ ~CanAsk(c)
  BY <1>1 DEF BeginPrefetch
<1>2. CASE MayAsk(c, late) /\ CanAsk(c)
  <2>1. c \in Clients /\ c.epoch \in Nat \ {0} /\ c.out \in Seq(Ups(1..c.epoch))
    BY ClientFacts DEF ClientOK
  <2> DEFINE i == NewId(c)
             m == Prefetch(i)
             e == [c EXCEPT !.prefetch = i, !.asked = c.epoch, !.refresh = FALSE]
  <2>2. i \in Ids BY <1>2, NewIdFacts
  <2>3. m \in Ups(1..c.epoch) /\ m \in Ups(Nat)
    BY <2>2 DEF Prefetch, Ups
  <2>4. d = [e EXCEPT !.out = Append(@, m)]
    BY <1>2, <2>1 DEF BeginPrefetch, Clients
  <2> HIDE DEF i, m
  <2>5. /\ e \in Clients /\ Rest(e) = Rest(c) /\ e.views = c.views
        /\ e.deep = c.deep /\ e.out = c.out
    BY <2>1, <2>2 DEF Clients, Rest
  <2> HIDE DEF e
  <2>6. /\ d \in Clients /\ Rest(d) = Rest(c) /\ d.views = c.views
        /\ d.deep = c.deep /\ d.out = Append(c.out, m)
    BY <2>3, <2>4, <2>5, SetOut
  <2>7. d.out \in Seq(Ups(1..c.epoch)) BY <2>1, <2>3, <2>6
  <2>8. QED BY <2>6, <2>7, SameOK
<1>3. QED BY <1>1, <1>2

LEMMA AskOK ==
    ASSUME NEW c, ClientOK(c), CanAsk(c), NEW p \in DOMAIN c.views, ~Asked(c, p),
           NEW x \in Positions, NEW n \in Lengths, NEW d, d = Ask(c, p, x, n)
    PROVE  ClientOK(d) /\ Rest(d) = Rest(c) /\ d.views = c.views
<1>1. /\ c \in Clients /\ c.epoch \in Nat \ {0} /\ c.out \in Seq(Ups(1..c.epoch))
      /\ c.deep \in DeepSets /\ p \in Panes
  BY ClientFacts, ViewFacts DEF ClientOK
<1> DEFINE i == NewId(c)
           m == Request(i, x, n)
           y == [id |-> i, epoch |-> c.epoch, pane |-> p, lines |-> n]
           D == c.deep \union {y}
           e == [c EXCEPT !.deep = D]
<1>2. i \in Ids BY NewIdFacts
<1>3. m \in Ups(1..c.epoch) /\ m \in Ups(Nat) /\ y \in Deeps
  BY <1>1, <1>2 DEF Request, Ups, Deeps, Ids
<1>4. d = [e EXCEPT !.out = Append(@, m)]
  BY <1>1 DEF Ask, Clients
<1>5. D \in DeepSets BY <1>1, <1>3 DEF DeepSets
<1>6. \A z \in D : /\ z.pane \in DOMAIN c.views
                   /\ \A u \in D : u.pane = z.pane => u = z
  BY DEF ClientOK, Waiting, Asked
<1> HIDE DEF i, m, y, D
<1>7. /\ e \in Clients /\ Rest(e) = Rest(c) /\ e.views = c.views
      /\ e.deep = D /\ e.out = c.out
  BY <1>1, <1>5, SetDeep
<1> HIDE DEF e
<1>8. /\ d \in Clients /\ Rest(d) = Rest(c) /\ d.views = c.views
      /\ d.deep = D /\ d.out = Append(c.out, m)
  BY <1>3, <1>4, <1>7, SetOut
<1>9. d.out \in Seq(Ups(1..c.epoch)) BY <1>1, <1>3, <1>8
<1>10. QED BY <1>6, <1>8, <1>9 DEF ClientOK, Rest, Placing, Waiting

LEMMA ExtendOK ==
    ASSUME NEW c, ClientOK(c), NEW p \in DOMAIN c.views, NEW late,
           NEW d, d = Extend(c, p, late)
    PROVE  ClientOK(d) /\ Rest(d) = Rest(c) /\ d.views = c.views
<1> DEFINE D == {x \in c.deep : x.pane # p}
           v == c.views[p]
           n == Smaller(HistoryLimit, Larger(InitialLines, v.limit) + PageLines)
<1>1. PICK e : e = IF late THEN [c EXCEPT !.deep = D] ELSE c OBVIOUS
<1>2. /\ c \in Clients /\ c.views \in ViewMaps /\ c.deep \in DeepSets
      /\ v \in Frozens
  BY ClientFacts, ViewFacts DEF ClientOK
<1>3. ClientOK(e) /\ Rest(e) = Rest(c) /\ e.views = c.views
  <2>1. CASE late
    <3>1. D \in DeepSets /\ D \subseteq c.deep BY <1>2 DEF DeepSets
    <3>2. e = [c EXCEPT !.deep = D] BY <1>1, <2>1
    <3> HIDE DEF D
    <3>3. /\ e \in Clients /\ Rest(e) = Rest(c) /\ e.views = c.views
          /\ e.deep = D /\ e.out = c.out
      BY <1>2, <3>1, <3>2, SetDeep
    <3>4. QED BY <3>1, <3>3 DEF ClientOK, Placing, Waiting, Rest
  <2>2. CASE ~late BY <1>1, <2>2
  <2>3. QED BY <2>1, <2>2
<1>4. n \in Lengths /\ v.snap.cell \in Positions
  BY <1>2, FrozenFacts, ShotFacts, LineAssumption
  DEF Smaller, Larger, Lengths, Positions
<1>5. \/ d = e
      \/ CanAsk(e) /\ ~Asked(e, p) /\ d = Ask(e, p, v.snap.cell, n)
  BY <1>1 DEF Extend
<1>6. CASE d = e BY <1>3, <1>6
<1>7. CASE CanAsk(e) /\ ~Asked(e, p) /\ d = Ask(e, p, v.snap.cell, n)
  <2> HIDE DEF n, v
  <2>1. QED BY <1>3, <1>4, <1>7, AskOK
<1>8. QED BY <1>5, <1>6, <1>7

\* A view of p that stands on its route.
Viewed(c, V) == [c EXCEPT !.views = V]
LEMMA PlaceOK ==
    ASSUME NEW c, ClientOK(c), NEW p \in DOMAIN c.routes,
           NEW v \in FrozenOf(p), Same(v.snap, c.routes[p]),
           NEW V, V = With(c.views, p, v), NEW d, d = Viewed(c, V)
    PROVE  /\ ClientOK(d) /\ Rest(d) = Rest(c) /\ d.deep = c.deep /\ d.out = c.out
           /\ p \in DOMAIN d.views /\ d.views[p] = v /\ Only(c, d, p)
<1>1. c \in Clients /\ c.views \in ViewMaps /\ p \in Panes
  BY ClientFacts, RouteFacts DEF ClientOK
<1>3. /\ V \in ViewMaps /\ DOMAIN V = DOMAIN c.views \union {p} /\ V[p] = v
      /\ \A q \in DOMAIN c.views \ {p} : V[q] = c.views[q]
  BY <1>1, WithFacts, Z3
<1>5. /\ d \in Clients /\ d.views = V /\ d.deep = c.deep
      /\ Rest(d) = Rest(c) /\ d.out = c.out
  <2>1. V \in ViewMaps BY <1>3
  <2>2. QED BY <1>1, <2>1, SetViews DEF Viewed
<1>6. Placing(d) /\ Waiting(d)
  BY <1>3, <1>5 DEF ClientOK, Placing, Waiting, Rest
<1>7. Only(c, d, p) BY <1>3, <1>5 DEF Only
<1>8. QED BY <1>3, <1>5, <1>6, <1>7 DEF ClientOK, Rest

LEMMA StartOK ==
    ASSUME NEW c, ClientOK(c), NEW p \in DOMAIN c.routes, NEW x \in Positions,
           NEW k \in Nat, NEW d, d = Start(c, p, x, k)
    PROVE  ClientOK(d) /\ Rest(d) = Rest(c) /\ Only(c, d, p)
<1> DEFINE s == IF p \in DOMAIN c.cache /\ Same(c.cache[p], c.routes[p])
                THEN c.cache[p] ELSE c.routes[p]
           limit == Smaller(Len(s.lines), HistoryLimit)
           o == Smaller(Highest(s), k)
           v == [snap |-> s, offset |-> o, limit |-> limit, exhausted |-> FALSE]
<1>1. /\ c.routes \in RouteMaps /\ c.cache \in PerPane(Shots) /\ p \in Panes
      /\ c.routes[p] \in Shots /\ c.routes[p].pane = p
  BY ClientFacts, RouteFacts DEF ClientOK
<1>2. s \in Shots /\ s.pane = p /\ Same(s, c.routes[p])
  BY <1>1, PerPaneFacts DEF Same
<1>3. o \in 0..Highest(s) /\ limit \in Nat
  <2> HIDE DEF s
  <2>1. QED BY <1>2, ShotFacts, LineAssumption DEF Smaller
<1>4. v \in Frozens /\ v.snap = s
  <2> HIDE DEF s, limit, o
  <2>1. QED BY <1>2, <1>3, NewFrozen
<1> HIDE DEF v
<1>5. PICK e : e = CancelPane(c, p) OBVIOUS
<1>6. /\ ClientOK(e) /\ Rest(e) = Rest(c) /\ Only(c, e, p)
      /\ \A y \in e.deep : y.pane # p
  BY <1>5, CancelPaneOK
<1>7. PICK V, f : V = With(e.views, p, v) /\ f = [e EXCEPT !.views = V] OBVIOUS
<1>8. e.routes = c.routes BY <1>6 DEF Rest
<1>9. /\ ClientOK(f) /\ Rest(f) = Rest(e) /\ f.deep = e.deep
      /\ p \in DOMAIN f.views /\ Only(e, f, p)
  <2> HIDE DEF s
  <2>1. v \in FrozenOf(p) /\ Same(v.snap, e.routes[p])
    BY <1>2, <1>4, <1>8 DEF FrozenOf
  <2>2. p \in DOMAIN e.routes /\ ClientOK(e) BY <1>6, <1>8
  <2>3. V = With(e.views, p, v) BY <1>7
  <2>4. f = Viewed(e, V) BY <1>7 DEF Viewed
  <2>5. /\ ClientOK(f) /\ Rest(f) = Rest(e) /\ f.deep = e.deep
        /\ p \in DOMAIN f.views /\ f.views[p] = v /\ Only(e, f, p)
    BY <2>1, <2>2, <2>3, <2>4, PlaceOK
  <2>6. QED BY <2>5
<1>10. Only(c, f, p) BY <1>6, <1>9 DEF Only
<1>11. \/ d = c \/ d = f \/ d = Extend(f, p, FALSE)
       \/ CanAsk(f) /\ d = Ask(f, p, x, InitialLines)
  BY <1>5, <1>7 DEF Start, v
<1>12. CASE d = c BY <1>12 DEF Only
<1>13. CASE d = f
  <2>1. Rest(f) = Rest(c) BY <1>6, <1>9
  <2>2. QED BY <1>9, <1>10, <1>13, <2>1
<1>14. CASE d = Extend(f, p, FALSE)
  <2>1. PICK late : d = Extend(f, p, late) BY <1>14
  <2>2. ClientOK(d) /\ Rest(d) = Rest(f) /\ d.views = f.views
    BY <1>9, <2>1, ExtendOK
  <2>3. QED BY <1>6, <1>9, <1>10, <2>2 DEF Only
<1>15. CASE CanAsk(f) /\ d = Ask(f, p, x, InitialLines)
  <2>1. InitialLines \in Lengths BY LineAssumption DEF Lengths
  <2>2. ~Asked(f, p) BY <1>6, <1>9 DEF Asked
  <2>3. ClientOK(d) /\ Rest(d) = Rest(f) /\ d.views = f.views
    BY <1>9, <1>15, <2>1, <2>2, AskOK
  <2>4. QED BY <1>6, <1>9, <1>10, <2>3 DEF Only
<1>16. QED BY <1>11, <1>12, <1>13, <1>14, <1>15

LEMMA ScrollOK ==
    ASSUME NEW c, ClientOK(c), NEW p \in DOMAIN c.views, NEW dir, NEW k \in Nat,
           NEW late, NEW d, d = Scroll(c, p, dir, k, late)
    PROVE  ClientOK(d) /\ Rest(d) = Rest(c) /\ Only(c, d, p)
<1> DEFINE v == c.views[p]
           o == IF dir = "up" THEN Upward(v, k)
                ELSE IF v.offset < k THEN 0 ELSE v.offset - k
           w == [v EXCEPT !.offset = o]
<1>1. /\ c \in Clients /\ c.views \in ViewMaps /\ v \in Frozens /\ p \in Panes
      /\ v.snap.pane = p
  BY ClientFacts, ViewFacts DEF ClientOK
<1>2. /\ v.snap \in Shots /\ v.offset \in Nat /\ v.offset <= Highest(v.snap)
      /\ Highest(v.snap) \in Nat
  BY <1>1, FrozenFacts, ShotFacts
<1>3. o \in 0..Highest(v.snap)
  BY <1>2 DEF Upward, Smaller
<1>4. w \in FrozenOf(p) /\ w.snap = v.snap
  <2> HIDE DEF o
  <2>1. v \in Views BY <1>1 DEF Frozens
  <2>2. w \in Views /\ w.snap = v.snap /\ w.offset = o
    BY <1>3, <2>1 DEF Views
  <2>3. QED BY <1>1, <1>2, <1>3, <2>2 DEF Frozens, FrozenOf
<1>5. PICK V : V = [c.views EXCEPT ![p] = w] OBVIOUS
<1>6. PICK e : e = Viewed(c, V) OBVIOUS
<1>7. /\ V \in ViewMaps /\ DOMAIN V = DOMAIN c.views /\ V[p] = w
      /\ \A q \in DOMAIN c.views \ {p} : V[q] = c.views[q]
  <2> HIDE DEF w
  <2>1. QED BY <1>1, <1>4, <1>5, ChangedView, Z3
<1>8. /\ e \in Clients /\ e.views = V /\ e.deep = c.deep
      /\ Rest(e) = Rest(c) /\ e.out = c.out
  BY <1>1, <1>6, <1>7, SetViews DEF Viewed
<1>9. ClientOK(e) /\ Only(c, e, p)
  <2> HIDE DEF w
  <2>1. Placing(e)
    BY <1>4, <1>7, <1>8 DEF ClientOK, Placing, Same, Rest
  <2>2. Waiting(e) BY <1>7, <1>8 DEF ClientOK, Waiting
  <2>3. Only(c, e, p) BY <1>7, <1>8 DEF Only
  <2>4. QED BY <1>8, <2>1, <2>2, <2>3 DEF ClientOK, Rest
<1>10. e = [c EXCEPT !.views[p].offset = o]
  <2> HIDE DEF o
  <2>1. c.views[p] = v /\ V = [c.views EXCEPT ![p].offset = o] BY <1>5
  <2>2. QED BY <1>6, <2>1 DEF Viewed
<1>11. d = CancelPane(c, p) \/ d = e \/ d = Extend(e, p, late)
  <2> DEFINE g == [c EXCEPT !.views[p].offset = o]
  <2>1. d = IF o = 0 THEN CancelPane(c, p)
            ELSE IF dir = "up" THEN Extend(g, p, late) ELSE g
    BY Zenon DEF Scroll
  <2>2. e = g BY <1>10
  <2> HIDE DEF g, o
  <2>3. \/ d = CancelPane(c, p) \/ d = Extend(g, p, late) \/ d = g BY <2>1
  <2>4. QED BY <2>2, <2>3, Zenon
<1>12. CASE d = CancelPane(c, p)
  <2>1. PICK f : f = CancelPane(c, p) OBVIOUS
  <2>2. ClientOK(f) /\ Rest(f) = Rest(c) /\ Only(c, f, p)
    BY <2>1, CancelPaneOK
  <2>3. d = f BY <1>12, <2>1
  <2>4. QED BY <2>2, <2>3
<1>13. CASE d = e BY <1>8, <1>9, <1>13
<1>14. CASE d = Extend(e, p, late)
  <2>1. p \in DOMAIN e.views BY <1>7, <1>8
  <2>2. ClientOK(d) /\ Rest(d) = Rest(e) /\ d.views = e.views
    BY <1>9, <1>14, <2>1, ExtendOK
  <2>3. QED BY <1>8, <1>9, <2>2 DEF Only
<1>15. QED BY <1>11, <1>12, <1>13, <1>14

\* What the user's wheel turns is one pane.
LEMMA WheelOK ==
    ASSUME NEW c, ClientOK(c), NEW x \in Positions, NEW dir, NEW k \in Nat,
           NEW late, NEW d, d = Wheel(c, x, dir, k, late)
    PROVE  ClientOK(d) /\ Rest(d) = Rest(c) /\ \E p \in Panes : Only(c, d, p)
<1>1. \/ d = c \/ d = Refresh(c) \/ d = Forward(c, "wheel", x)
      \/ \E p \in RouteAt(c, x) :
           \/ p \in DOMAIN c.views /\ d = Scroll(c, p, dir, k, late)
           \/ d = Start(c, p, x, k)
  BY DEF Wheel
<1>2. CASE d.views = c.views /\ ClientOK(d) /\ Rest(d) = Rest(c)
  BY <1>2, PaneAssumption DEF Only
<1>3. CASE d = c BY <1>2, <1>3
<1>4. CASE d = Refresh(c) BY <1>2, <1>4, RefreshOK
<1>5. CASE d = Forward(c, "wheel", x) BY <1>2, <1>5, ForwardOK
<1>6. ASSUME NEW p \in RouteAt(c, x),
             \/ p \in DOMAIN c.views /\ d = Scroll(c, p, dir, k, late)
             \/ d = Start(c, p, x, k)
      PROVE  ClientOK(d) /\ Rest(d) = Rest(c) /\ \E q \in Panes : Only(c, d, q)
  <2>1. p \in DOMAIN c.routes /\ p \in Panes
    BY ClientFacts, RouteFacts DEF RouteAt, ClientOK
  <2>2. QED BY <1>6, <2>1, ScrollOK, StartOK
<1>7. QED BY <1>1, <1>3, <1>4, <1>5, <1>6

LEMMA WheelEventOK ==
    ASSUME NEW c, ClientOK(c), NEW x \in Positions, NEW dir, NEW k \in Nat,
           NEW late, NEW d, d = WheelEvent(c, x, dir, k, late)
    PROVE  ClientOK(d) /\ Rest(d) = Rest(c) /\ \E p \in Panes : Only(c, d, p)
<1>1. \/ d = c \/ d = Forward(c, "wheel", x) \/ d = Wheel(c, x, dir, k, late)
  BY DEF WheelEvent
<1>2. CASE d = c BY <1>2, PaneAssumption DEF Only
<1>3. CASE d = Forward(c, "wheel", x)
  BY <1>3, ForwardOK, PaneAssumption DEF Only
<1>4. CASE d = Wheel(c, x, dir, k, late) BY <1>4, WheelOK
<1>5. QED BY <1>1, <1>2, <1>3, <1>4

\* The client's other operators leave every view as it is or end it; only an
\* answer may change one, as PaneView allows.
LEMMA FewerRefl == ASSUME NEW c, NEW d, d.views = c.views PROVE Fewer(c, d)
BY DEF Fewer

LEMMA BarEventOK ==
    ASSUME NEW c, ClientOK(c), NEW w \in {"press", "drag", "release"},
           NEW d, d = BarEvent(c, w)
    PROVE  ClientOK(d) /\ d.epoch >= c.epoch /\ Fewer(c, d)
<1>1. c.epoch \in Nat BY ClientFacts DEF ClientOK
<1>2. Bar \in Positions BY DEF Positions
<1>3. CASE w = "press"
  <2>1. PICK e, f : e = Invalidated(c) /\ f = Forward(e, w, Bar) OBVIOUS
  <2>2. ClientOK(e) /\ e.views = Nothing /\ e.epoch = c.epoch + 1
    BY <2>1, InvalidatedOK
  <2>3. ClientOK(f) /\ f.views = Nothing /\ Rest(f) = Rest(e)
    BY <1>2, <2>1, <2>2, ForwardOK
  <2>4. d = Refresh(f) BY <1>3, <2>1 DEF BarEvent
  <2>5. ClientOK(d) /\ d.views = Nothing /\ Rest(d) = Rest(f)
    BY <2>3, <2>4, RefreshOK
  <2>6. d.epoch = c.epoch + 1 BY <2>2, <2>3, <2>5 DEF Rest
  <2>7. QED BY <1>1, <2>5, <2>6, NothingFacts DEF Fewer
<1>4. CASE w # "press"
  <2>1. d = Forward(c, w, Bar) BY <1>4 DEF BarEvent
  <2>2. ClientOK(d) /\ d.views = c.views /\ Rest(d) = Rest(c)
    BY <1>2, <2>1, ForwardOK
  <2>3. QED BY <1>1, <2>2 DEF Fewer, Rest
<1>5. QED BY <1>3, <1>4

LEMMA CapturedOK ==
    ASSUME NEW c, ClientOK(c), NEW w \in {"press", "drag", "release"},
           NEW x \in Positions, NEW d, d = Captured(c, w, x)
    PROVE  ClientOK(d) /\ Rest(d) = Rest(c) /\ Fewer(c, d)
<1>1. PICK e : e = [c EXCEPT !.capture = "none"] OBVIOUS
<1>2. ClientOK(e) /\ Rest(e) = Rest(c) /\ e.views = c.views
  BY <1>1, CaptureOK
<1>3. d = c \/ d = e \/ d = Forward(e, w, x) \/ d = Forward(c, w, x)
  BY <1>1 DEF Captured
<1>4. CASE d = c \/ d = e BY <1>2, <1>4 DEF Fewer
<1>5. CASE d = Forward(e, w, x)
  <2>1. ClientOK(d) /\ Rest(d) = Rest(e) /\ d.views = e.views
    BY <1>2, <1>5, ForwardOK
  <2>2. QED BY <1>2, <2>1 DEF Fewer
<1>6. CASE d = Forward(c, w, x)
  <2>1. ClientOK(d) /\ Rest(d) = Rest(c) /\ d.views = c.views
    BY <1>6, ForwardOK
  <2>2. QED BY <2>1 DEF Fewer
<1>7. QED BY <1>3, <1>4, <1>5, <1>6

\* A press that is taken: k says by whom.
LEMMA TakenOK ==
    ASSUME NEW c, ClientOK(c), NEW k \in {"agent", "other"}, NEW x \in Positions,
           NEW d, d = Refresh(Forward([c EXCEPT !.capture = k], "press", x))
    PROVE  ClientOK(d) /\ Rest(d) = Rest(c) /\ d.views = c.views
<1>1. PICK e : e = [c EXCEPT !.capture = k] OBVIOUS
<1>2. ClientOK(e) /\ Rest(e) = Rest(c) /\ e.views = c.views
  BY <1>1, CaptureOK
<1>3. PICK f : f = Forward(e, "press", x) OBVIOUS
<1>4. ClientOK(f) /\ Rest(f) = Rest(e) /\ f.views = e.views
  BY <1>2, <1>3, ForwardOK
<1>5. d = Refresh(f) BY <1>1, <1>3
<1>6. ClientOK(d) /\ Rest(d) = Rest(f) /\ d.views = f.views
  BY <1>4, <1>5, RefreshOK
<1>7. QED BY <1>2, <1>4, <1>6

LEMMA PressOK ==
    ASSUME NEW c, ClientOK(c), NEW x \in Positions, NEW d, d = Press(c, x)
    PROVE  ClientOK(d) /\ d.epoch >= c.epoch /\ Fewer(c, d)
<1> DEFINE Taken(e, k) == Refresh(Forward([e EXCEPT !.capture = k], "press", x))
<1>1. c.epoch \in Nat BY ClientFacts DEF ClientOK
<1>2. \/ d = Taken(c, "agent") \/ d = [c EXCEPT !.capture = "local"]
      \/ d = Taken(Invalidated(c), "other")
  BY Zenon DEF Press
<1>3. CASE d = Taken(c, "agent")
  <2>1. ClientOK(d) /\ Rest(d) = Rest(c) /\ d.views = c.views
    BY <1>3, TakenOK, Zenon
  <2>2. QED BY <1>1, <2>1 DEF Fewer, Rest
<1>4. CASE d = [c EXCEPT !.capture = "local"]
  <2>1. ClientOK(d) /\ Rest(d) = Rest(c) /\ d.views = c.views
    BY <1>4, CaptureOK
  <2>2. QED BY <1>1, <2>1 DEF Fewer, Rest
<1>5. CASE d = Taken(Invalidated(c), "other")
  <2>1. PICK e : e = Invalidated(c) OBVIOUS
  <2>2. ClientOK(e) /\ e.views = Nothing /\ e.epoch = c.epoch + 1
    BY <2>1, InvalidatedOK
  <2>3. d = Taken(e, "other") BY <1>5, <2>1, Zenon
  <2> HIDE <1>5
  <2>4. ClientOK(d) /\ Rest(d) = Rest(e) /\ d.views = e.views
    BY <2>2, <2>3, TakenOK, Zenon
  <2>5. d.epoch = c.epoch + 1 /\ d.views = Nothing BY <2>2, <2>4 DEF Rest
  <2>6. QED BY <1>1, <2>4, <2>5, NothingFacts DEF Fewer
<1>6. QED BY <1>2, <1>3, <1>4, <1>5

LEMMA ButtonOK ==
    ASSUME NEW c, ClientOK(c), NEW w \in {"press", "drag", "release"},
           NEW x \in Positions, NEW d, d = Button(c, w, x)
    PROVE  ClientOK(d) /\ d.epoch >= c.epoch /\ Fewer(c, d)
<1>1. c.epoch \in Nat BY ClientFacts DEF ClientOK
<1>2. \/ d = BarEvent(c, w) \/ d = Captured(c, w, x)
      \/ d = Press(c, x) \/ d = c
  BY DEF Button
<1>3. CASE d = BarEvent(c, w) BY <1>3, BarEventOK
<1>4. CASE d = Captured(c, w, x)
  <2>1. ClientOK(d) /\ Rest(d) = Rest(c) /\ Fewer(c, d) BY <1>4, CapturedOK
  <2>2. QED BY <1>1, <2>1 DEF Rest
<1>5. CASE d = Press(c, x) BY <1>5, PressOK
<1>6. CASE d = c BY <1>1, <1>6 DEF Fewer
<1>7. QED BY <1>2, <1>3, <1>4, <1>5, <1>6

LEMMA KeyOK ==
    ASSUME NEW c, ClientOK(c), NEW w, NEW d, d = Key(c, w)
    PROVE  ClientOK(d) /\ d.epoch >= c.epoch /\ Fewer(c, d)
<1>1. c.epoch \in Nat BY ClientFacts DEF ClientOK
<1>2. PICK e, f : e = Invalidated(c) /\ f = Typed(c) OBVIOUS
<1>3. \/ d = Cancel(c) \/ d = Refresh(Forward(e, "key", None))
      \/ d = Forward(f, "key", None) \/ d = Forward(c, "key", None)
  BY <1>2 DEF Key
<1>4. CASE d = Cancel(c)
  <2>1. ClientOK(d) /\ Rest(d) = Rest(c) /\ d.views = Nothing BY <1>4, CancelOK
  <2>2. QED BY <1>1, <2>1, NothingFacts DEF Rest, Fewer
<1>5. CASE d = Refresh(Forward(e, "key", None))
  <2>1. ClientOK(e) /\ e.views = Nothing /\ e.epoch = c.epoch + 1
    BY <1>2, InvalidatedOK
  <2>2. PICK g : g = Forward(e, "key", None) OBVIOUS
  <2>3. ClientOK(g) /\ g.views = Nothing /\ Rest(g) = Rest(e)
    BY <2>1, <2>2, ForwardOK
  <2>4. ClientOK(d) /\ d.views = Nothing /\ Rest(d) = Rest(g)
    BY <1>5, <2>2, <2>3, RefreshOK
  <2>5. QED BY <1>1, <2>1, <2>3, <2>4, NothingFacts DEF Rest, Fewer
<1>6. CASE d = Forward(f, "key", None)
  <2>1. f = Cancel(c) \/ \E p : f = CancelPane(c, p)
    BY <1>2 DEF Typed
  <2>2. ClientOK(f) /\ Rest(f) = Rest(c) /\ Fewer(c, f)
    <3>1. CASE f = Cancel(c)
      <4>1. ClientOK(f) /\ Rest(f) = Rest(c) /\ f.views = Nothing
        BY <3>1, CancelOK
      <4>2. QED BY <4>1, NothingFacts DEF Fewer
    <3>2. ASSUME NEW p, f = CancelPane(c, p)
          PROVE  ClientOK(f) /\ Rest(f) = Rest(c) /\ Fewer(c, f)
      BY <3>2, CancelPaneOK
    <3>3. QED BY <2>1, <3>1, <3>2
  <2>3. ClientOK(d) /\ d.views = f.views /\ Rest(d) = Rest(f)
    BY <1>6, <2>2, ForwardOK
  <2>4. QED BY <1>1, <2>2, <2>3 DEF Rest, Fewer
<1>7. CASE d = Forward(c, "key", None)
  <2>1. ClientOK(d) /\ d.views = c.views /\ Rest(d) = Rest(c)
    BY <1>7, ForwardOK
  <2>2. QED BY <1>1, <2>1 DEF Rest, Fewer
<1>8. QED BY <1>3, <1>4, <1>5, <1>6, <1>7

LEMMA ResizedOK ==
    ASSUME NEW c, ClientOK(c), NEW d, d = Resized(c)
    PROVE  ClientOK(d) /\ d.epoch >= c.epoch /\ Fewer(c, d)
<1>1. c.epoch \in Nat BY ClientFacts DEF ClientOK
<1>2. PICK e : e = Invalidated(c) OBVIOUS
<1>3. ClientOK(e) /\ e.views = Nothing /\ e.epoch = c.epoch + 1
  BY <1>2, InvalidatedOK
<1>4. PICK f : f = [e EXCEPT !.cache = Nothing] OBVIOUS
<1>5. ClientOK(f) /\ f.views = Nothing /\ f.epoch = e.epoch
  <2>1. e \in Clients BY <1>3 DEF ClientOK
  <2>2. /\ f \in Clients /\ f.views = e.views /\ f.deep = e.deep
        /\ f.epoch = e.epoch /\ f.routes = e.routes /\ f.stamp = e.stamp
        /\ f.cache = Nothing /\ f.out = e.out
    BY <2>1, <1>4, NothingFacts DEF Clients
  <2>3. Cardinality(DOMAIN f.cache) <= CacheLimit
    BY <2>2, NothingFacts, FS_EmptySet, LineAssumption
  <2>4. QED BY <1>3, <2>2, <2>3 DEF ClientOK, Placing, Waiting
<1>6. PICK g : g = Forward(f, "resize", None) OBVIOUS
<1>7. ClientOK(g) /\ g.views = Nothing /\ Rest(g) = Rest(f)
  BY <1>5, <1>6, ForwardOK
<1>8. d = Refresh(g) BY <1>2, <1>4, <1>6, Zenon DEF Resized
<1>9. ClientOK(d) /\ d.views = Nothing /\ Rest(d) = Rest(g)
  BY <1>7, <1>8, RefreshOK
<1>10. QED BY <1>1, <1>3, <1>5, <1>7, <1>9, NothingFacts DEF Rest, Fewer

LEMMA AcceptPrefetchOK ==
    ASSUME NEW c, ClientOK(c), NEW m, m.panes \in RouteMaps, m.after \in 1..c.epoch,
           NEW cache \in PerPane(Shots), Cardinality(DOMAIN cache) <= CacheLimit,
           NEW d, d = AcceptPrefetch(c, m, cache)
    PROVE  ClientOK(d) /\ d.epoch = c.epoch /\ Fewer(c, d)
<1>1. CASE ~Expected(c, m) BY <1>1 DEF AcceptPrefetch, Fewer
<1>2. CASE Expected(c, m)
  <2> DEFINE S == Misplaced(c, m.panes)
             D == {x \in c.deep : x.pane \notin S}
  <2>1. /\ c \in Clients /\ c.views \in ViewMaps /\ c.deep \in DeepSets
        /\ m.after \in Nat /\ m.after <= c.epoch
    BY ClientFacts DEF ClientOK
  <2>2. PICK e : e = [c EXCEPT !.prefetch = None, !.asked = None,
                       !.routes = m.panes, !.ready = TRUE, !.stamp = m.after,
                       !.cache = cache]
    OBVIOUS
  <2>3. /\ e \in Clients /\ e.views = c.views /\ e.deep = c.deep
        /\ e.epoch = c.epoch /\ e.routes = m.panes /\ e.stamp = m.after
        /\ e.cache = cache /\ e.out = c.out
    BY <2>1, <2>2 DEF Clients
  <2>4. PICK V : V = Without(c.views, S) OBVIOUS
  <2>5. /\ V \in ViewMaps /\ DOMAIN V = DOMAIN c.views \ S
        /\ \A p \in DOMAIN V : V[p] = c.views[p]
    <3> HIDE DEF S
    <3>1. QED BY <2>1, <2>4, WithoutFacts
  <2>6. D \in DeepSets BY <2>1 DEF DeepSets
  <2>7. d = [e EXCEPT !.views = V, !.deep = D]
    BY <1>2, <2>2, <2>3, <2>4 DEF AcceptPrefetch
  <2>8. PICK f : f = [e EXCEPT !.views = V] OBVIOUS
  <2>9. /\ f \in Clients /\ f.views = V /\ Rest(f) = Rest(e) /\ f.out = e.out
    BY <2>3, <2>5, <2>8, SetViews
  <2>10. /\ d \in Clients /\ d.views = V /\ d.deep = D /\ Rest(d) = Rest(e)
         /\ d.out = e.out
    <3> HIDE DEF D
    <3>1. d = [f EXCEPT !.deep = D] BY <2>7, <2>8
    <3>2. /\ d \in Clients /\ d.views = f.views /\ d.deep = D
          /\ Rest(d) = Rest(f) /\ d.out = f.out
      BY <2>6, <2>9, <3>1, SetDeep
    <3>3. QED BY <2>9, <3>2
  <2>11. Placing(d)
    BY <2>3, <2>5, <2>10 DEF Placing, Misplaced, Rest
  <2>12. Waiting(d)
    BY <2>5, <2>10 DEF ClientOK, Waiting
  <2>13. Fewer(c, d) BY <2>5, <2>10 DEF Fewer
  <2>14. QED
    BY <2>1, <2>3, <2>10, <2>11, <2>12, <2>13 DEF ClientOK, Rest
<1>3. QED BY <1>1, <1>2

-----------------------------------------------------------------------------
(* The answer to a request for more *)

\* The rows that vote for a place are the landmarks of PaneView.
LEMMA TellingRows ==
    ASSUME NEW rows \in [1..Height -> Texts]
    PROVE  Telling(rows) = View!Landmarks(rows)
<1>1. ASSUME NEW i \in 1..Height
      PROVE  Once(rows, rows[i])
               <=> \A j \in 1..Height : rows[j] = rows[i] => j = i
  <2> DEFINE T == {j \in 1..Height : rows[j] = rows[i]}
  <2>1. T = {j \in DOMAIN rows : rows[j] = rows[i]} /\ i \in T OBVIOUS
  <2>2. IsFiniteSet(T)
    <3>1. IsFiniteSet(1..Height) BY LineAssumption, FS_Interval
    <3>2. QED BY <3>1, FS_Subset
  <2>3. Once(rows, rows[i]) <=> Cardinality(T) = 1 BY <2>1 DEF Once
  <2>4. ASSUME Cardinality(T) = 1, NEW j \in T PROVE j = i
    <3>1. PICK x : T = {x} BY <2>2, <2>4, FS_Singleton
    <3>2. QED BY <2>1, <2>4, <3>1
  <2>5. ASSUME \A j \in T : j = i PROVE Cardinality(T) = 1
    <3>1. T = {i} BY <2>1, <2>5
    <3>2. QED BY <3>1, FS_Singleton
  <2>6. QED BY <2>3, <2>4, <2>5
<1>2. QED BY <1>1 DEF Telling, View!Landmarks

\* A place that aligned_offset returns shows the same rows, or leaves the reader
\* his place.
LEMMA AlignedKeeps ==
    ASSUME NEW q \in Seq(Texts), NEW rows \in [1..Height -> Texts],
           NEW s \in Aligned(q, rows)
    PROVE  /\ s \in Nat /\ s + Height <= Len(q)
           /\ View!Kept(rows, [i \in 1..Height |-> q[s + i]])
<1> DEFINE new == [i \in 1..Height |-> q[s + i]]
<1>1. s \in Exact(q, rows) \/ s \in Winners(q, rows)
  BY DEF Aligned
<1>2. s \in Nat /\ s + Height <= Len(q)
  BY <1>1, LineAssumption DEF Exact, Winners, Starts
<1>3. CASE s \in Exact(q, rows)
  <2>1. \A i \in 1..Height : new[i] = rows[i] BY <1>3 DEF Exact
  <2>2. new = rows BY <2>1
  <2>3. QED BY <1>2, <2>2 DEF View!Kept
<1>4. CASE s \in Winners(q, rows)
  <2> DEFINE V == {i \in Telling(rows) : Once(q, rows[i]) /\ q[s + i] = rows[i]}
             S == View!Staying(rows, new)
             L == View!Landmarks(rows)
  <2>1. IsFiniteSet(1..Height) BY LineAssumption, FS_Interval
  <2>2. Telling(rows) = L /\ L \subseteq 1..Height
    BY TellingRows DEF View!Landmarks
  <2>3. V \subseteq S /\ S \subseteq 1..Height
    BY <2>2 DEF View!Staying
  <2>4. IsFiniteSet(V) /\ IsFiniteSet(S) /\ IsFiniteSet(L)
        /\ Cardinality(V) <= Cardinality(S)
    BY <2>1, <2>2, <2>3, FS_Subset
  <2>5. /\ Cardinality(V) \in Nat /\ Cardinality(S) \in Nat
        /\ Cardinality(L) \in Nat
    BY <2>4, FS_CardinalityType
  <2>6. Cardinality(V) >= Larger(2, (Cardinality(L) + 1) \div 2)
    BY <1>4, <2>2 DEF Winners, Votes
  <2> HIDE DEF V, S, L
  <2>7. Cardinality(S) >= 2 /\ 2 * Cardinality(S) >= Cardinality(L)
    BY <2>4, <2>5, <2>6 DEF Larger
  <2>8. View!Kept(rows, new)
    <3> HIDE DEF new
    <3>1. \A T : View!Cardinality(T) = Cardinality(T)
      BY DEF View!Cardinality, Cardinality
    <3>2. QED BY <2>7, <3>1 DEF View!Kept, S, L
  <2>9. QED BY <1>2, <2>8
<1>5. QED BY <1>1, <1>3, <1>4

\* No pane begins to stand still, and one that does leaves the reader his place.
Calm(c, d) ==
    \A p \in DOMAIN d.views :
        /\ p \in DOMAIN c.views
        /\ View!Kept(Shown(c.views[p]), Shown(d.views[p]))

LEMMA FewerCalm == ASSUME NEW c, NEW d, Fewer(c, d) PROVE Calm(c, d)
BY DEF Fewer, Calm, View!Kept

\* The answer that replaces the text under a view.
LEMMA ReplacedOK ==
    ASSUME NEW c, ClientOK(c), NEW s \in Shots, NEW p, p = s.pane,
           p \in DOMAIN c.views, p \in DOMAIN c.routes, Same(c.routes[p], s),
           NEW a \in Aligned(s.lines, Shown(c.views[p])), NEW n \in Nat,
           NEW b \in BOOLEAN,
           NEW w, w = [snap |-> s, offset |-> Highest(s) - a, limit |-> n,
                       exhausted |-> b],
           NEW V, V = [c.views EXCEPT ![p] = w], NEW d, d = Viewed(c, V)
    PROVE  /\ ClientOK(d) /\ Rest(d) = Rest(c) /\ p \in DOMAIN d.views
           /\ Calm(c, d)
<1>1. /\ c \in Clients /\ c.views \in ViewMaps /\ p \in Panes
      /\ \A q \in DOMAIN c.views : c.views[q] \in Frozens
  BY ClientFacts, ViewFacts DEF ClientOK
<1>2. s.lines \in Seq(Texts) /\ Shown(c.views[p]) \in [1..Height -> Texts]
  BY <1>1, ShotFacts, ShownRows
<1>3. /\ a \in Nat /\ a + Height <= Len(s.lines)
      /\ View!Kept(Shown(c.views[p]), [i \in 1..Height |-> s.lines[a + i]])
  BY <1>2, AlignedKeeps
<1>4. Len(s.lines) \in Nat /\ Height \in Nat BY ShotFacts
<1>5. Highest(s) - a \in 0..Highest(s) BY <1>3, <1>4 DEF Highest
<1>6. w \in FrozenOf(p) /\ w.snap = s /\ w.offset = Highest(s) - a
  <2>1. w \in Frozens BY <1>5, NewFrozen
  <2>2. QED BY <2>1 DEF FrozenOf
<1>7. Shown(w) = [i \in 1..Height |-> s.lines[a + i]]
  <2>1. \A i \in 1..Height : Bottom(w) - Height + i = a + i
    BY <1>3, <1>4, <1>6 DEF Bottom, Highest
  <2>2. \A i \in 1..Height : w.snap.lines[Bottom(w) - Height + i] = s.lines[a + i]
    BY <1>6, <2>1
  <2>3. QED BY <2>2 DEF Shown
<1>8. /\ V \in ViewMaps /\ DOMAIN V = DOMAIN c.views /\ V[p] = w
      /\ \A q \in DOMAIN c.views \ {p} : V[q] = c.views[q]
  BY <1>1, <1>6, ChangedView, Z3
<1>9. /\ d \in Clients /\ d.views = V /\ d.deep = c.deep
      /\ Rest(d) = Rest(c) /\ d.out = c.out
  BY <1>1, <1>8, SetViews DEF Viewed
<1>10. Placing(d)
  BY <1>6, <1>8, <1>9 DEF ClientOK, Placing, Same, Rest
<1>11. Waiting(d) BY <1>8, <1>9 DEF ClientOK, Waiting
<1>12. Calm(c, d)
  <2>1. ASSUME NEW q \in DOMAIN d.views
        PROVE  /\ q \in DOMAIN c.views
               /\ View!Kept(Shown(c.views[q]), Shown(d.views[q]))
    <3>1. CASE q = p BY <1>3, <1>7, <1>8, <1>9, <3>1
    <3>2. CASE q # p BY <1>8, <1>9, <3>2 DEF View!Kept
    <3>3. QED BY <3>1, <3>2
  <2>2. QED BY <2>1 DEF Calm
<1>13. QED BY <1>8, <1>9, <1>10, <1>11, <1>12 DEF ClientOK, Rest

LEMMA AcceptOK ==
    ASSUME NEW c, ClientOK(c), NEW m, m.snap \in Shots \union {None},
           NEW cache \in PerPane(Shots), Cardinality(DOMAIN cache) <= CacheLimit,
           NEW late, NEW d, d = Accept(c, m, cache, late)
    PROVE  ClientOK(d) /\ d.epoch = c.epoch /\ Calm(c, d)
<1> DEFINE asked == {x \in c.deep : x.id = m.id}
           D == c.deep \ asked
           s == m.snap
           p == s.pane
           n == (CHOOSE x \in asked : TRUE).lines
<1>1. c \in Clients /\ c.deep \in DeepSets BY ClientFacts DEF ClientOK
<1>2. D \in DeepSets /\ D \subseteq c.deep BY <1>1 DEF DeepSets
<1>3. PICK c1 : c1 = [c EXCEPT !.deep = D] OBVIOUS
<1>4. ClientOK(c1) /\ Rest(c1) = Rest(c) /\ c1.views = c.views
  <2> HIDE DEF D
  <2>1. /\ c1 \in Clients /\ Rest(c1) = Rest(c) /\ c1.views = c.views
        /\ c1.deep = D /\ c1.out = c.out
    BY <1>1, <1>2, <1>3, SetDeep
  <2>2. QED BY <1>2, <2>1 DEF ClientOK, Placing, Waiting, Rest
<1>5. PICK c2 : c2 = [c1 EXCEPT !.cache = cache] OBVIOUS
<1>6. /\ ClientOK(c2) /\ c2.views = c.views /\ c2.epoch = c.epoch
      /\ c2.routes = c.routes
  <2>1. c1 \in Clients BY <1>4 DEF ClientOK
  <2>2. /\ c2 \in Clients /\ c2.views = c1.views /\ c2.deep = c1.deep
        /\ c2.epoch = c1.epoch /\ c2.routes = c1.routes /\ c2.stamp = c1.stamp
        /\ c2.cache = cache /\ c2.out = c1.out
    BY <1>5, <2>1 DEF Clients
  <2>3. QED BY <1>4, <2>2 DEF ClientOK, Placing, Waiting, Rest
<1>7. CASE d = c1
  <2>1. QED BY <1>4, <1>7, FewerCalm, FewerRefl DEF Rest
<1>8. CASE d = c2
  <2>1. QED BY <1>6, <1>8, FewerCalm, FewerRefl
<1>9. CASE d = CancelPane(c2, p)
  <2>0. PICK q : q = p OBVIOUS
  <2>1. PICK f : f = CancelPane(c2, q) OBVIOUS
  <2>2. ClientOK(f) /\ Rest(f) = Rest(c2) /\ Fewer(c2, f)
    BY <1>6, <2>1, CancelPaneOK
  <2>3. d = f BY <1>9, <2>0, <2>1
  <2>4. Fewer(c, d) BY <1>6, <2>2, <2>3 DEF Fewer
  <2>5. QED BY <1>6, <2>2, <2>3, <2>4, FewerCalm DEF Rest
<1>10. ASSUME asked # {}, s # None, p \in DOMAIN c.routes, Same(c.routes[p], s),
              p \in DOMAIN c2.views, NEW a \in Aligned(s.lines, Shown(c2.views[p])),
              NEW b \in BOOLEAN, NEW w,
              w = [snap |-> s, offset |-> Highest(s) - a, limit |-> n,
                   exhausted |-> b],
              NEW V, V = [c2.views EXCEPT ![p] = w], NEW e, e = Viewed(c2, V),
              d = Extend(e, p, late)
       PROVE  ClientOK(d) /\ d.epoch = c.epoch /\ Calm(c, d)
  <2>1. s \in Shots BY <1>10
  <2>2. n \in Nat BY <1>1, <1>10 DEF DeepSets, Deeps, Lengths
  <2>3. /\ ClientOK(e) /\ Rest(e) = Rest(c2) /\ p \in DOMAIN e.views
        /\ Calm(c2, e)
    <3> HIDE DEF asked, n, s
    <3>1. PICK q : q = s.pane OBVIOUS
    <3>2. /\ q \in DOMAIN c2.views /\ q \in DOMAIN c2.routes
          /\ Same(c2.routes[q], s) /\ a \in Aligned(s.lines, Shown(c2.views[q]))
          /\ V = [c2.views EXCEPT ![q] = w]
      BY <1>6, <1>10, <3>1
    <3>3. w = [snap |-> s, offset |-> Highest(s) - a, limit |-> n, exhausted |-> b]
      BY <1>10
    <3>4. e = Viewed(c2, V) BY <1>10
    <3>5. /\ ClientOK(e) /\ Rest(e) = Rest(c2) /\ q \in DOMAIN e.views
          /\ Calm(c2, e)
      BY <1>6, <2>1, <2>2, <3>1, <3>2, <3>3, <3>4, ReplacedOK
    <3>6. QED BY <3>1, <3>5
  <2>4. ClientOK(d) /\ Rest(d) = Rest(e) /\ d.views = e.views
    BY <1>10, <2>3, ExtendOK
  <2>5. QED BY <1>6, <2>3, <2>4 DEF Calm, Rest
<1>11. CASE d # c1 /\ d # c2 /\ d # CancelPane(c2, p)
  <2> DEFINE v == c2.views[p]
             at == Aligned(s.lines, Shown(v))
             b == Len(s.lines) < n \/ n >= HistoryLimit
             a == CHOOSE x \in at : TRUE
             w == [snap |-> s, offset |-> Highest(s) - a, limit |-> n,
                   exhausted |-> b]
             V == [c2.views EXCEPT ![p] = w]
             e == [c2 EXCEPT !.views[p] = w]
  <2>1. /\ asked # {} /\ s # None /\ p \in DOMAIN c.routes
        /\ Same(c.routes[p], s) /\ p \in DOMAIN c2.views /\ at # {}
        /\ d = Extend(e, p, late)
    BY <1>3, <1>5, <1>11, Zenon DEF Accept
  <2>2. a \in at BY <2>1
  <2>3. b \in BOOLEAN OBVIOUS
  <2>4. e = Viewed(c2, V) BY DEF Viewed
  <2> HIDE DEF asked, n, s, e, V, a, b
  <2>5. QED BY <1>10, <2>1, <2>2, <2>3, <2>4 DEF V
<1>12. QED BY <1>7, <1>8, <1>9, <1>11

-----------------------------------------------------------------------------
(* The steps *)

LEMMA UpFacts ==
    ASSUME NEW E \in SUBSET Nat, NEW m \in Ups(E)
    PROVE  /\ m.kind = "input" => m.after \in E
           /\ m.kind = "prefetch" => m.id \in Ids
           /\ m.kind = "request" => m.id \in Ids /\ m.lines \in Lengths
BY DEF Ups

LEMMA DownFacts ==
    ASSUME NEW E \in SUBSET Nat, NEW m \in Downs(E)
    PROVE  /\ m.kind = "batch" => m.panes \in RouteMaps /\ m.after \in E
           /\ m.kind = "answer" => m.snap \in Shots \union {None}
           /\ m.kind = "screen" => m.cursor \in Positions /\ m.bar \in BOOLEAN
BY DEF Downs

LEMMA SpendFacts ==
    ASSUME spent \in [Events -> Nat], NEW e \in Events, Spend(e)
    PROVE  /\ spent' \in [Events -> Nat] /\ spent'[e] = spent[e] + 1
           /\ \A x \in Events \ {e} : spent'[x] = spent[x]
BY DEF Spend

LEMMA InitHistory == Init => HistoryInv
<1> SUFFICES ASSUME Init PROVE HistoryInv
  OBVIOUS
<1>1. {} \in DeepSets /\ <<>> \in Seq(Ups(Nat)) /\ <<>> \in Seq(Ups(1..1))
      /\ <<>> \in Seq(Downs(1..1))
  BY DEF DeepSets
<1>2. FreshClient \in Clients
  BY <1>1, NothingFacts DEF FreshClient, Clients
<1>3. ClientOK(cli)
  BY <1>1, <1>2, NothingFacts, FS_EmptySet, LineAssumption
  DEF Init, ClientOK, FreshClient, Placing, Waiting
<1>4. cli.epoch = 1 /\ cli.out = <<>> BY DEF Init, FreshClient
<1>5. srv \in [layout : Layouts, after : 1..cli.epoch, dirty : BOOLEAN,
               text : [Panes -> {t \in Seq(Texts) : Len(t) >= Height}]]
  <2>1. srv \in [layout : {FirstLayout}, text : Scrollbacks, after : {1},
                 dirty : {TRUE}]
    BY DEF Init
  <2>2. srv.text \in [Panes -> {t \in Seq(Texts) : Len(t) >= Height}]
    BY <2>1, TextAssumption
  <2>3. 1 \in 1..cli.epoch BY <1>4
  <2>4. srv.layout \in Layouts /\ srv.after \in 1..cli.epoch /\ srv.dirty \in BOOLEAN
    BY <2>1, <2>3, LayoutAssumption
  <2>5. srv = [layout |-> srv.layout, text |-> srv.text, after |-> srv.after,
               dirty |-> srv.dirty]
    BY <2>1
  <2>6. QED BY <2>2, <2>4, <2>5
<1>6. QED BY <1>1, <1>3, <1>4, <1>5 DEF Init, HistoryInv, Events

\* What a step of the client needs to preserve the invariant.
LEMMA ClientStep ==
    ASSUME HistoryInv, NEW d, ClientOK(d), d.epoch >= cli.epoch,
           cli' = [d EXCEPT !.out = <<>>], up' = up \o d.out,
           srv' = srv, down' = down \/ (down # <<>> /\ down' = Tail(down)),
           held' \in {None, "agent", "other"}, spent' \in [Events -> Nat]
    PROVE  HistoryInv' /\ cli'.views = d.views
<1>1. /\ d \in Clients /\ d.epoch \in Nat /\ cli.epoch \in Nat
      /\ d.out \in Seq(Ups(1..d.epoch))
  BY ClientFacts DEF HistoryInv, ClientOK
<1>2. <<>> \in Seq(Ups(Nat)) /\ <<>> \in Seq(Ups(1..d.epoch)) OBVIOUS
<1>3. /\ cli' \in Clients /\ cli'.views = d.views /\ cli'.deep = d.deep
      /\ cli'.epoch = d.epoch /\ cli'.routes = d.routes /\ cli'.stamp = d.stamp
      /\ cli'.cache = d.cache /\ cli'.out = <<>>
  BY <1>1, <1>2 DEF Clients
<1>4. ClientOK(cli)'
  BY <1>2, <1>3 DEF ClientOK, Placing, Waiting
<1> DEFINE E == 1..cli.epoch
           F == 1..d.epoch
<1>5. E \subseteq F BY <1>1
<1>6. /\ up \in Seq(Ups(F)) /\ down \in Seq(Downs(F))
      /\ srv.after \in F
  <2>1. up \in Seq(Ups(E)) /\ down \in Seq(Downs(E)) /\ srv.after \in E
    BY DEF HistoryInv
  <2> HIDE DEF E, F
  <2>2. QED BY <1>5, <2>1, UpsGrow
<1>7. up' \in Seq(Ups(F)) /\ down' \in Seq(Downs(F))
  <2>1. d.out \in Seq(Ups(F)) BY <1>1
  <2> HIDE DEF F
  <2>2. up \o d.out \in Seq(Ups(F)) BY <1>6, <2>1
  <2>3. down # <<>> => Tail(down) \in Seq(Downs(F)) BY <1>6
  <2>4. QED BY <1>6, <2>2, <2>3
<1>8. srv' \in [layout : Layouts, after : 1..cli'.epoch, dirty : BOOLEAN,
                text : [Panes -> {t \in Seq(Texts) : Len(t) >= Height}]]
  BY <1>3, <1>6 DEF HistoryInv
<1>9. QED BY <1>3, <1>4, <1>7, <1>8 DEF HistoryInv

\* What a step of the remote side needs.
LEMMA RemoteStep ==
    ASSUME HistoryInv, UNCHANGED <<cli, held>>,
           up' = up \/ (up # <<>> /\ up' = Tail(up)),
           \/ down' = down
           \/ \E m \in Downs(1..cli.epoch) : down' = Append(down, m),
           srv' \in [layout : Layouts, after : 1..cli.epoch, dirty : BOOLEAN,
                     text : [Panes -> {t \in Seq(Texts) : Len(t) >= Height}]],
           spent' \in [Events -> Nat]
    PROVE  HistoryInv'
<1> DEFINE E == 1..cli.epoch
<1>1. up \in Seq(Ups(E)) /\ down \in Seq(Downs(E)) BY DEF HistoryInv
<1>2. up' \in Seq(Ups(E)) /\ down' \in Seq(Downs(E))
  <2>1. \/ down' = down
        \/ \E m \in Downs(E) : down' = Append(down, m)
    OBVIOUS
  <2> HIDE DEF E
  <2>2. up' \in Seq(Ups(E))
    <3>1. up # <<>> => Tail(up) \in Seq(Ups(E)) BY <1>1
    <3>2. QED BY <1>1, <3>1
  <2>3. \A m \in Downs(E) : Append(down, m) \in Seq(Downs(E)) BY <1>1
  <2>4. QED BY <1>1, <2>1, <2>2, <2>3
<1>3. ClientOK(cli)' BY DEF HistoryInv, ClientOK, Placing, Waiting
<1>4. QED BY <1>2, <1>3 DEF HistoryInv

\* A reply to the request at the head of the queue.
LEMMA ReplyTypes ==
    ASSUME HistoryInv, up # <<>>
    PROVE  /\ srv.after \in 1..cli.epoch /\ Visible \subseteq Panes
           /\ Head(up).kind = "prefetch" =>
                \A f \in RouteMaps :
                    Batch(Head(up).id, f, srv.after) \in Downs(1..cli.epoch)
           /\ Head(up).kind = "request" =>
                /\ Head(up).lines \in Lengths
                /\ \A s \in Shots \union {None} :
                    Answer(Head(up).id, s) \in Downs(1..cli.epoch)
<1> DEFINE E == 1..cli.epoch
<1>1. cli.epoch \in Nat /\ srv.after \in E
  BY ClientFacts DEF HistoryInv, ClientOK
<1>2. E \in SUBSET Nat /\ Head(up) \in Ups(E)
  <2>1. up \in Seq(Ups(E)) BY DEF HistoryInv
  <2>2. E \in SUBSET Nat BY <1>1
  <2> HIDE DEF E
  <2>3. QED BY <2>1, <2>2
<1>3. Visible \subseteq Panes BY DEF Visible
<1> HIDE DEF E
<1>4. /\ Head(up).kind = "prefetch" => Head(up).id \in Ids
      /\ Head(up).kind = "request" => Head(up).id \in Ids /\ Head(up).lines \in Lengths
  BY <1>2, UpFacts
<1>5. ASSUME NEW f \in RouteMaps, Head(up).kind = "prefetch"
      PROVE  Batch(Head(up).id, f, srv.after) \in Downs(E)
  BY <1>1, <1>4, <1>5 DEF Batch, Downs
<1>6. ASSUME NEW s \in Shots \union {None}, Head(up).kind = "request"
      PROVE  Answer(Head(up).id, s) \in Downs(E)
  BY <1>4, <1>6 DEF Answer, Downs
<1>7. QED BY <1>1, <1>3, <1>4, <1>5, <1>6 DEF E

\* A batch of what the helper captured.
LEMMA CapturedMap ==
    ASSUME HistoryInv, NEW S \in SUBSET Visible, NEW n \in [S -> Lengths]
    PROVE  [p \in S |-> Capture(p, n[p])] \in RouteMaps
<1>1. \A p \in S : Capture(p, n[p]) \in Shots /\ Capture(p, n[p]).pane = p
  BY CaptureFacts
<1>2. S \in SUBSET Panes BY DEF Visible
<1>3. [p \in S |-> Capture(p, n[p])] \in [S -> Shots] BY <1>1
<1>4. [p \in S |-> Capture(p, n[p])] \in PerPane(Shots) BY <1>2, <1>3, InPerPane
<1>5. QED BY <1>1, <1>4 DEF RouteMaps

LEMMA ServePrefetchInv ==
    ASSUME HistoryInv, ServePrefetch PROVE HistoryInv' /\ spent'["wheel"] = spent["wheel"]
<1>1. /\ up # <<>> /\ Head(up).kind = "prefetch" /\ up' = Tail(up)
      /\ UNCHANGED <<srv, cli, held>>
  BY DEF ServePrefetch
<1>2. spent' = spent \/ Spend("fault")
  BY DEF ServePrefetch
<1>3. /\ spent \in [Events -> Nat] /\ spent' \in [Events -> Nat]
      /\ spent'["wheel"] = spent["wheel"]
  <2>1. spent \in [Events -> Nat] /\ "fault" \in Events /\ "wheel" \in Events
    BY DEF HistoryInv, Events
  <2>2. QED BY <1>2, <2>1, SpendFacts
<1>4. HotLines \in Lengths /\ Height \in Lengths BY LineAssumption DEF Lengths
<1>5. down' = down \/ \E f \in RouteMaps : down' = Append(down, Batch(Head(up).id, f, srv.after))
  <2> DEFINE Reply(f) == down' = Append(down, Batch(Head(up).id, f, srv.after))
  <2>1. CASE Reply([p \in Visible |-> Capture(p, HotLines)])
    <3>1. [p \in Visible |-> HotLines] \in [Visible -> Lengths] BY <1>4
    <3>2. [p \in Visible |-> Capture(p, [x \in Visible |-> HotLines][p])] \in RouteMaps
      BY <3>1, CapturedMap
    <3>3. [p \in Visible |-> Capture(p, [x \in Visible |-> HotLines][p])]
            = [p \in Visible |-> Capture(p, HotLines)]
      OBVIOUS
    <3>4. QED BY <2>1, <3>2, <3>3
  <2>2. ASSUME NEW p \in Visible, NEW k \in {0, Height},
               Reply([x \in IF k = 0 THEN Visible \ {p} ELSE Visible |->
                        Capture(x, IF x = p THEN k ELSE HotLines)])
        PROVE  \E f \in RouteMaps : Reply(f)
    <3> DEFINE S == IF k = 0 THEN Visible \ {p} ELSE Visible
               n == [x \in S |-> IF x = p THEN k ELSE HotLines]
    <3>1. S \in SUBSET Visible /\ n \in [S -> Lengths]
      BY <1>4
    <3>2. [x \in S |-> Capture(x, n[x])]
            = [x \in S |-> Capture(x, IF x = p THEN k ELSE HotLines)]
      OBVIOUS
    <3> HIDE DEF n
    <3>3. [x \in S |-> Capture(x, n[x])] \in RouteMaps BY <3>1, CapturedMap
    <3>4. QED BY <2>2, <3>2, <3>3
  <2>3. CASE Reply(Nothing) BY <2>3, NothingFacts
  <2>4. QED BY <2>1, <2>2, <2>3, Zenon DEF ServePrefetch
<1>6. \/ down' = down
      \/ \E m \in Downs(1..cli.epoch) : down' = Append(down, m)
  BY <1>1, <1>5, ReplyTypes
<1>7. srv' \in [layout : Layouts, after : 1..cli.epoch, dirty : BOOLEAN,
                text : [Panes -> {t \in Seq(Texts) : Len(t) >= Height}]]
  BY <1>1 DEF HistoryInv
<1>8. QED BY <1>1, <1>3, <1>6, <1>7, RemoteStep

LEMMA ServeRequestInv ==
    ASSUME HistoryInv, ServeRequest
    PROVE  HistoryInv' /\ spent'["wheel"] = spent["wheel"]
<1>1. /\ up # <<>> /\ Head(up).kind = "request" /\ up' = Tail(up)
      /\ UNCHANGED <<srv, cli, held>>
  BY DEF ServeRequest
<1>2. spent' = spent \/ Spend("fault")
  BY DEF ServeRequest
<1>3. /\ spent' \in [Events -> Nat] /\ spent'["wheel"] = spent["wheel"]
  <2>1. spent \in [Events -> Nat] /\ "fault" \in Events /\ "wheel" \in Events
    BY DEF HistoryInv, Events
  <2>2. QED BY <1>2, <2>1, SpendFacts
<1>4. Head(up).lines \in Lengths /\ Height \in Lengths
  BY <1>1, ReplyTypes, LineAssumption DEF Lengths
<1>5. \/ down' = down
      \/ \E s \in Shots \union {None} : down' = Append(down, Answer(Head(up).id, s))
  <2> DEFINE Reply(s) == down' = Append(down, Answer(Head(up).id, s))
  <2>1. \/ Reply(None) \/ down' = down
        \/ \E p \in Visible : Reply(Capture(p, Head(up).lines))
                              \/ Reply(Capture(p, Height))
    BY Zenon DEF ServeRequest, PaneAt
  <2>2. ASSUME NEW p \in Visible
        PROVE  Capture(p, Head(up).lines) \in Shots /\ Capture(p, Height) \in Shots
    BY <1>4, CaptureFacts
  <2>3. QED BY <2>1, <2>2
<1>6. \/ down' = down
      \/ \E m \in Downs(1..cli.epoch) : down' = Append(down, m)
  BY <1>1, <1>5, ReplyTypes
<1>7. srv' \in [layout : Layouts, after : 1..cli.epoch, dirty : BOOLEAN,
                text : [Panes -> {t \in Seq(Texts) : Len(t) >= Height}]]
  BY <1>1 DEF HistoryInv
<1>8. QED BY <1>1, <1>3, <1>6, <1>7, RemoteStep

LEMMA ServerInv ==
    ASSUME HistoryInv, ServeInput \/ SendScreen \/ Relayout \/ Output
    PROVE  HistoryInv' /\ spent'["wheel"] = spent["wheel"]
<1> DEFINE Types == [layout : Layouts, after : 1..cli.epoch, dirty : BOOLEAN,
                     text : [Panes -> {t \in Seq(Texts) : Len(t) >= Height}]]
<1>1. /\ srv \in Types /\ spent \in [Events -> Nat]
      /\ {"wheel", "layout", "output"} \subseteq Events
  BY DEF HistoryInv, Events
<1>2. CASE ServeInput
  <2>1. /\ up # <<>> /\ up' = Tail(up) /\ UNCHANGED <<cli, held, down, spent>>
        /\ srv' = [srv EXCEPT !.after = Head(up).after, !.dirty = TRUE]
        /\ Head(up).kind = "input"
    BY <1>2 DEF ServeInput
  <2> DEFINE E == 1..cli.epoch
  <2>2. up \in Seq(Ups(E)) /\ E \in SUBSET Nat
    BY ClientFacts DEF HistoryInv, ClientOK
  <2>3. Head(up).after \in E
    <3> HIDE DEF E
    <3>1. Head(up) \in Ups(E) BY <2>1, <2>2
    <3>2. QED BY <2>1, <2>2, <3>1, UpFacts
  <2>4. srv' \in Types BY <1>1, <2>1, <2>3
  <2>5. QED BY <1>1, <2>1, <2>4, RemoteStep
<1>3. CASE SendScreen
  <2>1. /\ down' = Append(down, Screen(srv.layout))
        /\ srv' = [srv EXCEPT !.dirty = FALSE]
        /\ UNCHANGED <<cli, held, up, spent>>
    BY <1>3 DEF SendScreen
  <2>2. Screen(srv.layout) \in Downs(1..cli.epoch)
    BY <1>1, LayoutAssumption DEF Screen, Downs, Positions
  <2>3. srv' \in Types BY <1>1, <2>1
  <2>4. QED BY <1>1, <2>1, <2>2, <2>3, RemoteStep
<1>4. CASE Relayout
  <2>1. /\ Spend("layout") /\ UNCHANGED <<cli, held, up, down>>
        /\ \E l \in Layouts : srv' = [srv EXCEPT !.layout = l, !.dirty = TRUE]
    BY <1>4 DEF Relayout
  <2>2. srv' \in Types BY <1>1, <2>1
  <2>3. spent' \in [Events -> Nat] /\ spent'["wheel"] = spent["wheel"]
    BY <1>1, <2>1, SpendFacts
  <2>4. QED BY <2>1, <2>2, <2>3, RemoteStep
<1>5. CASE Output
  <2>1. /\ Spend("output") /\ UNCHANGED <<cli, held, up, down>> BY <1>5 DEF Output
  <2>2. PICK p \in Panes, t \in NewTexts, i \in 0..Height :
          srv' = [srv EXCEPT !.text[p] =
                    IF i = 0 THEN Append(srv.text[p], t)
                    ELSE [srv.text[p] EXCEPT ![Len(srv.text[p]) - i + 1] = t],
                    !.dirty = TRUE]
    BY <1>5 DEF Output
  <2> DEFINE q == srv.text[p]
             r == IF i = 0 THEN Append(q, t) ELSE [q EXCEPT ![Len(q) - i + 1] = t]
  <2>3. /\ q \in Seq(Texts) /\ Len(q) \in Nat /\ Len(q) >= Height
        /\ t \in Texts /\ Height \in Nat
    BY <1>1, BlankAssumption, LineAssumption
  <2>4. r \in Seq(Texts) /\ Len(r) >= Height
    <3>1. CASE i = 0 BY <2>3, <3>1
    <3>2. CASE i # 0 BY <2>3, <3>2
    <3>3. QED BY <3>1, <3>2
  <2>5. srv' = [srv EXCEPT !.text[p] = r, !.dirty = TRUE] BY <2>2
  <2>6. srv' \in Types
    <3> HIDE DEF r
    <3>1. PICK f : f = [srv.text EXCEPT ![p] = r] OBVIOUS
    <3>2. f \in [Panes -> {u \in Seq(Texts) : Len(u) >= Height}]
      BY <1>1, <2>4, <3>1
    <3>3. srv' = [srv EXCEPT !.text = f, !.dirty = TRUE] BY <2>5, <3>1
    <3>4. QED BY <1>1, <3>2, <3>3
  <2>7. spent' \in [Events -> Nat] /\ spent'["wheel"] = spent["wheel"]
    BY <1>1, <2>1, SpendFacts
  <2>8. QED BY <2>1, <2>6, <2>7, RemoteStep
<1>6. QED BY <1>2, <1>3, <1>4, <1>5

-----------------------------------------------------------------------------
(* The steps of the client *)

\* A step of the client that is not a turn of the wheel.
Quiet == Calm(cli, cli') /\ spent'["wheel"] = spent["wheel"]
\* A turn of the wheel.
Turned == /\ \E p \in Panes : Only(cli, cli', p)
          /\ spent'["wheel"] = spent["wheel"] + 1

LEMMA EventFacts ==
    ASSUME HistoryInv
    PROVE  /\ spent \in [Events -> Nat] /\ ClientOK(cli)
           /\ held \in {None, "agent", "other"}
           /\ {"wheel", "button", "key", "resize", "fault"} \subseteq Events
BY DEF HistoryInv, Events

\* Spending on another event is no turn of the wheel.
LEMMA SpendOther ==
    ASSUME HistoryInv, NEW e \in Events \ {"wheel"}, Spend(e)
    PROVE  spent' \in [Events -> Nat] /\ spent'["wheel"] = spent["wheel"]
BY EventFacts, SpendFacts

\* What a step that sends what the client d says preserves.
LEMMA QuietStep ==
    ASSUME HistoryInv, NEW d, ClientOK(d), d.epoch >= cli.epoch, Calm(cli, d),
           Sent(d), srv' = srv, down' = down \/ (down # <<>> /\ down' = Tail(down)),
           held' \in {None, "agent", "other"}, spent' \in [Events -> Nat],
           spent'["wheel"] = spent["wheel"]
    PROVE  HistoryInv' /\ Quiet
<1>1. cli' = [d EXCEPT !.out = <<>>] /\ up' = up \o d.out BY DEF Sent
<1>2. HistoryInv' /\ cli'.views = d.views BY <1>1, ClientStep
<1>3. Calm(cli, cli') BY <1>2 DEF Calm
<1>4. QED BY <1>2, <1>3 DEF Quiet

LEMMA WheelStep ==
    ASSUME HistoryInv, UserWheels PROVE HistoryInv' /\ Turned
<1>1. /\ Spend("wheel") /\ UNCHANGED <<srv, held, down>> BY DEF UserWheels
<1>2. PICK x \in Positions, dir \in {"up", "down"}, k \in ScrollSteps, l \in BOOLEAN :
        Room(WheelEvent(cli, x, dir, k, l))
  BY DEF UserWheels
<1>3. PICK d : d = WheelEvent(cli, x, dir, k, l) OBVIOUS
<1>4. cli' = [d EXCEPT !.out = <<>>] /\ up' = up \o d.out
  BY <1>2, <1>3 DEF Room, Sent
<1>5. k \in Nat BY LineAssumption
<1>6. ClientOK(d) /\ Rest(d) = Rest(cli) /\ \E p \in Panes : Only(cli, d, p)
  BY <1>3, <1>5, EventFacts, WheelEventOK
<1>7. d.epoch >= cli.epoch
  <2>1. d.epoch = cli.epoch BY <1>6 DEF Rest
  <2>2. cli.epoch \in Nat BY EventFacts, ClientFacts DEF ClientOK
  <2>3. QED BY <2>1, <2>2
<1>8. spent' \in [Events -> Nat] /\ spent'["wheel"] = spent["wheel"] + 1
  BY <1>1, EventFacts, SpendFacts
<1>9. HistoryInv' /\ cli'.views = d.views
  BY <1>1, <1>4, <1>6, <1>7, <1>8, EventFacts, ClientStep
<1>10. \E p \in Panes : Only(cli, cli', p) BY <1>6, <1>9 DEF Only
<1>11. QED BY <1>8, <1>9, <1>10 DEF Turned

LEMMA UserStep ==
    ASSUME HistoryInv,
           UserPresses \/ UserDrags \/ UserReleases \/ UserTypes \/ UserResizes
    PROVE  HistoryInv' /\ Quiet
<1>1. ASSUME NEW w \in {"press", "drag", "release"}, NEW x \in Positions,
             Room(Button(cli, w, x)), UNCHANGED <<srv, down>>,
             held' \in {None, "agent", "other"}, Spend("button") \/ UNCHANGED spent
      PROVE  HistoryInv' /\ Quiet
  <2>1. PICK d : d = Button(cli, w, x) OBVIOUS
  <2>2. ClientOK(d) /\ d.epoch >= cli.epoch /\ Fewer(cli, d)
    BY <2>1, EventFacts, ButtonOK
  <2>3. Sent(d) BY <1>1, <2>1 DEF Room
  <2>4. spent' \in [Events -> Nat] /\ spent'["wheel"] = spent["wheel"]
    BY <1>1, EventFacts, SpendOther
  <2>5. Calm(cli, d) BY <2>2, FewerCalm
  <2>6. QED BY <1>1, <2>2, <2>3, <2>4, <2>5, QuietStep
<1>2. CASE UserPresses
  <2>1. PICK x \in Positions : held' = On(cli, x) /\ Room(Button(cli, "press", x))
    BY <1>2 DEF UserPresses
  <2>2. On(cli, x) \in {None, "agent", "other"} BY DEF On
  <2>3. Spend("button") /\ UNCHANGED <<srv, down>> BY <1>2 DEF UserPresses
  <2>4. QED BY <1>1, <2>1, <2>2, <2>3
<1>3. CASE UserDrags
  <2>1. PICK x \in Positions : Room(Button(cli, "drag", x)) BY <1>3 DEF UserDrags
  <2>2. Spend("button") /\ UNCHANGED <<srv, held, down>> BY <1>3 DEF UserDrags
  <2>3. QED BY <1>1, <2>1, <2>2, EventFacts
<1>4. CASE UserReleases
  <2>1. PICK x \in Positions : Room(Button(cli, "release", x))
    BY <1>4 DEF UserReleases
  <2>2. UNCHANGED <<srv, down, spent>> /\ held' = None BY <1>4 DEF UserReleases
  <2>3. QED BY <1>1, <2>1, <2>2
<1>5. CASE UserTypes
  <2>1. PICK w \in {"layout", "esc", "enter", "text", "focus"} : Room(Key(cli, w))
    BY <1>5 DEF UserTypes
  <2>2. Spend("key") /\ UNCHANGED <<srv, held, down>> BY <1>5 DEF UserTypes
  <2>3. PICK d : d = Key(cli, w) OBVIOUS
  <2>4. ClientOK(d) /\ d.epoch >= cli.epoch /\ Fewer(cli, d)
    BY <2>3, EventFacts, KeyOK
  <2>5. spent' \in [Events -> Nat] /\ spent'["wheel"] = spent["wheel"]
    BY <2>2, EventFacts, SpendOther
  <2>6. Sent(d) BY <2>1, <2>3 DEF Room
  <2>7. QED BY <2>2, <2>4, <2>5, <2>6, EventFacts, FewerCalm, QuietStep
<1>6. CASE UserResizes
  <2>1. Spend("resize") /\ UNCHANGED <<srv, held, down>> /\ Room(Resized(cli))
    BY <1>6 DEF UserResizes
  <2>2. PICK d : d = Resized(cli) OBVIOUS
  <2>3. ClientOK(d) /\ d.epoch >= cli.epoch /\ Fewer(cli, d)
    BY <2>2, EventFacts, ResizedOK
  <2>4. spent' \in [Events -> Nat] /\ spent'["wheel"] = spent["wheel"]
    BY <2>1, EventFacts, SpendOther
  <2>5. Sent(d) BY <2>1, <2>2 DEF Room
  <2>6. QED BY <2>1, <2>3, <2>4, <2>5, EventFacts, FewerCalm, QuietStep
<1>7. QED BY <1>2, <1>3, <1>4, <1>5, <1>6

\* The message at the head of the queue.
LEMMA HeadFacts ==
    ASSUME HistoryInv, down # <<>>
    PROVE  /\ Head(down).kind = "batch" =>
                Head(down).panes \in RouteMaps /\ Head(down).after \in 1..cli.epoch
           /\ Head(down).kind = "answer" => Head(down).snap \in Shots \union {None}
           /\ Head(down).kind = "screen" =>
                Head(down).cursor \in Positions /\ Head(down).bar \in BOOLEAN
<1> DEFINE E == 1..cli.epoch
<1>1. down \in Seq(Downs(E)) /\ E \in SUBSET Nat
  BY ClientFacts DEF HistoryInv, ClientOK
<1> HIDE DEF E
<1>2. Head(down) \in Downs(E) BY <1>1
<1>3. /\ Head(down).kind = "batch" => Head(down).panes \in RouteMaps
                                      /\ Head(down).after \in E
      /\ Head(down).kind = "answer" => Head(down).snap \in Shots \union {None}
      /\ Head(down).kind = "screen" =>
           Head(down).cursor \in Positions /\ Head(down).bar \in BOOLEAN
  BY <1>1, <1>2, DownFacts
<1>4. QED BY <1>3 DEF E

LEMMA SameEpoch ==
    ASSUME NEW c, ClientOK(c), NEW d, d.epoch = c.epoch PROVE d.epoch >= c.epoch
BY ClientFacts DEF ClientOK

LEMMA ReceiveBatchStep ==
    ASSUME HistoryInv, ReceiveBatch PROVE HistoryInv' /\ Quiet
<1>1. /\ down # <<>> /\ Head(down).kind = "batch" /\ down' = Tail(down)
      /\ UNCHANGED <<srv, held, spent>>
  BY DEF ReceiveBatch
<1>2. PICK cache \in Caches(cli.cache, Head(down).panes) :
        Sent(AcceptPrefetch(cli, Head(down), cache))
  BY DEF ReceiveBatch
<1>3. PICK m : m = Head(down) OBVIOUS
<1>4. m.panes \in RouteMaps /\ m.after \in 1..cli.epoch BY <1>1, <1>3, HeadFacts
<1>5. cli.cache \in PerPane(Shots) /\ m.panes \in PerPane(Shots)
  BY <1>4, EventFacts, ClientFacts, RouteFacts DEF ClientOK
<1>6. cache \in PerPane(Shots) /\ Cardinality(DOMAIN cache) <= CacheLimit
  BY <1>2, <1>3, <1>5, CachesFacts
<1>7. PICK d : d = AcceptPrefetch(cli, m, cache) OBVIOUS
<1>8. ClientOK(d) /\ d.epoch = cli.epoch /\ Fewer(cli, d)
  BY <1>4, <1>6, <1>7, EventFacts, AcceptPrefetchOK
<1>9. Sent(d) BY <1>2, <1>3, <1>7
<1>10. QED BY <1>1, <1>8, <1>9, EventFacts, FewerCalm, SameEpoch, QuietStep

LEMMA ReceiveAnswerStep ==
    ASSUME HistoryInv, ReceiveAnswer PROVE HistoryInv' /\ Quiet
<1>1. /\ down # <<>> /\ Head(down).kind = "answer" /\ down' = Tail(down)
      /\ UNCHANGED <<srv, held, spent>>
  BY DEF ReceiveAnswer
<1>2. PICK late \in BOOLEAN, cache \in Caches(cli.cache, Learned(Head(down))) :
        Sent(Accept(cli, Head(down), cache, late))
  BY DEF ReceiveAnswer
<1>3. PICK m : m = Head(down) OBVIOUS
<1>4. m.snap \in Shots \union {None} BY <1>1, <1>3, HeadFacts
<1>5. Learned(m) \in PerPane(Shots)
  <2>1. CASE m.snap = None BY <2>1, NothingFacts DEF Learned
  <2>2. CASE m.snap # None
    <3>1. m.snap \in Shots /\ m.snap.pane \in Panes BY <1>4, <2>2, ShotFacts
    <3>2. Learned(m) = With(Nothing, m.snap.pane, m.snap) BY <2>2 DEF Learned
    <3>3. Learned(m) \in [{m.snap.pane} -> Shots]
      BY <3>1, <3>2, NothingFacts DEF With
    <3>4. {m.snap.pane} \in SUBSET Panes BY <3>1
    <3>5. QED BY <3>3, <3>4, InPerPane
  <2>3. QED BY <2>1, <2>2
<1>6. cli.cache \in PerPane(Shots) BY EventFacts, ClientFacts DEF ClientOK
<1>7. cache \in PerPane(Shots) /\ Cardinality(DOMAIN cache) <= CacheLimit
  BY <1>2, <1>3, <1>5, <1>6, CachesFacts
<1>8. PICK d : d = Accept(cli, m, cache, late) OBVIOUS
<1>9. ClientOK(d) /\ d.epoch = cli.epoch /\ Calm(cli, d)
  BY <1>4, <1>7, <1>8, EventFacts, AcceptOK
<1>10. Sent(d) BY <1>2, <1>3, <1>8
<1>11. QED BY <1>1, <1>9, <1>10, EventFacts, SameEpoch, QuietStep

LEMMA TimesOutFacts ==
    ASSUME HistoryInv, NEW late, TimesOut(late)
    PROVE  spent' \in [Events -> Nat] /\ spent'["wheel"] = spent["wheel"]
BY EventFacts, SpendOther DEF TimesOut

\* The client's picture of the screen, and whether it wants new routes.
LEMMA ScreenOK ==
    ASSUME NEW c, ClientOK(c), NEW x \in Positions, NEW b \in BOOLEAN,
           NEW d, d = [c EXCEPT !.screen = [cursor |-> x, bar |-> b]]
    PROVE  ClientOK(d) /\ d.epoch = c.epoch /\ d.views = c.views
<1>1. /\ d \in Clients /\ Rest(d) = Rest(c) /\ d.views = c.views
      /\ d.deep = c.deep /\ d.out = c.out
  BY DEF ClientOK, Clients, Rest
<1>2. d.out \in Seq(Ups(1..c.epoch)) BY <1>1 DEF ClientOK
<1>3. QED BY <1>1, <1>2, SameOK DEF Rest

LEMMA RefreshedOK ==
    ASSUME NEW c, ClientOK(c), NEW b \in BOOLEAN, NEW d, d = [c EXCEPT !.refresh = b]
    PROVE  ClientOK(d) /\ d.epoch = c.epoch /\ d.views = c.views
<1>1. /\ d \in Clients /\ Rest(d) = Rest(c) /\ d.views = c.views
      /\ d.deep = c.deep /\ d.out = c.out
  BY DEF ClientOK, Clients, Rest
<1>2. d.out \in Seq(Ups(1..c.epoch)) BY <1>1 DEF ClientOK
<1>3. QED BY <1>1, <1>2, SameOK DEF Rest

LEMMA ReceiveScreenStep ==
    ASSUME HistoryInv, ReceiveScreen PROVE HistoryInv' /\ Quiet
<1>1. /\ down # <<>> /\ Head(down).kind = "screen" /\ down' = Tail(down)
      /\ UNCHANGED <<srv, held>>
  BY DEF ReceiveScreen
<1>2. PICK c : c = [cli EXCEPT !.screen = [cursor |-> Head(down).cursor,
                                          bar |-> Head(down).bar]]
  OBVIOUS
<1>3. ClientOK(c) /\ c.epoch = cli.epoch /\ c.views = cli.views
  BY <1>1, <1>2, HeadFacts, EventFacts, ScreenOK
<1>4. \/ Sent(c) /\ UNCHANGED spent
      \/ \E late \in BOOLEAN :
           /\ TimesOut(late)
           /\ \E d : /\ d = BeginPrefetch(c, late)
                     /\ Sent([d EXCEPT !.refresh = @ /\ d.prefetch = None])
  BY <1>2, Zenon DEF ReceiveScreen
<1>5. CASE Sent(c) /\ UNCHANGED spent
  BY <1>1, <1>3, <1>5, EventFacts, FewerRefl, FewerCalm, SameEpoch, QuietStep
<1>6. ASSUME NEW late \in BOOLEAN, TimesOut(late), NEW d,
             d = BeginPrefetch(c, late),
             Sent([d EXCEPT !.refresh = @ /\ d.prefetch = None])
      PROVE  HistoryInv' /\ Quiet
  <2>1. /\ ClientOK(d) /\ d.epoch = cli.epoch /\ d.views = cli.views
        /\ d.refresh \in BOOLEAN
    BY <1>3, <1>6, BeginPrefetchOK, ClientFacts DEF Rest, ClientOK
  <2>2. PICK b : b = (d.refresh /\ d.prefetch = None) OBVIOUS
  <2>3. b \in BOOLEAN BY <2>1, <2>2
  <2>4. PICK e : e = [d EXCEPT !.refresh = b] OBVIOUS
  <2>5. ClientOK(e) /\ e.epoch = cli.epoch /\ e.views = cli.views
    BY <2>1, <2>3, <2>4, RefreshedOK
  <2>6. Sent(e) BY <1>6, <2>2, <2>4
  <2>7. spent' \in [Events -> Nat] /\ spent'["wheel"] = spent["wheel"]
    BY <1>6, TimesOutFacts
  <2>8. QED
    BY <1>1, <2>5, <2>6, <2>7, EventFacts, FewerRefl, FewerCalm, SameEpoch, QuietStep
<1>7. QED BY <1>4, <1>5, <1>6

LEMMA TickStep ==
    ASSUME HistoryInv, Tick PROVE HistoryInv' /\ Quiet
<1>1. UNCHANGED <<srv, held, down>> BY DEF Tick
<1>2. PICK late \in BOOLEAN : TimesOut(late) /\ Room(BeginPrefetch(cli, late))
  BY DEF Tick
<1>3. PICK d : d = BeginPrefetch(cli, late) OBVIOUS
<1>4. ClientOK(d) /\ d.epoch = cli.epoch /\ d.views = cli.views
  BY <1>3, EventFacts, BeginPrefetchOK DEF Rest
<1>5. spent' \in [Events -> Nat] /\ spent'["wheel"] = spent["wheel"]
  BY <1>2, TimesOutFacts
<1>6. Sent(d) BY <1>2, <1>3 DEF Room
<1>7. QED
  BY <1>1, <1>4, <1>5, <1>6, EventFacts, FewerRefl, FewerCalm, SameEpoch, QuietStep

-----------------------------------------------------------------------------
(* The theorems *)

LEMMA CalmRefl == ASSUME NEW c, NEW d, d.views = c.views PROVE Calm(c, d)
BY FewerRefl, FewerCalm

LEMMA NextHistory ==
    ASSUME HistoryInv, [Next]_vars
    PROVE  HistoryInv' /\ (Turned \/ Quiet)
<1>1. CASE ServePrefetch \/ ServeRequest \/ ServeInput \/ SendScreen
           \/ Relayout \/ Output
  <2>1. HistoryInv' /\ spent'["wheel"] = spent["wheel"]
    BY <1>1, ServePrefetchInv, ServeRequestInv, ServerInv
  <2>2. cli' = cli
    BY <1>1 DEF ServePrefetch, ServeRequest, ServeInput, SendScreen, Relayout, Output
  <2>3. QED BY <2>1, <2>2, CalmRefl DEF Quiet
<1>2. CASE UserWheels BY <1>2, WheelStep
<1>3. CASE UserPresses \/ UserDrags \/ UserReleases \/ UserTypes \/ UserResizes
  BY <1>3, UserStep
<1>4. CASE ReceiveBatch \/ ReceiveAnswer \/ ReceiveScreen \/ Tick
  BY <1>4, ReceiveBatchStep, ReceiveAnswerStep, ReceiveScreenStep, TickStep
<1>5. CASE UNCHANGED vars
  <2>1. UNCHANGED <<srv, cli, held, up, down, spent>> BY <1>5 DEF vars
  <2>2. HistoryInv' BY <2>1 DEF HistoryInv, ClientOK, Placing, Waiting
  <2>3. QED BY <2>1, <2>2, CalmRefl DEF Quiet
<1>6. QED
  BY <1>1, <1>2, <1>3, <1>4, <1>5 DEF Next, Remote, User, Client

LEMMA HistoryAlways == Spec => []HistoryInv
<1>1. Init => HistoryInv BY InitHistory
<1>2. HistoryInv /\ [Next]_vars => HistoryInv' BY NextHistory
<1>3. QED BY <1>1, <1>2, PTL DEF Spec

\* The types: in particular a view has a pane of lines at least, its offset never
\* passes either end of them, whatever wheel ticks and answers come in, and the
\* client keeps the text of at most CacheLimit panes.
THEOREM HistoryTypes == Spec => []TypeOK
<1>1. ASSUME HistoryInv PROVE TypeOK
  <2>1. /\ cli \in Clients /\ cli.stamp <= cli.epoch
        /\ Cardinality(DOMAIN cli.cache) <= CacheLimit
    BY <1>1 DEF HistoryInv, ClientOK
  <2>2. /\ cli.epoch \in Nat /\ cli.stamp \in 0..cli.epoch
        /\ cli.capture \in {"none", "local", "agent", "other"}
    BY <2>1, ClientFacts
  <2>3. /\ DOMAIN cli.routes \subseteq Panes
        /\ \A p \in DOMAIN cli.routes : cli.routes[p] \in Snapshots
    BY <2>1, ClientFacts, RouteFacts DEF Shots
  <2>4. \A p \in DOMAIN cli.cache : cli.cache[p] \in Snapshots
    <3>1. cli.cache \in PerPane(Shots) BY <2>1, ClientFacts
    <3>2. QED BY <3>1, PerPaneFacts DEF Shots
  <2>5. /\ DOMAIN cli.views \subseteq Panes
        /\ \A p \in DOMAIN cli.views :
             /\ cli.views[p] \in Views
             /\ cli.views[p].offset \in 0..Highest(cli.views[p].snap)
    BY <2>1, ClientFacts, ViewFacts DEF Frozens
  <2>6. /\ srv.layout \in Layouts /\ \A p \in Panes : srv.text[p] \in Seq(Texts)
        /\ srv.after \in 1..cli.epoch /\ srv.dirty \in BOOLEAN
    BY <1>1 DEF HistoryInv
  <2>7. cli.out = <<>> /\ held \in {None, "agent", "other"}
    BY <1>1 DEF HistoryInv
  <2>8. QED BY <2>1, <2>2, <2>3, <2>4, <2>5, <2>6, <2>7 DEF TypeOK
<1>2. QED BY <1>1, HistoryAlways, PTL

\* Whatever order batches, deep answers, clicks, keys and resizes come in, every
\* frozen view belongs to a route in force and stands on that route's place.
THEOREM FrozenInPlace == Spec => []InPlace
<1>1. ASSUME HistoryInv PROVE InPlace
  <2>1. cli.views \in ViewMaps /\ Placing(cli)
    BY <1>1, ClientFacts DEF HistoryInv, ClientOK
  <2>2. QED BY <2>1, ViewFacts DEF InPlace, Placing
<1>2. QED BY <1>1, HistoryAlways, PTL

\* A pane waits for at most one deep capture, and only while it is frozen: a
\* cancelled view takes its request along, and a retry replaces the one before.
THEOREM AskedOnce == Spec => []OneAsked
<1>1. ASSUME HistoryInv PROVE OneAsked
  BY <1>1 DEF HistoryInv, ClientOK, Waiting, OneAsked
<1>2. QED BY <1>1, HistoryAlways, PTL

\* What a pane shows, as PaneView sees it.
Sight(c) == [p \in Panes |-> IF p \in DOMAIN c.views THEN Shown(c.views[p])
                             ELSE None]

LEMMA SightFacts ==
    ASSUME NEW c, ClientOK(c)
    PROVE  /\ DOMAIN Sight(c) = Panes /\ DOMAIN c.views \subseteq Panes
           /\ \A p \in DOMAIN c.views : /\ Sight(c)[p] = Shown(c.views[p])
                                        /\ Sight(c)[p] \in [1..Height -> Texts]
                                        /\ Sight(c)[p] # None
           /\ \A p \in Panes \ DOMAIN c.views : Sight(c)[p] = None
<1>1. /\ DOMAIN c.views \subseteq Panes
      /\ \A p \in DOMAIN c.views : c.views[p] \in Frozens
  BY ClientFacts, ViewFacts DEF ClientOK
<1>2. \A p \in DOMAIN c.views : Shown(c.views[p]) \in [1..Height -> Texts]
  BY <1>1, ShownRows
<1>3. QED BY <1>1, <1>2, NoneAssumption DEF Sight

LEMMA TurnStep ==
    ASSUME ClientOK(cli), ClientOK(cli'), Turned PROVE View!Turn
<1>1. PICK p \in Panes : Only(cli, cli', p) BY DEF Turned
<1>2. /\ DOMAIN Sight(cli') = Panes
      /\ Sight(cli')[p] = None \/ Sight(cli')[p] \in View!Rows
  BY SightFacts DEF View!Rows
<1>3. ASSUME NEW q \in Panes \ {p} PROVE Sight(cli')[q] = Sight(cli)[q]
  BY <1>1, SightFacts DEF Only
<1>4. spent'["wheel"] = spent["wheel"] + 1 BY DEF Turned
<1>5. QED BY <1>2, <1>3, <1>4 DEF View!Turn, Sight

LEMMA OtherStep ==
    ASSUME ClientOK(cli), ClientOK(cli'), Quiet PROVE View!Other
<1>1. ASSUME NEW p \in Panes
      PROVE  \/ Sight(cli')[p] = None
             \/ /\ Sight(cli)[p] # None /\ Sight(cli')[p] \in View!Rows
                /\ View!Kept(Sight(cli)[p], Sight(cli')[p])
  <2>1. CASE p \in DOMAIN cli'.views
    BY <2>1, SightFacts DEF View!Rows, Quiet, Calm
  <2>2. CASE p \notin DOMAIN cli'.views BY <2>2, SightFacts
  <2>3. QED BY <2>1, <2>2
<1>2. DOMAIN Sight(cli') = Panes BY SightFacts
<1>3. QED BY <1>1, <1>2 DEF View!Other, Quiet, Sight

\* The client implements PaneView: only the wheel moves a pane that stands still.
\* Output, an answer that replaces the text under it, a click, a key, a resize or a
\* new layout leaves its rows, leaves the reader his place, or puts it back to live.
THEOREM ReaderKeepsPlace == Spec => StandsStill
<1>1. Init => View!Init
  <2> SUFFICES ASSUME Init PROVE View!Init
    OBVIOUS
  <2>1. cli.views = Nothing /\ spent["wheel"] = 0
    BY DEF Init, FreshClient, Events
  <2>2. QED BY <2>1, NothingFacts DEF View!Init
<1>2. HistoryInv /\ [Next]_vars => [View!Next]_View!vars
  <2> SUFFICES ASSUME HistoryInv, [Next]_vars PROVE View!Next
    OBVIOUS
  <2>1. HistoryInv' /\ (Turned \/ Quiet) BY NextHistory
  <2>2. ClientOK(cli) /\ ClientOK(cli') BY <2>1 DEF HistoryInv
  <2>3. QED BY <2>1, <2>2, TurnStep, OtherStep DEF View!Next
<1>3. QED BY <1>1, <1>2, HistoryAlways, PTL DEF Spec, StandsStill, View!Spec

=============================================================================
