---------------------------- MODULE LocalHistory ----------------------------
(***************************************************************************)
(* Scrolling back in agent panes over railmux ssh: the client's local       *)
(* history layer (fast_display_client.py, LocalHistoryView and run) and the *)
(* helper's captures (fast_display_server.py, capture_history_batch and     *)
(* capture_history_snapshot).                                               *)
(*                                                                         *)
(* The client learns where the agent panes are, the routes, from batches it *)
(* prefetches.  A wheel-up over a route freezes that pane on the text of    *)
(* the batch and asks for more; the answer replaces the text under the      *)
(* frozen view.  Whatever may change the layout drops the routes.           *)
(*                                                                         *)
(* Simplifications.  A place of the screen is one position; panes have one  *)
(* height, and their geometry is their place.  A request gets an identifier *)
(* that no message under way bears (32 bits in the code).  The clock is a   *)
(* choice: a request whose answer will not come times out, another may.     *)
(* How far a tick scrolls is a choice too.  The helper's queue and the      *)
(* screen's own stream are in ScreenStream.                                 *)
(***************************************************************************)
EXTENDS Naturals, Sequences, FiniteSets, SequencesExt

CONSTANTS
    Panes,
    Cells,          \* the places where an agent pane may be
    Side,           \* a position in the sidebar or in a dialog
    Edge,           \* a position on the border around an agent pane
    Bar,            \* the status row
    None,
    Texts, Blank,   \* what a line may say; Blank is a text
    Layouts,        \* [place : Panes -> Cells or None, cursor, bar]
    FirstLayout,
    Scrollbacks,    \* the texts the panes may have at first
    NewTexts,       \* what a pane may print
    Height,         \* rows of a pane
    HotLines,       \* lines of a prefetch, 300 in the code
    InitialLines,   \* lines of the first request, 2000
    PageLines,      \* lines a further request adds, 2000
    LoadAhead,      \* 120
    HistoryLimit,   \* the most lines the client wants, 5000
    CacheLimit,     \* panes whose text is kept, 8
    ScrollSteps,    \* 1, 2 and 3 lines
    MaxIds,         \* bound on the requests under way
    MaxUp, MaxDown, \* bounds on the messages under way
    MaxSpent,       \* [event -> bound on how often it happens]
    MaxEvents       \* bound on how many such events there are together

ASSUME BlankAssumption == Blank \in Texts /\ NewTexts \subseteq Texts
ASSUME LineAssumption ==
    /\ Height \in Nat /\ Height > 0 /\ HotLines \in Nat /\ HotLines >= Height
    /\ InitialLines \in Nat /\ InitialLines >= HotLines /\ PageLines \in Nat
    /\ HistoryLimit \in Nat /\ HistoryLimit >= InitialLines /\ LoadAhead \in Nat
    /\ CacheLimit \in Nat /\ ScrollSteps \subseteq Nat

\* A capture holds the screen at least, also where nothing has been printed.
ASSUME TextAssumption ==
    \A f \in Scrollbacks :
        f \in [Panes -> Seq(Texts)] /\ \A p \in Panes : Len(f[p]) >= Height
ASSUME LayoutAssumption ==
    /\ FirstLayout \in Layouts
    /\ Layouts \subseteq [place : [Panes -> Cells \union {None}],
                          cursor : Cells \union {Side, Edge, Bar}, bar : BOOLEAN]
ASSUME NoneAssumption == None \notin [1..Height -> Texts]
ASSUME PaneAssumption == IsFiniteSet(Panes) /\ Panes # {}

VARIABLES
    srv,    \* the remote side: layout, text of each pane, last input handled
    cli,    \* the client: LocalHistoryView and the variables of run
    held,   \* what the user's button went down on: None, "agent" or "other"
    up, down,   \* messages under way
    spent   \* how often each bounded event has happened

vars == <<srv, cli, held, up, down, spent>>

Positions == Cells \union {Side, Edge, Bar}
Events == {"wheel", "button", "key", "resize", "layout", "output", "fault"}
Total == FoldFunction(LAMBDA x, y : x + y, 0, spent)
Spend(e) ==
    /\ spent[e] < MaxSpent[e] /\ Total < MaxEvents
    /\ spent' = [spent EXCEPT ![e] = @ + 1]

Nothing == [x \in {} |-> None]
Without(f, S) == [x \in DOMAIN f \ S |-> f[x]]
With(f, x, v) == [y \in DOMAIN f \union {x} |-> IF y = x THEN v ELSE f[y]]
Over(f, g) == [x \in DOMAIN f \union DOMAIN g |-> IF x \in DOMAIN f THEN f[x] ELSE g[x]]
Smaller(a, b) == IF a < b THEN a ELSE b
Larger(a, b) == IF a < b THEN b ELSE a

\* Messages.  "after" is there for the properties only.
Input(c, w, x) ==
    [kind |-> "input", id |-> None, after |-> c.epoch,
     what |-> IF w \in {"wheel", "drag"} THEN <<w, x>> ELSE <<>>]
Prefetch(i) == [kind |-> "prefetch", id |-> i]
Request(i, at, n) == [kind |-> "request", id |-> i, at |-> at, lines |-> n]
Batch(i, f, e) == [kind |-> "batch", id |-> i, panes |-> f, after |-> e]
Answer(i, s) == [kind |-> "answer", id |-> i, snap |-> s]
Screen(l) == [kind |-> "screen", id |-> None, cursor |-> l.cursor, bar |-> l.bar]

FreshClient ==
    [epoch |-> 1, prefetch |-> None, asked |-> None, routes |-> Nothing,
     ready |-> FALSE, stamp |-> 0, cache |-> Nothing, views |-> Nothing, deep |-> {},
     capture |-> "none", refresh |-> FALSE, screen |-> None, out |-> <<>>]

Init ==
    /\ srv \in [layout : {FirstLayout}, text : Scrollbacks, after : {1},
                dirty : {TRUE}]
    /\ cli = FreshClient /\ held = None /\ up = <<>> /\ down = <<>>
    /\ spent = [e \in Events |-> 0]

-----------------------------------------------------------------------------
(* The remote side *)

Visible == {p \in Panes : srv.layout.place[p] # None}

\* _capture_pane_history: the last n lines of a pane.  A pane may show an agent
\* of another session; when that cannot be resolved, the pane's own screen is
\* all there is, Capture(p, Height).
Capture(p, n) ==
    LET t == srv.text[p]
        k == Smaller(n, Len(t))
    IN  [pane |-> p, cell |-> srv.layout.place[p],
         lines |-> SubSeq(t, Len(t) - k + 1, Len(t))]

\* capture_history_batch: every visible pane.  If tmux does not answer there is
\* no pane, or one pane less.
ServePrefetch ==
    /\ up # <<>> /\ Head(up).kind = "prefetch" /\ Len(down) < MaxDown
    /\ LET Reply(f) == down' = Append(down, Batch(Head(up).id, f, srv.after))
       IN  \/ Reply([p \in Visible |-> Capture(p, HotLines)]) /\ UNCHANGED spent
           \/ \E p \in Visible, k \in {0, Height} :
                /\ Spend("fault")
                /\ Reply([x \in IF k = 0 THEN Visible \ {p} ELSE Visible |->
                            Capture(x, IF x = p THEN k ELSE HotLines)])
           \/ Visible # {} /\ Spend("fault") /\ Reply(Nothing)
           \/ Spend("fault") /\ UNCHANGED down      \* four answers wait already
    /\ up' = Tail(up)
    /\ UNCHANGED <<srv, cli, held>>

\* capture_history_snapshot: the pane that is at the position now.
PaneAt(x) == {p \in Visible : srv.layout.place[p] = x}
ServeRequest ==
    /\ up # <<>> /\ Head(up).kind = "request" /\ Len(down) < MaxDown
    /\ LET m == Head(up)
           Reply(s) == down' = Append(down, Answer(m.id, s))
       IN  \/ PaneAt(m.at) = {} /\ Reply(None) /\ UNCHANGED spent
           \/ \E p \in PaneAt(m.at) :
                \/ Reply(Capture(p, m.lines)) /\ UNCHANGED spent
                \/ \E s \in {Capture(p, Height), None} :
                     Spend("fault") /\ Reply(s)
           \/ Spend("fault") /\ UNCHANGED down
    /\ up' = Tail(up)
    /\ UNCHANGED <<srv, cli, held>>

ServeInput ==
    /\ up # <<>> /\ Head(up).kind = "input"
    /\ srv' = [srv EXCEPT !.after = Head(up).after, !.dirty = TRUE]
    /\ up' = Tail(up)
    /\ UNCHANGED <<cli, held, down, spent>>

\* Railmux changes its layout, the user changes focus or pages, an agent ends.
Relayout ==
    /\ Spend("layout")
    /\ \E l \in Layouts \ {srv.layout} :
         srv' = [srv EXCEPT !.layout = l, !.dirty = TRUE]
    /\ UNCHANGED <<cli, held, up, down>>

\* An agent prints a line, or rewrites one of its screen.
Output ==
    /\ Spend("output")
    /\ \E p \in Panes, t \in NewTexts, i \in 0..Height :
         LET q == srv.text[p]
         IN  srv' = [srv EXCEPT !.text[p] = IF i = 0 THEN Append(q, t)
                                            ELSE [q EXCEPT ![Len(q) - i + 1] = t],
                                !.dirty = TRUE]
    /\ UNCHANGED <<cli, held, up, down>>

SendScreen ==
    /\ srv.dirty /\ Len(down) < MaxDown
    /\ srv' = [srv EXCEPT !.dirty = FALSE]
    /\ down' = Append(down, Screen(srv.layout))
    /\ UNCHANGED <<cli, held, up, spent>>

Remote == ServePrefetch \/ ServeRequest \/ ServeInput \/ SendScreen

-----------------------------------------------------------------------------
(* The client: LocalHistoryView *)

\* What the user sees of a frozen pane.
Bottom(v) == Len(v.snap.lines) - v.offset
Shown(v) == [i \in 1..Height |-> v.snap.lines[Bottom(v) - Height + i]]
Highest(s) == Len(s.lines) - Height

RouteAt(c, x) == {p \in DOMAIN c.routes : c.routes[p].cell = x}
Same(s, t) == s.pane = t.pane /\ s.cell = t.cell
Near(c, x) == x = Edge /\ c.routes # Nothing

UsedIds(c) == {c.prefetch} \union {d.id : d \in c.deep}
              \union {m.id : m \in ToSet(up \o down \o c.out)}
NewId(c) == CHOOSE i \in 1..MaxIds : i \notin UsedIds(c)
CanAsk(c) == 1..MaxIds \ UsedIds(c) # {}

\* The answer to a request will not come.
Gone(i) == \A m \in ToSet(up \o down) : m.id # i

CancelPane(c, p) ==
    [c EXCEPT !.views = Without(@, {p}), !.deep = {d \in @ : d.pane # p}]
Cancel(c) ==
    [c EXCEPT !.views = Nothing, !.deep = {}, !.capture = "none"]

\* invalidate_routes
Invalidated(c) ==
    [Cancel(c) EXCEPT !.epoch = @ + 1, !.routes = Nothing, !.ready = FALSE,
                      !.prefetch = None, !.asked = None]
Refresh(c) == [c EXCEPT !.refresh = TRUE]
Forward(c, w, x) == [c EXCEPT !.out = Append(@, Input(c, w, x))]

MayAsk(c, late) == c.prefetch = None \/ late
\* begin_prefetch
BeginPrefetch(c, late) ==
    IF ~MayAsk(c, late) \/ ~CanAsk(c) THEN c
    ELSE [c EXCEPT !.prefetch = NewId(c), !.asked = c.epoch, !.refresh = FALSE,
                   !.out = Append(@, Prefetch(NewId(c)))]

\* _remember_content, for the texts f.  Beyond the limit a pane loses its text, a
\* pane of f last.  Which one is a choice; in the code the oldest goes first.
Caches(cache, f) ==
    LET all == Over(f, cache)
        n == Smaller(CacheLimit, Cardinality(DOMAIN all))
    IN  {[p \in K |-> all[p]] :
            K \in {S \in SUBSET DOMAIN all :
                     /\ Cardinality(S) = n
                     /\ S \subseteq DOMAIN f \/ DOMAIN f \subseteq S}}

\* Mutant: the routes change and the views of the other places remain.
MutMisplaced(c, f) == {}
\* The views whose pane has gone or is elsewhere.
Misplaced(c, f) ==
    {p \in DOMAIN c.views : p \notin DOMAIN f \/ ~Same(c.views[p].snap, f[p])}

\* Mutant: a batch is taken whatever it answers.
MutExpected(c, m) == c.prefetch # None
Expected(c, m) == m.id = c.prefetch /\ c.asked = c.epoch

\* accept_prefetch; cache: what _remember_content leaves.
AcceptPrefetch(c, m, cache) ==
    IF ~Expected(c, m) THEN c
    ELSE LET d == [c EXCEPT
                     !.prefetch = None, !.asked = None, !.routes = m.panes,
                     !.ready = TRUE, !.stamp = m.after, !.cache = cache]
             S == Misplaced(c, m.panes)
         IN  [d EXCEPT !.views = Without(@, S),
                       !.deep = {x \in @ : x.pane \notin S}]

Ask(c, p, x, n) ==
    [c EXCEPT !.deep = @ \union {[id |-> NewId(c), epoch |-> c.epoch, pane |-> p,
                                  lines |-> n]},
              !.out = Append(@, Request(NewId(c), x, n))]

\* Mutant: a pane may have two requests under way.
MutAsked(c, p) == FALSE
Asked(c, p) == \E d \in c.deep : d.pane = p

\* _extend_history; late: the pane's request has timed out.
Extend(c, p, late) ==
    LET d == IF late THEN [c EXCEPT !.deep = {x \in @ : x.pane # p}] ELSE c
        v == c.views[p]
    IN  IF \/ v.exhausted \/ v.limit >= HistoryLimit \/ Asked(d, p)
           \/ Highest(v.snap) - v.offset > LoadAhead \/ ~CanAsk(d)
        THEN d
        ELSE Ask(d, p, v.snap.cell,
                 Smaller(HistoryLimit, Larger(InitialLines, v.limit) + PageLines))

\* _start_history
Start(c, p, x, k) ==
    LET s == IF p \in DOMAIN c.cache /\ Same(c.cache[p], c.routes[p])
             THEN c.cache[p] ELSE c.routes[p]
        limit == Smaller(Len(s.lines), HistoryLimit)
        v == [snap |-> s, offset |-> Smaller(Highest(s), k), limit |-> limit,
              exhausted |-> FALSE]
        d == [CancelPane(c, p) EXCEPT !.views = With(@, p, v)]
    IN  IF Highest(s) = 0 THEN c
        ELSE IF limit >= InitialLines THEN Extend(d, p, FALSE)
        ELSE IF CanAsk(d) THEN Ask(d, p, x, InitialLines) ELSE d

\* Mutant: a fast tick goes past the oldest line.
MutUpward(v, k) == v.offset + k
Upward(v, k) == Smaller(Highest(v.snap), v.offset + k)
\* A tick over a pane that stands still.
Scroll(c, p, dir, k, late) ==
    LET v == c.views[p]
        o == IF dir = "up" THEN Upward(v, k)
             ELSE IF v.offset < k THEN 0 ELSE v.offset - k
        d == [c EXCEPT !.views[p].offset = o]
    IN  IF o = 0 THEN CancelPane(c, p)
        ELSE IF dir = "up" THEN Extend(d, p, late) ELSE d

\* wheel
Wheel(c, x, dir, k, late) ==
    IF RouteAt(c, x) = {}
    THEN IF ~c.ready THEN Refresh(c)
         ELSE IF Near(c, x) THEN c ELSE Forward(c, "wheel", x)
    ELSE LET p == CHOOSE q \in RouteAt(c, x) : TRUE
         IN  IF p \in DOMAIN c.views THEN Scroll(c, p, dir, k, late)
             ELSE IF dir = "up" THEN Start(c, p, x, k) ELSE c

-----------------------------------------------------------------------------
(* accept: a deeper capture takes the place of the one on the screen *)

Once(q, t) == Cardinality({i \in DOMAIN q : q[i] = t}) = 1
Starts(q) == 0..(Len(q) - Height)
Exact(q, rows) == {s \in Starts(q) : \A i \in 1..Height : q[s + i] = rows[i]}
Telling(rows) == {i \in 1..Height : rows[i] # Blank /\ Once(rows, rows[i])}
Votes(q, rows, s) ==
    Cardinality({i \in Telling(rows) : Once(q, rows[i]) /\ q[s + i] = rows[i]})
Winners(q, rows) ==
    {s \in Starts(q) :
        /\ Votes(q, rows, s) >= Larger(2, (Cardinality(Telling(rows)) + 1) \div 2)
        /\ \A r \in Starts(q) : Votes(q, rows, r) <= Votes(q, rows, s)}

\* Mutant: the place that most rows agree on, or any of them.
MutAligned(q, rows) == IF Exact(q, rows) # {} THEN Exact(q, rows) ELSE Starts(q)
\* _aligned_offset: the one place in the lines q that shows the rows.
Aligned(q, rows) ==
    LET S == IF Exact(q, rows) # {} THEN Exact(q, rows) ELSE Winners(q, rows)
    IN  IF Cardinality(S) = 1 THEN S ELSE {}

Accept(c, m, cache, late) ==
    LET asked == {d \in c.deep : d.id = m.id}
        c1 == [c EXCEPT !.deep = @ \ asked]
        s == m.snap
    IN  IF \/ asked = {} \/ s = None
           \/ \E d \in asked : d.epoch # c.epoch \/ d.pane # s.pane
           \/ s.pane \notin DOMAIN c.routes \/ ~Same(c.routes[s.pane], s)
        THEN c1
        ELSE LET p == s.pane
                 n == (CHOOSE d \in asked : TRUE).lines
                 c2 == [c1 EXCEPT !.cache = cache]
                 v == c2.views[p]
                 at == Aligned(s.lines, Shown(v))
             IN  IF p \notin DOMAIN c2.views THEN c2
                 ELSE IF Highest(s) = 0 THEN CancelPane(c2, p)
                 ELSE IF at = {} THEN c2
                 ELSE LET o == Highest(s) - (CHOOSE a \in at : TRUE)
                          w == [snap |-> s, offset |-> o, limit |-> n,
                                exhausted |-> Len(s.lines) < n \/ n >= HistoryLimit]
                      IN  Extend([c2 EXCEPT !.views[p] = w], p, late)

-----------------------------------------------------------------------------
(* The client: the user's mouse and keyboard (pointer_event, wheel,         *)
(* handle_terminal_part)                                                    *)

Frozen(c, x) == {p \in DOMAIN c.views : c.views[p].snap.cell = x}
OnBar(c, x) == x = Bar /\ c.screen # None /\ c.screen.bar
CursorPane(c) == IF c.screen = None THEN {} ELSE RouteAt(c, c.screen.cursor)

\* On the status row everything is forwarded; a press may change the page.
BarEvent(c, w) ==
    IF w = "press" THEN Refresh(Forward(Invalidated(c), w, Bar))
    ELSE Forward(c, w, Bar)

\* Mutant: the drag that follows a press on an agent is forwarded too.
MutSwallowed(c, w) == FALSE
\* The motion that follows a press on an agent pane stays here.
Swallowed(c, w) == w = "drag" /\ c.capture = "agent"

Captured(c, w, x) ==
    IF c.capture = "local"
    THEN IF w = "release" THEN [c EXCEPT !.capture = "none"] ELSE c
    ELSE IF w = "release" THEN Forward([c EXCEPT !.capture = "none"], w, x)
    ELSE IF Swallowed(c, w) THEN c ELSE Forward(c, w, x)

Press(c, x) ==
    LET Taken(d, k) == Refresh(Forward([d EXCEPT !.capture = k], "press", x))
    IN  IF Frozen(c, x) # {}
        THEN IF Frozen(c, x) \cap CursorPane(c) = {} THEN Taken(c, "agent")
             ELSE [c EXCEPT !.capture = "local"]
        ELSE IF RouteAt(c, x) # {} THEN Taken(c, "agent")
        ELSE Taken(Invalidated(c), "other")

\* pointer_event for the button
Button(c, w, x) ==
    IF OnBar(c, x) THEN BarEvent(c, w)
    ELSE IF c.capture # "none" THEN Captured(c, w, x)
    ELSE IF w = "press" THEN Press(c, x) ELSE c

\* pointer_event for the wheel
WheelEvent(c, x, dir, k, late) ==
    IF OnBar(c, x) THEN Forward(c, "wheel", x)
    ELSE IF c.capture = "local" THEN c
    ELSE IF c.capture = "other" THEN Forward(c, "wheel", x)
    ELSE Wheel(c, x, dir, k, late)

\* screen_input_may_change_routes
MayChange(c, w) ==
    \/ w = "layout"
    \/ w # "focus" /\ c.routes # Nothing /\ CursorPane(c) = {}
    \/ w \in {"esc", "enter"} /\ c.routes = Nothing

\* cancel_for_input: typing brings back the pane that is typed into.
Typed(c) ==
    IF CursorPane(c) = {} THEN Cancel(c)
    ELSE CancelPane(c, CHOOSE p \in CursorPane(c) : TRUE)

Key(c, w) ==
    LET active == c.views # Nothing \/ c.deep # {}
    IN  IF active /\ w = "esc" THEN Cancel(c)
        ELSE IF MayChange(c, w) THEN Refresh(Forward(Invalidated(c), "key", None))
        ELSE IF active /\ w # "focus" THEN Forward(Typed(c), "key", None)
        ELSE Forward(c, "key", None)

\* A resize that is no soft keyboard's: clear_cache.
Resized(c) ==
    Refresh(Forward([Invalidated(c) EXCEPT !.cache = Nothing], "resize", None))

Sent(c) == up' = up \o c.out /\ cli' = [c EXCEPT !.out = <<>>]

\* What the user does, and the clock, leave a bounded number under way.
Room(c) == Sent(c) /\ Len(up') <= MaxUp

UserWheels ==
    /\ Spend("wheel")
    /\ \E x \in Positions, dir \in {"up", "down"}, k \in ScrollSteps, l \in BOOLEAN :
         Room(WheelEvent(cli, x, dir, k, l))
    /\ UNCHANGED <<srv, held, down>>

On(c, x) == IF RouteAt(c, x) \union Frozen(c, x) # {} /\ ~OnBar(c, x) THEN "agent"
            ELSE "other"
UserPresses ==
    /\ held = None /\ Spend("button")
    /\ \E x \in Positions : /\ held' = On(cli, x)
                            /\ Room(Button(cli, "press", x))
    /\ UNCHANGED <<srv, down>>
UserDrags ==
    /\ held # None /\ Spend("button")
    /\ \E x \in Positions : Room(Button(cli, "drag", x))
    /\ UNCHANGED <<srv, held, down>>
UserReleases ==
    /\ held # None /\ held' = None
    /\ \E x \in Positions : Room(Button(cli, "release", x))
    /\ UNCHANGED <<srv, down, spent>>
UserTypes ==
    /\ Spend("key")
    /\ \E w \in {"layout", "esc", "enter", "text", "focus"} : Room(Key(cli, w))
    /\ UNCHANGED <<srv, held, down>>
UserResizes ==
    /\ Spend("resize")
    /\ Room(Resized(cli))
    /\ UNCHANGED <<srv, held, down>>

User == UserWheels \/ UserPresses \/ UserDrags \/ UserReleases \/ UserTypes
        \/ UserResizes

-----------------------------------------------------------------------------
(* The client: messages and the periodic prefetch (run) *)

\* A pending prefetch times out when no answer will come, or too early.
TimesOut(late) ==
    IF ~late THEN UNCHANGED spent
    ELSE /\ cli.prefetch # None
         /\ IF Gone(cli.prefetch) THEN UNCHANGED spent ELSE Spend("fault")

ReceiveBatch ==
    /\ down # <<>> /\ Head(down).kind = "batch"
    /\ \E cache \in Caches(cli.cache, Head(down).panes) :
         Sent(AcceptPrefetch(cli, Head(down), cache))
    /\ down' = Tail(down)
    /\ UNCHANGED <<srv, held, spent>>

Learned(m) == IF m.snap = None THEN Nothing ELSE With(Nothing, m.snap.pane, m.snap)
ReceiveAnswer ==
    /\ down # <<>> /\ Head(down).kind = "answer"
    /\ \E late \in BOOLEAN, cache \in Caches(cli.cache, Learned(Head(down))) :
         Sent(Accept(cli, Head(down), cache, late))
    /\ down' = Tail(down)
    /\ UNCHANGED <<srv, held, spent>>

\* A screen after an input that may have moved panes calls for new routes.
ReceiveScreen ==
    /\ down # <<>> /\ Head(down).kind = "screen"
    /\ LET c == [cli EXCEPT !.screen = [cursor |-> Head(down).cursor,
                                        bar |-> Head(down).bar]]
       IN  IF c.refresh
           THEN \E late \in BOOLEAN :
                  /\ TimesOut(late)
                  /\ LET d == BeginPrefetch(c, late)
                     IN  Sent([d EXCEPT !.refresh = @ /\ d.prefetch = None])
           ELSE Sent(c) /\ UNCHANGED spent
    /\ down' = Tail(down)
    /\ UNCHANGED <<srv, held>>

Tick ==
    /\ cli.screen # None
    /\ \E late \in BOOLEAN :
         /\ TimesOut(late) /\ MayAsk(cli, late) /\ CanAsk(cli)
         /\ Room(BeginPrefetch(cli, late))
    /\ UNCHANGED <<srv, held, down>>

Client == ReceiveBatch \/ ReceiveAnswer \/ ReceiveScreen \/ Tick

Next == Remote \/ Relayout \/ Output \/ User \/ Client

Spec == Init /\ [][Next]_vars

-----------------------------------------------------------------------------
Snapshots == [pane : Panes, cell : Cells, lines : Seq(Texts)]
Views == [snap : Snapshots, offset : Nat, limit : Nat, exhausted : BOOLEAN]

\* The types.  A view has at least a pane of lines, and its offset stays inside
\* them; a wheel or an answer never leads it past either end.
TypeOK ==
    /\ srv.layout \in Layouts /\ \A p \in Panes : srv.text[p] \in Seq(Texts)
    /\ srv.after \in 1..cli.epoch /\ srv.dirty \in BOOLEAN
    /\ cli.epoch \in Nat /\ cli.stamp \in 0..cli.epoch
    /\ DOMAIN cli.routes \subseteq Panes /\ DOMAIN cli.views \subseteq Panes
    /\ \A p \in DOMAIN cli.routes : cli.routes[p] \in Snapshots
    /\ \A p \in DOMAIN cli.views :
         /\ cli.views[p] \in Views
         /\ cli.views[p].offset \in 0..Highest(cli.views[p].snap)
    /\ \A p \in DOMAIN cli.cache : cli.cache[p] \in Snapshots
    /\ Cardinality(DOMAIN cli.cache) <= CacheLimit
    /\ cli.capture \in {"none", "local", "agent", "other"}
    /\ cli.out = <<>> /\ held \in {None, "agent", "other"}

\* A frozen pane is painted where its pane is: whatever order batches, deep
\* answers, clicks and keys come in, every view belongs to a route in force and
\* stands on that route's place, with text of that pane.
InPlace ==
    \A p \in DOMAIN cli.views :
        /\ p \in DOMAIN cli.routes /\ cli.views[p].snap.pane = p
        /\ Same(cli.views[p].snap, cli.routes[p])

\* Routes are never older than what the user has done: the helper captured them
\* after the last input or resize that may have changed the layout, and no
\* answer to an earlier question puts the old ones back.
RoutesAfterInput == cli.ready => cli.stamp = cli.epoch

\* A pane waits for at most one deep capture, and only while it is frozen.
OneAsked ==
    \A d \in cli.deep : /\ d.pane \in DOMAIN cli.views
                        /\ \A e \in cli.deep : e.pane = d.pane => e = d

\* The client implements PaneView: an answer from the remote side, output,
\* a resize or a click never makes a reader lose his place.
View == INSTANCE PaneView WITH
    Live <- None,
    view <- [p \in Panes |-> IF p \in DOMAIN cli.views THEN Shown(cli.views[p])
                             ELSE None],
    turns <- spent["wheel"]
StandsStill == View!Spec

Forwards(w, x) ==
    /\ Len(up') > Len(up) /\ up'[Len(up')].kind = "input"
    /\ \E y \in x : up'[Len(up')].what = <<w, y>>

\* docs/ARCHITECTURE.md: a press over an agent is forwarded, the drag that
\* follows is not, so that tmux does not enter copy-mode.  Whatever happens
\* between, except on the status row.
ClickOnly ==
    [][held = "agent" => ~Forwards("drag", Positions \ {Bar})]_vars

\* The same on every row, as the document says it.
NoDrag == [][held = "agent" => ~Forwards("drag", Positions)]_vars

\* docs/ARCHITECTURE.md: a wheel fails closed while the client does not know
\* where the agents are.  With no button down, and a layout that has never
\* changed, none is forwarded from the place where a pane is.
Placed == {srv.layout.place[p] : p \in Panes}
NoWheel ==
    [][held = None /\ spent["layout"] = 0 => ~Forwards("wheel", Placed \cap Cells)]_vars

=============================================================================
