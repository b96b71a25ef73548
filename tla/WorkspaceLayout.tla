-------------------------- MODULE WorkspaceLayout --------------------------
(***************************************************************************)
(* The two agent panes beside the sidebar (ui/workspace.py and the layout  *)
(* code of ui/app.py): F8 cycles single, side-by-side and stacked; a       *)
(* window too small for two panes shows the sidebar and the Target alone   *)
(* (the adaptive single view) and gives both back when it grows; a cramped *)
(* one zooms one page at a time (compact); a refresh rebuilds what agents  *)
(* that exit and panes that are killed leave behind.                       *)
(*                                                                         *)
(* The controller runs one handler at a time.  A handler is an operator    *)
(* from the workspace record ws to the set of records it may leave: every  *)
(* tmux call it makes may fail, at most MaxFaults times in a behaviour,    *)
(* and the field ok is what the call returned.  The display transport is   *)
(* taken at its contract (DisplayTransport models its steps).  The split   *)
(* proportions and the sidebar's own rows are left out.                    *)
(***************************************************************************)
EXTENDS Integers, FiniteSets

CONSTANTS
    Agents,     \* the agent sessions of this window
    None,       \* no agent
    Sizes,      \* the <<width, height>> the outer window takes
    Profiles,   \* the layouts a saved profile may ask for, or "none"
    MaxEvents,  \* bound: what the user, the agents and the terminal do
    MaxFaults   \* bound: the tmux calls that fail

ASSUME BoundsAssumption ==
    /\ None \notin Agents
    /\ Sizes \subseteq Nat \X Nat
    /\ Profiles \subseteq {"none", "single", "side-by-side", "stacked"}
    /\ MaxEvents \in Nat
    /\ MaxFaults \in Nat

VARIABLES
    ws,      \* the workspace, its panes in tmux and the Running registry
    size,    \* the outer window's size
    events   \* how many events have happened

vars == <<ws, size, events>>

Layouts == {"single", "side-by-side", "stacked"}
Slots == {"primary", "secondary"}
Pages == Slots \cup {"sidebar"}
Other(s) == IF s = "primary" THEN "secondary" ELSE "primary"
Named == Agents \cup {None}

\* One display slot: its outer pane, the agent it names, whether it is a
\* transcript preview, and the agent to restore when the preview ends.
Slot == [pane : {"none", "live", "dead"}, agent : Named,
         history : BOOLEAN, under : Named]
Closed == [pane |-> "none", agent |-> None, history |-> FALSE,
           under |-> None]
Empty == [Closed EXCEPT !.pane = "live"]

\* What a recovery record keeps of a slot.
Content == [kind : {"empty", "agent", "preview"}, agent : Named]
Saved(slot) ==
    IF slot.history THEN [kind |-> "preview", agent |-> slot.under]
    ELSE [kind |-> IF slot.agent = None THEN "empty" ELSE "agent",
          agent |-> slot.agent]
SavedAgent(c) == IF c.kind = "agent" THEN c.agent ELSE None

\* The dual workspace an adaptive single view stands for; layout "single"
\* means there is none.
View == [layout : Layouts, target : Slots, visible : Slots,
         slots : [Slots -> Content], guards : SUBSET Agents]
NoView == [layout |-> "single", target |-> "primary", visible |-> "primary",
           slots |-> [s \in Slots |-> Saved(Closed)], guards |-> {}]

(***************************************************************************)
(* Geometry.                                                               *)
(***************************************************************************)
MinimumPane == <<50, 12>>

\* Cramped enters compact; only the larger threshold leaves it.
PresentationFor(current, sz) ==
    IF current = "wide"
    THEN IF sz[1] < 80 \/ sz[2] < 24 THEN "compact" ELSE "wide"
    ELSE IF sz[1] >= 84 /\ sz[2] >= 26 THEN "wide" ELSE "compact"

NextLayout == [l \in Layouts |-> CASE l = "single" -> "side-by-side"
                                   [] l = "side-by-side" -> "stacked"
                                   [] l = "stacked" -> "single"]

\* The sidebar of a dual layout: a fifth of the window, at least 30 columns.
DualSidebar(width) ==
    LET fifth == (width * 20 + 50) \div 100
    IN  IF fifth < 30 THEN 30 ELSE fifth

Positive(n) == IF n < 0 THEN 0 ELSE n
ProjectedAgentSize(region, layout) ==
    <<IF layout = "side-by-side" THEN Positive(region[1] - 1) \div 2
      ELSE region[1],
      IF layout = "stacked" THEN Positive(region[2] - 1) \div 2
      ELSE region[2]>>

\* Do both panes of a layout stay usable in the window?  Coming back from
\* the single view asks for a margin.
Fits(layout, margin) ==
    layout = "single" \/
    LET region == <<Positive(size[1] - DualSidebar(size[1]) - 1), size[2]>>
        pane == ProjectedAgentSize(region, layout)
    IN  /\ pane[1] >= MinimumPane[1] + (IF margin THEN 2 ELSE 0)
        /\ pane[2] >= MinimumPane[2] + (IF margin THEN 1 ELSE 0)

(***************************************************************************)
(* Outcomes.  A step returns a set of records; Then goes on from each,     *)
(* Either goes on by what the step returned.                               *)
(***************************************************************************)
Yes(w) == [w EXCEPT !.ok = TRUE]
No(w) == [w EXCEPT !.ok = FALSE]
Then(outcomes, Next_(_)) == UNION {Next_(w) : w \in outcomes}
Either(outcomes, Good(_), Bad(_)) ==
    UNION {IF w.ok THEN Good(w) ELSE Bad(w) : w \in outcomes}
\* One tmux call fails and leaves w.
Fail(w) == IF w.faults = MaxFaults THEN {}
           ELSE {[w EXCEPT !.faults = @ + 1, !.ok = FALSE]}

Live(w, p) == p # "sidebar" => w.slots[p].pane = "live"
Hidden(w) == w.adaptive.layout # "single"
\* tmux can size the panes of the layout.
RegionKnown(w) ==
    Live(w, "primary") /\ (w.layout = "single" \/ Live(w, "secondary"))
SetSlot(w, s, slot) == [w EXCEPT !.slots[s] = slot]
Shows(w, s, a) == SetSlot(w, s, [w.slots[s] EXCEPT !.agent = a])

\* A pane is gone: tmux unzooms the window, and when it was the active one
\* makes another the active one.
Lose(w, s, slot) ==
    {[SetSlot(w, s, slot) EXCEPT !.zoomed = FALSE, !.active = p] :
        p \in IF w.active = s THEN {q \in Pages \ {s} : Live(w, q)}
              ELSE {w.active}}

(***************************************************************************)
(* The display transport.                                                  *)
(***************************************************************************)
\* The agent is home again, and the slot's pane shows nothing.
Emptied(w, s) == SetSlot(w, s, Empty)

CreatePrimary(w) ==
    IF Live(w, "primary") THEN {Yes(w)}
    ELSE Fail(SetSlot(w, "primary", Closed))
         \cup {Yes([SetSlot(w, "primary", Empty) EXCEPT !.zoomed = FALSE])}

CreateSecondary(w, layout) ==
    CASE Live(w, "secondary") -> {Yes(w)}
      [] ~Live(w, "secondary") /\ ~Live(w, "primary") -> {No(w)}
      [] OTHER -> Fail(SetSlot(w, "secondary", Closed))
                  \cup {Yes([SetSlot(w, "secondary", Empty) EXCEPT
                                !.layout = layout, !.zoomed = FALSE])}

\* The agent does not come home, or it does and the pane is not killed.
CloseSlot(w, s) ==
    Fail(w)
    \cup (IF Live(w, s) THEN Fail(Shows(w, s, None)) ELSE {})
    \cup {Yes(v) : v \in IF Live(w, s) THEN Lose(w, s, Closed)
                         ELSE {SetSlot(w, s, Closed)}}

ResetSlot(w, s) ==
    IF ~Live(w, s) THEN {No(w)}
    ELSE Fail(w) \cup Fail(Shows(w, s, None)) \cup {Yes(Emptied(w, s))}

\* A failed attach keeps the old display, empties the pane, or, when there
\* was no live pane, creates none; or the new agent stays on display, as a
\* swap that could not be verified and not be undone.  The session of a dead
\* agent ends its client at once.
Display(w, s, a) ==
    LET shown == [w.slots[s] EXCEPT !.agent = a,
                  !.pane = IF a \in w.alive THEN "live" ELSE "dead"]
        Up == {[SetSlot(w, s, shown) EXCEPT !.zoomed = z] :
                  z \in {FALSE, w.zoomed}}
    IN  Fail(w)
        \cup (IF Live(w, s) THEN Fail(Shows(w, s, None))
              ELSE Fail(SetSlot(w, s, [w.slots[s] EXCEPT !.pane = "none"])))
        \cup (IF a \in w.alive THEN UNION {{Yes(v)} \cup Fail(v) : v \in Up}
              ELSE {Yes(v) : v \in Lose(w, s, shown)})

\* Mutant: an agent may be opened in both slots.
MutCanDisplay(w, s, a) == w.slots[s].agent # a
\* At most one slot names an agent.
CanDisplay(w, s, a) == w.slots[Other(s)].agent # a

(***************************************************************************)
(* The saved layout profile: applied once, after the first primary pane.   *)
(***************************************************************************)
\* An attempt that does not fit gives the profile up for this run.
ProfileGivenUp(w) == No([w EXCEPT !.profile = "none"])

ApplyLayoutProfile(w) ==
    LET Applied(v) == {Yes([v EXCEPT !.profile = "none"])}
                      \cup {ProfileGivenUp(x) : x \in Fail(v)}
        \* A pane created for the profile goes again when it does not do.
        Created(v) ==
            {Yes([v EXCEPT !.profile = "none"])}
            \cup {ProfileGivenUp([x EXCEPT !.layout = "single"]) :
                    x \in Then(Fail(v),
                               LAMBDA y : CloseSlot(y, "secondary"))}
    IN  IF w.presentation = "compact" \/ w.profile = "none"
           \/ w.slots["primary"].pane = "none"
        THEN {No(w)}
        ELSE IF w.profile = w.layout
             THEN IF w.layout = "single" \/ (RegionKnown(w)
                     /\ Fits(w.layout, FALSE))
                  THEN Applied(w) ELSE {ProfileGivenUp(w)}
             ELSE IF w.layout = "single" /\ RegionKnown(w)
                     /\ Fits(w.profile, FALSE)
                  THEN Either(CreateSecondary(w, w.profile), Created,
                              LAMBDA v : {ProfileGivenUp(v)})
                  ELSE {ProfileGivenUp(w)}

\* Make a slot display an agent; Quiet while a workspace is being restored.
Attach(w, s, a) ==
    IF ~CanDisplay(w, s, a) THEN {No(w)}
    ELSE Either(Display(w, s, a),
            LAMBDA v : IF s = "primary"
                       THEN {Yes(x) : x \in ApplyLayoutProfile(v)}
                       ELSE {v},
            LAMBDA v : {v})
AttachQuiet(w, s, a) ==
    IF CanDisplay(w, s, a) THEN Display(w, s, a) ELSE {No(w)}

(***************************************************************************)
(* Content.                                                                *)
(***************************************************************************)
\* A preview sends the agent home, then respawns the pane (or creates it)
\* as the pager.
ShowTranscript(w, s, under) ==
    LET shown == [pane |-> "live", agent |-> None, history |-> TRUE,
                  under |-> under]
    IN  IF w.slots[s].pane = "dead" THEN {No(w)}
        ELSE Fail(w)
             \cup (IF Live(w, s) THEN Fail(Shows(w, s, None)) ELSE {})
             \cup {Yes([SetSlot(w, s, shown) EXCEPT
                          !.zoomed = @ /\ Live(w, s)])}

Represented(w, a) == a \in w.running \cap w.alive

\* Mutant: a hidden preview comes back as an empty pane.
MutReplaceSlotContent(w, s, c) ==
    IF c.kind = "agent" /\ Represented(w, c.agent)
    THEN AttachQuiet(w, s, c.agent) ELSE ResetSlot(w, s)

\* Put saved content back: an agent only when it is represented, without
\* touching the slot's preview flag, a preview only when its project and its
\* transcript are found.
ReplaceSlotContent(w, s, c) ==
    CASE c.kind = "empty" -> ResetSlot(w, s)
      [] c.kind = "agent" -> IF Represented(w, c.agent)
                             THEN AttachQuiet(w, s, c.agent) ELSE {No(w)}
      [] c.kind = "preview" ->
            {No(w)} \cup ShowTranscript(w, s, IF Represented(w, c.agent)
                                             THEN c.agent ELSE None)

(***************************************************************************)
(* Focus and pages.                                                        *)
(***************************************************************************)
Select(w, p) == IF Live(w, p) THEN [w EXCEPT !.active = p,
                                    !.zoomed = @ /\ w.active = p]
                ELSE w

\* Mutant: the sidebar's page becomes the Target too.
MutSelectWorkspacePage(w, p) ==
    IF Live(w, p)
    THEN {Yes([w EXCEPT !.active = p, !.zoomed = TRUE, !.page = p,
                        !.target = p, !.focus = p = "sidebar"])}
    ELSE {No(w)}

\* Select one page and zoom it; an agent's page makes it the Target.
SelectWorkspacePage(w, p) ==
    IF ~Live(w, p) THEN {No(w)}
    ELSE Fail(w) \cup Fail([w EXCEPT !.zoomed = FALSE])
         \cup {Yes([w EXCEPT !.active = p, !.zoomed = TRUE, !.page = p,
                    !.target = IF p = "sidebar" THEN @ ELSE p,
                    !.focus = p = "sidebar"])}

\* Zoom again what survives of the compact page.
RestoreCompactPage(w) ==
    IF w.presentation # "compact" THEN {Yes(w)}
    ELSE SelectWorkspacePage(w,
            IF w.page = "sidebar" \/ w.slots[w.page].pane # "none" THEN w.page
            ELSE IF w.slots["primary"].pane # "none" THEN "primary"
            ELSE "sidebar")

\* Follow tmux's active pane.  Back on the sidebar the Target is the pane
\* the user came from, which may be any open one.
ReconcileFocusFromTmux(w) ==
    LET Seen(v) == [v EXCEPT !.page =
                       IF v.presentation = "compact" THEN v.active ELSE @]
        On(v, s) == [Seen(v) EXCEPT !.target = s, !.focus = FALSE]
    IN  IF w.active # "sidebar" THEN {On(w, w.active)}
        ELSE IF w.focus THEN {Seen(w)}
        ELSE {[Seen(w) EXCEPT !.focus = TRUE, !.target = t] :
                t \in {w.target} \cup {s \in Slots : Live(w, s)}}

(***************************************************************************)
(* The adaptive single view.                                               *)
(***************************************************************************)
\* Remove Pane 2; its agent continues, and F8 may open it again.
CloseSecondarySplit(w) ==
    IF w.slots["secondary"].pane = "none" THEN {No(w)}
    ELSE LET left == w.slots["secondary"].agent
         IN  Either(CloseSlot(w, "secondary"),
                LAMBDA v : {[(IF v.focus THEN v ELSE Select(v, "primary"))
                    EXCEPT !.layout = "single", !.target = "primary",
                           !.collapsed = IF left = None THEN @ ELSE left]},
                LAMBDA v : {v})

SetSingleViewFocus(w, onSidebar) ==
    [Select(w, IF onSidebar THEN "sidebar" ELSE "primary")
        EXCEPT !.target = "primary", !.focus = onSidebar]

\* Show the sidebar and the Target; the other agent goes home.
EnterAdaptiveSingleView(w) ==
    LET saved == [s \in Slots |-> Saved(w.slots[s])]
        view == [layout |-> w.layout, target |-> w.target,
                 visible |-> w.target, slots |-> saved,
                 guards |-> {a \in w.running \cap w.alive :
                               \E s \in Slots : SavedAgent(saved[s]) = a}]
        Entered(v) == {Yes(SetSingleViewFocus(
            [v EXCEPT !.adaptive = view,
                      !.collapsed = SavedAgent(saved[Other(w.target)])],
            w.focus))}
        \* Best effort: the two panes again, with Pane 2's own content.
        Back(v) == Either(CreateSecondary(v, w.layout),
            LAMBDA x : Either(
                ReplaceSlotContent(x, "secondary", saved["secondary"]),
                LAMBDA y : {No([(IF w.focus THEN y ELSE Select(y, w.target))
                    EXCEPT !.collapsed = None, !.target = w.target,
                           !.focus = w.focus])},
                LAMBDA y : {No(y)}),
            LAMBDA x : {No(x)})
    IN  IF w.layout = "single" \/ w.presentation # "wide" \/ Hidden(w)
        THEN {No(w)}
        ELSE Either(CloseSecondarySplit(w),
                LAMBDA v : IF w.target = "primary" THEN Entered(v)
                           ELSE Either(ReplaceSlotContent(v, "primary",
                                           saved["secondary"]),
                                       Entered, Back),
                LAMBDA v : {No(v)})

\* Mutants: a failed restore leaves the pane it made, or gives the dual
\* layout up.
MutLeftOpen(w, visible, onSidebar) ==
    {No(SetSingleViewFocus(v, onSidebar)) :
        v \in ReplaceSlotContent([w EXCEPT !.layout = "single"], "primary",
                                 visible)}
MutGivenUp(w, visible, onSidebar) ==
    {No([v EXCEPT !.layout = "single", !.adaptive = NoView]) :
        v \in CloseSlot(w, "secondary")}

\* After a failed restore: one pane, showing what was visible.
RollbackAdaptiveSingleView(w, visible, onSidebar) ==
    LET hidden == SavedAgent(w.adaptive.slots[Other(w.adaptive.visible)])
        One(v) == [v EXCEPT !.layout = "single"]
    IN  {No(SetSingleViewFocus([x EXCEPT !.collapsed = hidden], onSidebar)) :
            x \in Then(IF w.slots["secondary"].pane # "none"
                       THEN CloseSlot(w, "secondary") ELSE {w},
                       LAMBDA v : ReplaceSlotContent(One(v), "primary",
                                                     visible))}

\* Hidden agents that fell out of the registry while alive come back.
RepairAdaptiveRunningGuards(w) ==
    LET back == (w.adaptive.guards \cap w.alive) \ w.running
    IN  IF Hidden(w) /\ back # {}
        THEN [w EXCEPT !.running = @ \cup back, !.failedAt = None]
        ELSE w

\* Both original slots again; what is visible now belongs to the slot whose
\* place it took.
RestoreAdaptiveDualView(w) ==
    LET visible == Saved(w.slots["primary"])
        view == [w.adaptive EXCEPT !.slots[w.adaptive.visible] = visible]
        start == RepairAdaptiveRunningGuards([w EXCEPT !.adaptive = view])
        key == IF w.focus THEN view.target ELSE view.visible
        Rollback(v) == RollbackAdaptiveSingleView(v, visible, w.focus)
        Whole(v) == {Yes([Select(v, IF w.focus THEN "sidebar" ELSE key)
            EXCEPT !.layout = view.layout, !.collapsed = None,
                   !.target = key, !.focus = w.focus, !.adaptive = NoView])}
        Fill(v) == Either(
            ReplaceSlotContent(v, "secondary", view.slots["secondary"]),
            Whole, Rollback)
        Split(v) == Either(CreateSecondary(v, view.layout), Fill, Rollback)
    IN  IF view.visible = "primary" THEN Split(start)
        ELSE Either(ReplaceSlotContent(start, "primary",
                                       view.slots["primary"]),
                    Split, Rollback)

\* Enter or leave the single view; a size at which that failed is not tried
\* again.
SyncAdaptiveSingleView(w) ==
    LET fresh == [w EXCEPT !.failedAt = None]
        Tried(outcomes) == {IF v.ok THEN v ELSE [v EXCEPT !.failedAt = size] :
                              v \in outcomes}
    IN  IF w.presentation # "wide" \/ w.failedAt = size THEN {w}
        ELSE IF Hidden(w)
        THEN IF Fits(w.adaptive.layout, TRUE)
             THEN Tried(RestoreAdaptiveDualView(fresh)) ELSE {fresh}
        ELSE IF Fits(w.layout, FALSE) THEN {fresh}
             ELSE Tried(EnterAdaptiveSingleView(fresh))

(***************************************************************************)
(* Presentation: the size poll.                                            *)
(***************************************************************************)
\* Compact needs every pane of the logical layout before it zooms one page.
EnterCompact(w) ==
    LET c == [w EXCEPT !.presentation = "compact"]
    IN  Then(IF Hidden(c) THEN RestoreAdaptiveDualView(c) ELSE {c},
             LAMBDA v : Either(SelectWorkspacePage(v, v.active),
                 LAMBDA x : {x},
                 LAMBDA x : IF v.active = "sidebar" THEN {x}
                            ELSE SelectWorkspacePage(x, "sidebar")))

LeaveCompact(w) ==
    (IF w.zoomed THEN Fail(w) ELSE {})
    \cup Then(ApplyLayoutProfile([w EXCEPT !.zoomed = FALSE,
                                           !.presentation = "wide"]),
              ReconcileFocusFromTmux)

SetWorkspacePresentation(w, presentation) ==
    IF w.presentation = presentation THEN {w}
    ELSE IF presentation = "compact" THEN EnterCompact(w) ELSE LeaveCompact(w)

\* Mutant: a page is zoomed on entering compact only.
MutCheckTerminalSize(w) ==
    Then(SetWorkspacePresentation(w,
             PresentationFor(w.presentation, size)), SyncAdaptiveSingleView)

CheckTerminalSize(w) ==
    LET Heal(v) == IF v.presentation = "compact" /\ ~v.zoomed
                   THEN RestoreCompactPage(v) ELSE {v}
    IN  Then(Then(SetWorkspacePresentation(w,
                      PresentationFor(w.presentation, size)), Heal),
             SyncAdaptiveSingleView)

(***************************************************************************)
(* F8.                                                                     *)
(***************************************************************************)
\* The next layout that fits; a compact page hides how small its panes are.
NextAvailableLayout(w, current) ==
    LET next == NextLayout[current]
        Usable(l) == w.presentation = "compact" \/ Fits(l, FALSE)
    IN  IF Usable(next) THEN next
        ELSE IF NextLayout[next] # current /\ Usable(NextLayout[next])
        THEN NextLayout[next] ELSE current

\* Mutant: Pane 2 is built without its agent.
MutRebuildSecondary(w, layout, a) == CreateSecondary(w, layout)

RebuildSecondary(w, layout, a) ==
    Either(CreateSecondary(w, layout),
        LAMBDA v : IF a = None THEN {v} ELSE Attach(v, "secondary", a),
        LAMBDA v : {v})

\* What a failed rebuild leaves: one pane, whatever closing the other did.
Abandoned(w) == {[v EXCEPT !.layout = "single"] : v \in CloseSlot(w, "secondary")}

\* From a single pane: Pane 2 with the remembered agent, if it still lives.
OpenSecondary(w) ==
    LET kept == w.collapsed \in w.alive /\ w.collapsed # w.slots["primary"].agent
        a == IF kept THEN w.collapsed ELSE None
        v == [w EXCEPT !.collapsed = a]
        next == NextAvailableLayout(v, "single")
    IN  IF ~RegionKnown(v) \/ next = "single" THEN {No(v)}
        ELSE Either(RebuildSecondary(v, next, a),
            LAMBDA x : {[(IF x.focus THEN x ELSE Select(x, "primary"))
                            EXCEPT !.target = "primary"]},
            LAMBDA x : {No([y EXCEPT !.target = "primary"]) :
                            y \in Abandoned(x)})

\* Turn two panes: close Pane 2 and build it in the next orientation, or
\* back in the old one.
TurnSplit(w) ==
    LET next == NextAvailableLayout(w, w.layout)
        a == w.slots["secondary"].agent
        Turned(v) == {IF w.active = "sidebar" THEN [v EXCEPT !.target = w.target]
                      ELSE [Select(v, w.active) EXCEPT !.target = w.active]}
        Back(v) == Either(Then(Abandoned(v),
                               LAMBDA x : RebuildSecondary(x, w.layout, a)),
            LAMBDA x : {No(x)},
            LAMBDA x : {No([y EXCEPT !.target = "primary"]) :
                            y \in Abandoned(x)})
    IN  IF ~RegionKnown(w) THEN {No(w)}
        ELSE IF next = "single" THEN CloseSecondarySplit(w)
        ELSE Either(CloseSlot(w, "secondary"),
                LAMBDA v : Either(RebuildSecondary(
                                      [v EXCEPT !.layout = "single"], next, a),
                                  Turned, Back),
                LAMBDA v : {v})

RotateSplitAttempt(w) ==
    CASE w.layout = "stacked" -> CloseSecondarySplit(w)
      [] w.layout = "single" -> OpenSecondary(w)
      [] w.layout = "side-by-side" ->
            IF w.slots["secondary"].pane = "none"
            THEN {No([w EXCEPT !.layout = "single"])} ELSE TurnSplit(w)

\* F8 owns the geometry from the moment it commits.
RotateSplit(w) ==
    Then(RotateSplitAttempt([w EXCEPT !.adaptive = NoView]),
         LAMBDA v : RestoreCompactPage(
             IF v.ok THEN [v EXCEPT !.profile = "none"] ELSE v))

(***************************************************************************)
(* The refresh: slots against what tmux shows.                             *)
(***************************************************************************)
\* The agent a lost pane goes on with, when `dead' are the sessions read as
\* gone.
SlotReopenTarget(w, slot, dead) ==
    IF slot.history
    THEN IF slot.under \in w.running \ dead THEN slot.under ELSE None
    ELSE IF slot.agent \in Agents \ dead THEN slot.agent ELSE None

\* Losing a single pane gives the window to the sidebar; only a preview
\* gives its agent back.
LosePrimaryAlone(w, reopened) ==
    LET v == [SetSlot(w, "primary", Closed) EXCEPT !.target = "primary"]
        Focused(x) ==
            LET shut == x.slots["primary"].pane = "none"
            IN  {[(IF w.focus THEN x ELSE Select(x, "primary"))
                    EXCEPT !.focus = w.focus \/ shut]}
    IN  Then(IF reopened = None \/ ~w.slots["primary"].history THEN {v}
             ELSE Attach(v, "primary", reopened), Focused)

\* A dual layout stays dual: what was lost is rebuilt, empty unless its
\* agent lives.  first and second are what the panes go on with.
Rebuild(w, layout, target, first, second) ==
    LET Refill(v, s, a) == IF a = None THEN {v} ELSE Attach(v, s, a)
        Aim(v) == IF w.focus THEN v ELSE Select(v, v.target)
        Ready(v) == {Aim([x EXCEPT !.collapsed = None, !.target = target]) :
                        x \in Refill(v, "secondary", second)}
        Degraded(v) == {Aim([x EXCEPT !.target = "primary",
                                      !.collapsed = IF w.layout = "single"
                                                    THEN second
                                                    ELSE IF @ \in v.alive
                                                    THEN @ ELSE None]) :
                            x \in Abandoned(v)}
        Two(v) == Either(CreateSecondary(v, layout), Ready, Degraded)
    IN  IF Live(w, "primary") THEN Two(w)
        ELSE Either(CreatePrimary(w),
                LAMBDA v : Then(Refill(v, "primary", first), Two), Degraded)

\* The slots that are not deferred, against the sessions read as gone.
ReconcileLost(w, dead, deferred) ==
    LET DeadAgent(s) == w.slots[s].agent \in dead
        lost == {s \in Slots \ deferred :
                    IF w.slots[s].pane = "none" THEN w.layout # "single"
                    ELSE DeadAgent(s) \/ w.slots[s].pane = "dead"}
        Reopen(s) == IF w.slots[s].pane = "none" THEN None
                     ELSE SlotReopenTarget(w, w.slots[s], dead)
        \* A lost slot whose agent is gone goes on with nothing.
        target == [s \in Slots |-> IF DeadAgent(s) THEN None ELSE Reopen(s)]
        \* A nested pane whose agent is gone is killed.
        Kill(v, s) == IF s \in lost /\ DeadAgent(s) /\ Live(v, s)
                      THEN Lose(v, s, [v.slots[s] EXCEPT !.pane = "dead"])
                      ELSE {v}
        killed == Then(Kill(w, "primary"), LAMBDA v : Kill(v, "secondary"))
        Both(v) == Rebuild([SetSlot(SetSlot(v, "primary", Closed),
                                    "secondary", Closed)
                              EXCEPT !.layout = "single", !.target = "primary"],
                           w.layout, w.target, target["primary"],
                           Reopen("secondary"))
    IN  CASE lost = {} -> {w}
          [] "primary" \in lost /\ w.layout = "single" ->
                Then(killed, LAMBDA v : LosePrimaryAlone(v, target["primary"]))
          [] "primary" \in lost /\ w.layout # "single" ->
                Either(Then(killed,
                            LAMBDA v : IF v.slots["secondary"].pane = "none"
                                       THEN {Yes(v)}
                                       ELSE CloseSlot(v, "secondary")),
                       Both, LAMBDA v : {v})
          [] OTHER ->
                Then(killed, LAMBDA v : Rebuild(SetSlot(v, "secondary", Closed),
                    w.layout, w.target, None, target["secondary"]))

\* A live pane that a swap brought stays for its recovery when its agent's
\* session is read as gone.
ReconcileDisplaySlots(w, dead) ==
    UNION {ReconcileLost(w, dead, deferred) :
              deferred \in SUBSET {s \in Slots :
                  Live(w, s) /\ w.slots[s].agent \in dead \cap w.alive}}

\* Displayed agents that only the registry lost may be adopted again; the
\* dead leave it.  A failed query reads one live session as dead.
RefreshImpl(w, polled) ==
    LET Displayed(v) == {a \in v.alive : \E s \in Slots : v.slots[s].agent = a}
        Listed(v) == {[v EXCEPT !.running = @ \cup back] :
                        back \in {{}, Displayed(v)}}
        Gone(v) == {<<v, Agents \ v.alive>>}
                   \cup UNION {{<<x, (Agents \ x.alive) \cup {a}>> :
                                  a \in x.alive} : x \in Fail(v)}
        Reconciled(v) == UNION {ReconcileDisplaySlots(
                                    [g[1] EXCEPT !.running = @ \ g[2]], g[2]) :
                                  g \in Gone(v)}
        Repaired(v) == Listed(RepairAdaptiveRunningGuards(v))
    IN  Then(Then(Then(IF polled THEN CheckTerminalSize(w) ELSE {w},
                       ReconcileFocusFromTmux), Repaired), Reconciled)

(***************************************************************************)
(* Actions.                                                                *)
(***************************************************************************)
Happens == events < MaxEvents /\ events' = events + 1

Init ==
    /\ \E profile \in Profiles :
        ws = [layout |-> "single", presentation |-> "wide",
              page |-> "sidebar", target |-> "primary",
              slots |-> [s \in Slots |-> Closed], collapsed |-> None,
              adaptive |-> NoView, failedAt |-> None, profile |-> profile,
              focus |-> TRUE, active |-> "sidebar", zoomed |-> FALSE,
              running |-> Agents, alive |-> Agents,
              faults |-> 0, ok |-> TRUE]
    /\ size \in Sizes
    /\ events = 0

\* A handler leaves one of its outcomes; what it returned is forgotten.
Handle(outcomes) == \E w \in outcomes : ws' = Yes(w)

\* The terminal reports a new size.
Resize(sz) ==
    /\ Happens /\ sz # size
    /\ size' = sz
    /\ UNCHANGED ws

\* An agent exits, and with it the pane that shows it.
AgentExits(a) ==
    LET w == [ws EXCEPT !.alive = @ \ {a}]
        Shown == {s \in Slots : Live(ws, s) /\ ws.slots[s].agent = a}
    IN  /\ Happens /\ a \in ws.alive
        /\ \/ Shown = {} /\ ws' = w
           \/ \E s \in Shown :
                Handle(Lose(w, s, [w.slots[s] EXCEPT !.pane = "dead"]))
        /\ UNCHANGED size

\* The user kills a pane, or leaves its pager; the agent lives on.
PaneDies(s) ==
    /\ Happens /\ Live(ws, s)
    /\ Handle(Lose(ws, s, [ws.slots[s] EXCEPT !.pane = "dead"]))
    /\ UNCHANGED size

\* The user moves between panes, or clicks a page of the status bar.
FocusMoves(p) ==
    /\ Happens /\ Live(ws, p) /\ p # ws.active
    /\ \E z \in {FALSE, ws.zoomed} :
        ws' = [ws EXCEPT !.active = p, !.zoomed = z]
    /\ UNCHANGED size

\* F8.
Rotate ==
    /\ Happens
    /\ Handle(RotateSplit(ws))
    /\ UNCHANGED size

\* A row of Running: into the slot that shows the agent, or the Target.
OnRunningSelect(a, stealFocus) ==
    LET shown == {s \in Slots : ws.slots[s].agent = a}
        s == IF shown = {} THEN ws.target ELSE CHOOSE t \in shown : TRUE
        w == [ws EXCEPT !.target = s, !.slots[s].history = FALSE,
                        !.slots[s].under = None]
        Taken(v) == IF ~stealFocus THEN {v}
                    ELSE LET x == [Select(v, s) EXCEPT !.focus = FALSE]
                         IN  IF v.presentation = "compact"
                             THEN SelectWorkspacePage(x, s) ELSE {x}
    IN  /\ Happens /\ a \in ws.running
        /\ Handle(Either(Attach(w, s, a), Taken, LAMBDA v : {v}))
        /\ UNCHANGED size

\* A stopped row: its transcript in the Target, over what was there.
OnSessionPreview ==
    LET slot == ws.slots[ws.target]
        under == IF slot.history THEN slot.under
                 ELSE IF slot.pane = "live" /\ slot.agent \in ws.alive
                 THEN slot.agent ELSE None
    IN  /\ Happens
        /\ Handle(ShowTranscript(ws, ws.target, under))
        /\ UNCHANGED size

\* Kill an agent: it leaves its slot first, and a refresh follows.
KillSession(a) ==
    LET Shown == {s \in Slots : ws.slots[s].agent = a}
        Ready == IF Shown = {} THEN {Yes(ws)}
                 ELSE UNION {IF Live(ws, s) THEN ResetSlot(ws, s)
                             ELSE {Yes(SetSlot(ws, s, Closed))} : s \in Shown}
        Killed(w) == UNION {RefreshImpl([w EXCEPT !.running = @ \ {a},
                                                  !.alive = @ \ {a}], polled) :
                              polled \in BOOLEAN}
    IN  /\ Happens /\ a \in ws.running
        /\ Handle(Either(Ready, LAMBDA w : Killed(w) \cup Fail(w),
                         LAMBDA w : {w}))
        /\ UNCHANGED size

\* The sidebar's own resize event.
WindowResized == Handle(CheckTerminalSize(ws)) /\ UNCHANGED <<size, events>>

Refresh(polled) == Handle(RefreshImpl(ws, polled)) /\ UNCHANGED <<size, events>>

Next ==
    \/ \E sz \in Sizes : Resize(sz)
    \/ \E a \in Agents : AgentExits(a) \/ KillSession(a)
    \/ \E s \in Slots : PaneDies(s)
    \/ \E p \in Pages : FocusMoves(p)
    \/ \E a \in Agents, steal \in BOOLEAN : OnRunningSelect(a, steal)
    \/ Rotate \/ OnSessionPreview \/ WindowResized
    \/ \E polled \in BOOLEAN : Refresh(polled)

Spec == Init /\ [][Next]_vars

\* The tick alarm refreshes, and polls the size every half second.
FairSpec == Spec /\ WF_vars(Refresh(TRUE))

-----------------------------------------------------------------------------

TypeOK ==
    /\ ws \in [layout : Layouts, presentation : {"wide", "compact"},
               page : Pages, target : Slots, slots : [Slots -> Slot],
               collapsed : Named, adaptive : View,
               failedAt : Sizes \cup {None}, profile : Profiles \cup {"none"},
               focus : BOOLEAN, active : Pages, zoomed : BOOLEAN,
               running : SUBSET Agents, alive : SUBSET Agents,
               faults : 0 .. MaxFaults, ok : BOOLEAN]
    /\ size \in Sizes
    /\ events \in 0 .. MaxEvents

\* One agent is never shown in both panes, through every rebuild, swap of
\* panes and restore.
ShownOnce ==
    \A s \in Slots : ws.slots[s].agent # None
        => ws.slots[s].agent # ws.slots[Other(s)].agent

\* A single layout has no second pane, which F8 would not close: what a
\* turn, an opening or a restore built before it failed is taken back.  (One
\* failing tmux call is enough to leave it there: the rollback ignores it.)
SingleIsSingle ==
    ws.layout = "single" /\ ws.faults = 0
        => ws.slots["secondary"].pane = "none"

\* The layout the user chose, behind a single view.
Logical(w) == IF Hidden(w) THEN w.adaptive.layout ELSE w.layout
Faultless == ws'.faults = ws.faults

\* Only F8, or the saved profile applied once, changes the layout the user
\* chose: no resize, exit, kill, restore or focus change does, as long as
\* tmux does what it is asked.
OnlyF8Chooses ==
    [][Logical(ws') # Logical(ws) /\ Faultless
        => Rotate \/ ws'.profile # ws.profile]_vars

\* The same where both panes of a dual layout are there when the handler
\* runs.
OnlyF8ChoosesWhenLive ==
    [][Logical(ws') # Logical(ws) /\ Faultless
       /\ (ws.layout = "single" \/ RegionKnown(ws))
        => Rotate \/ ws'.profile # ws.profile]_vars

\* Leaving the single view other than by F8 gives back the whole dual
\* workspace: the orientation, the slot that was hidden, and what was
\* visible in the slot whose place it took.  (Not with a Pane 2 in the view
\* that a failed rollback left over: a preview opened there is still marked
\* on the slot that its pane becomes.)
Leaves == Hidden(ws) /\ ~Hidden(ws') /\ events' = events /\ Faultless
ReturnsWhole ==
    [][LET v == ws.adaptive
           left == Other(v.visible)
           back == ws'.slots[left]
       IN  Leaves /\ ~ws.slots["primary"].history
           /\ ws.slots["secondary"].pane = "none"
           => /\ ws'.layout = v.layout
              /\ back.agent = SavedAgent(v.slots[left])
              /\ back.history = (v.slots[left].kind = "preview")
              /\ ws.slots["primary"].agent \in ws'.alive =>
                    ws'.slots[v.visible].agent = ws.slots["primary"].agent]_vars

\* The agent seen in the single view is still shown, live, when both panes
\* are back: also when the pane it was moved into had a preview open.
LiveStaysLive ==
    [][Leaves /\ ws.slots["primary"].agent \in ws'.alive
       => \E s \in Slots : ws'.slots[s].agent = ws.slots["primary"].agent]_vars

\* F8 inside the single view shows the hidden agent again rather than
\* losing it: whichever slot it was in, it comes back in Pane 2.
F8KeepsHidden ==
    [][LET hidden == SavedAgent(ws.adaptive.slots[Other(ws.adaptive.visible)])
       IN  /\ Rotate /\ Hidden(ws) /\ Faultless
           /\ hidden \in ws.alive \ {ws.slots["primary"].agent}
           /\ ws'.layout # "single"
           => ws'.slots["secondary"].agent = hidden]_vars

\* When nothing happens any more the workspace settles: every open slot has
\* a pane that lives and an agent that does too, and a compact window shows
\* one page.
Settled ==
    /\ \A s \in Slots : /\ ws.slots[s].pane # "dead"
                        /\ Live(ws, s) =>
                              ws.slots[s].agent \in ws.alive \cup {None}
    /\ ws.presentation = PresentationFor(ws.presentation, size)
    /\ ws.presentation = "compact" => ws.zoomed /\ ws.page = ws.active
    /\ ws.layout # "single" =>
          \A s \in Slots : ws.slots[s].pane # "none"
    /\ ws.running \subseteq ws.alive
Settles == <>[]Settled
=============================================================================
