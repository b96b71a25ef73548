---------------------------- MODULE RestartState ----------------------------
(***************************************************************************)
(* What survives a restart of Railmux (restart_state.py and, in app.py,     *)
(* _load_state, _save_state, _restore_pending_right_pane, the exit and the  *)
(* teardown).                                                              *)
(*                                                                         *)
(* Each outer pane owns one instance file with its workspace and the        *)
(* bindings of its running agents; all share one portable file.  The pane   *)
(* of the session that the command line manages dies with its process: a    *)
(* handoff file tells the next managed pane whose instance file to take.    *)
(* A window shows what it loaded once the session index can name it, and    *)
(* the file goes when all of it is shown.                                   *)
(*                                                                         *)
(* Simplifications.  All panes are on one tmux server.  The sidebar's view, *)
(* the focus and the proportions are left out; a workspace is the content   *)
(* of its two slots.  Discovery is reduced to the agents it represents (see *)
(* LaunchMarkers), closing the displays to its outcome (DisplayTransport).  *)
(* A file that does not parse is one that is not there.                     *)
(***************************************************************************)
EXTENDS Naturals, FiniteSets, Functions

CONSTANTS
    Panes,
    Managed,        \* panes made by the command line, one alive at a time
    Agents,
    Codex,          \* agents whose transcripts only the index knows
    None, Empty, Closed,
    Firsts,         \* instance files, portable file and agents found at first
    Legacy,         \* whether a state file of version 0.1.1 is there
    QueryFails,     \* whether a tmux query about a live pane may fail
    MaxSpent,       \* [event -> bound on how often it happens]
    MaxEvents       \* bound on how many of them but starts there are together

ASSUME SubsetAssumption == Managed \subseteq Panes /\ Codex \subseteq Agents

VARIABLES
    pane,       \* [Panes -> "absent", "live" or "dead"]
    alive,      \* agents whose tmux session exists
    file,       \* [Panes -> instance file or None]
    portable,   \* the portable file or None
    handoff,    \* the pane the handoff file names, or None
    app,        \* [Panes -> the Railmux process in the pane]
    spent

vars == <<pane, alive, file, portable, handoff, app, spent>>
disk == <<file, portable, handoff>>

Slots == {"primary", "secondary"}
Transcript(a) == <<a>>
Transcripts == {Transcript(a) : a \in Agents}
Contents == Agents \union Transcripts \union {Empty, Closed}
Workspaces == {w \in [Slots -> Contents] : w["primary"] = Closed => w["secondary"] = Closed}
Shut == [s \in Slots |-> Closed]

\* An instance file; a primary slot that is not open is saved as an empty one.
\* "right": the content of the target slot; "week": older than the grace period.
Saved(w) == [w EXCEPT !["primary"] = IF @ = Closed THEN Empty ELSE @]
Instance(w, r, b, v) ==
    [slots |-> Saved(w), right |-> r, bindings |-> b, newer |-> v, week |-> FALSE]
Portable(r, v) == [right |-> r, newer |-> v]
Readable(f) == f # None /\ (f # None => ~f.newer)
Instances == [slots : Workspaces, right : Contents, bindings : SUBSET Agents,
              newer : BOOLEAN, week : BOOLEAN]
Portables == [right : Contents \union {None}, newer : BOOLEAN]
Files == Instances \union {None}
PortableFiles == Portables \union {None}

ASSUME DistinctAssumption ==
    /\ None \notin Panes \union Instances \union Portables
    /\ Agents \intersect (Transcripts \union {Empty, Closed}) = {}
\* tmux does not name a pane like an earlier one, so one not made yet has no file.
ASSUME FirstsAssumption ==
    \A first \in Firsts :
        /\ first[1] \in [Panes -> Files] /\ first[2] \in PortableFiles
        /\ first[3] \subseteq Agents /\ \A p \in Managed : first[1][p] = None

Events == {"start", "show", "ask", "crash", "close", "end", "week", "fault"}
Spend(e) ==
    /\ spent[e] < MaxSpent[e]
    /\ e # "start" => FoldFunction(LAMBDA x, y : x + y, 0, spent) - spent["start"] < MaxEvents
    /\ spent' = [spent EXCEPT ![e] = @ + 1]
\* A write or an unlink that may fail with OSError.  A tmux listing that fails
\* counts as a fault too.
MayFail(done, failed) ==
    \/ (done /\ UNCHANGED spent)
    \/ (failed /\ Spend("fault"))

\* A process.  "lived": the agents alive at its discovery, for the properties;
\* "prov": those found before the index had a generation; "gen": whether it has
\* one, and whether the recovery has looked at the newest.
Off == [phase |-> "off", then |-> "up", shown |-> Shut, running |-> {}, lived |-> {},
        pending |-> None, loaded |-> None, source |-> None, recovery |-> "ok",
        prov |-> {}, gen |-> "none", mayPortable |-> TRUE, mayLocal |-> TRUE,
        dialog |-> FALSE, soft |-> FALSE, look |-> None, swept |-> {}]

Init ==
    /\ pane = [p \in Panes |-> IF p \in Managed THEN "absent" ELSE "live"]
    /\ handoff = None
    /\ \E first \in Firsts : file = first[1] /\ portable = first[2] /\ alive = first[3]
    /\ app = [p \in Panes |-> Off]
    /\ spent = [e \in Events |-> 0]

\* What the process in pane p becomes.
Set(p, new) == app' = [app EXCEPT ![p] = new]
At(p, ph) == app[p].phase = ph
Up(p) == At(p, "up")

-----------------------------------------------------------------------------
(* Start: identity, portable file, own file or handoff, cleanup, discovery.  *)

Start(p) ==
    /\ At(p, "off") /\ Spend("start")
    /\ \/ pane[p] = "live" /\ UNCHANGED pane
       \/ /\ pane[p] = "absent" /\ \A q \in Managed : pane[q] # "live"
          /\ pane' = [pane EXCEPT ![p] = "live"]
    /\ Set(p, [app[p] EXCEPT !.phase = "portable"])
    /\ UNCHANGED <<alive, disk>>

\* The ownerless file of old versions is migrated only where nothing is.
ReadPortable(p) ==
    /\ At(p, "portable")
    /\ LET read == [app[p] EXCEPT !.phase = "local",
                                  !.mayPortable = portable = None \/ Readable(portable),
                                  !.pending = IF Readable(portable) THEN portable ELSE None]
       IN  IF portable = None /\ Legacy
           THEN /\ Set(p, [read EXCEPT !.pending = Portable(None, FALSE)])
                /\ MayFail(portable' = Portable(None, FALSE), UNCHANGED portable)
           ELSE Set(p, read) /\ UNCHANGED <<portable, spent>>
    /\ UNCHANGED <<pane, alive, file, handoff>>

\* tmux says that the pane is alive.
SeenAlive(q) == pane[q] = "live"
Unseen(q) == pane[q] # "live" \/ QueryFails

\* Mutant: the handoff is taken by instances that own their pane too.
MutMaySource(p, q) ==
    Readable(file[q]) /\ (q = p \/ (~Readable(file[p]) /\ handoff = q /\ Unseen(q)))
\* The pane whose instance file this process takes.  A direct instance never
\* takes another's; the pane a handoff names must be dead.
MaySource(p, q) ==
    /\ Readable(file[q])
    /\ \/ q = p
       \/ /\ ~Readable(file[p]) /\ p \in Managed
          /\ handoff = q /\ Unseen(q)

\* A local state is taken whole, whatever the portable one says.
ReadLocal(p) ==
    /\ At(p, "local")
    /\ \/ \E q \in Panes :
            /\ MaySource(p, q)
            /\ Set(p, [app[p] EXCEPT !.phase = "sweep", !.then = "discover", !.source = q,
                                     !.loaded = file[q], !.pending = file[q],
                                     !.mayLocal = file[p] = None \/ Readable(file[p])])
       \/ /\ \A q \in Panes : MaySource(p, q) => q # p /\ SeenAlive(q)
          /\ Set(p, [app[p] EXCEPT !.phase = "sweep", !.then = "discover",
                                   !.mayLocal = file[p] = None \/ Readable(file[p])])
    /\ UNCHANGED <<pane, alive, disk, spent>>

\* cleanup_stale_instances looks at one file after the other: its age, its
\* schema, then whether its owner's pane exists.
Stale(p, q) == q # p /\ Readable(file[q]) /\ (Readable(file[q]) => file[q].week)
Sweep(p) ==
    /\ At(p, "sweep") /\ app[p].look = None
    /\ \/ \E q \in Panes \ app[p].swept :
            Stale(p, q) /\ Set(p, [app[p] EXCEPT !.look = q, !.swept = @ \union {q}])
       \/ /\ \A q \in Panes \ app[p].swept : ~Stale(p, q)
          /\ Set(p, [app[p] EXCEPT !.phase = app[p].then, !.swept = {}])
    /\ UNCHANGED <<pane, alive, disk, spent>>

\* Mutant: takes an owner without a process for dead.
MutOwnerGone(q) == Unseen(q) \/ At(q, "off")
OwnerGone(q) == Unseen(q)
SweepOne(p) ==
    /\ At(p, "sweep") /\ app[p].look # None
    /\ \/ /\ OwnerGone(app[p].look)
          /\ MayFail(file' = [file EXCEPT ![app[p].look] = None], UNCHANGED file)
       \/ SeenAlive(app[p].look) /\ UNCHANGED <<file, spent>>
    /\ Set(p, [app[p] EXCEPT !.look = None])
    /\ UNCHANGED <<pane, alive, portable, handoff>>

\* Discovery finds every agent, or not; without a list of the sessions, none.
\* If it saw one of Codex before the first generation of the index, the recovery
\* stays pending, and the Codex agents it found are provisional.
Discover(p) ==
    /\ At(p, "discover")
    /\ \E known, listed \in BOOLEAN, found \in SUBSET alive :
         /\ (listed /\ UNCHANGED spent) \/ (~listed /\ found = {} /\ Spend("fault"))
         /\ Set(p, [app[p] EXCEPT
                   !.phase = "up", !.running = found, !.lived = alive,
                   !.prov = IF known THEN {} ELSE found \intersect Codex,
                   !.gen = IF known THEN "new" ELSE "none",
                   !.recovery = IF listed /\ ~known /\ alive \intersect Codex # {} THEN "pending"
                                ELSE IF listed /\ found = alive THEN "ok" ELSE "failed"])
    /\ UNCHANGED <<pane, alive, disk>>

\* The first generation, or a newer one for a recovery that is still pending.
IndexPublishes(p) ==
    /\ Up(p) /\ app[p].gen # "new" /\ (app[p].gen = "none" \/ app[p].recovery = "pending")
    /\ Set(p, [app[p] EXCEPT !.gen = "new"])
    /\ UNCHANGED <<pane, alive, disk, spent>>

\* _retry_pending_codex_recovery looks at every new generation once: it finds the
\* provisional agents again, or not.
Retries(p) == Up(p) /\ app[p].recovery = "pending" /\ app[p].gen = "new"
Refound(p, new) == (app[p].running \ app[p].prov) \union new
Settle(p) ==
    /\ Retries(p)
    /\ \E new \in SUBSET alive :
         Set(p, [app[p] EXCEPT
                   !.running = Refound(p, new), !.lived = alive, !.prov = {},
                   !.recovery = IF alive \subseteq Refound(p, new) THEN "ok" ELSE "failed"])
    /\ UNCHANGED <<pane, alive, disk, spent>>

\* Files could not be read, or a live agent has no metadata yet: those agents
\* stay provisional, and the recovery waits for the next generation.
StaysPending(p) ==
    /\ Retries(p)
    /\ \E new \in SUBSET alive, back \in SUBSET (app[p].prov \intersect alive) :
         /\ \/ back = app[p].prov \intersect alive /\ ~(alive \subseteq Refound(p, new))
            \/ back # {} /\ back \intersect new = {}
         /\ Set(p, [app[p] EXCEPT !.running = Refound(p, new) \union back,
                                  !.prov = back, !.gen = "tried"])
    /\ UNCHANGED <<pane, alive, disk, spent>>

\* tmux does not list the sessions: everything stays, and the next tick asks again.
ProbeFails(p) == Retries(p) /\ Spend("fault") /\ UNCHANGED <<pane, alive, disk, app>>

-----------------------------------------------------------------------------
(* Restoring the right pane, after the first frame and on every tick.        *)

OfCodex(c) == c \in Codex \/ \E a \in Codex : c = Transcript(a)
Unnamed(p, c) == OfCodex(c) /\ c \notin app[p].running
IsLocal(st) == "slots" \in DOMAIN st

\* What the state that was loaded wants to show, and names its agent.
Wanted(st) == IF IsLocal(st) THEN {st.slots[s] : s \in Slots} ELSE {st.right}
\* Mutant: waits for content of the index even after it was published.
MutWaits(p) == \E c \in Wanted(app[p].pending) : Unnamed(p, c)

\* Content that may be shown: agents only if discovery knows them and they live.
Showable(p, c) == c \in Agents => c \in app[p].running /\ c \in alive
\* Codex content waits for the index and the recovery, the agent of the target
\* slot for the recovery.
Waits(p) ==
    LET st == app[p].pending
        late == app[p].recovery = "pending" \/ app[p].gen = "none"
    IN  \/ late /\ \E c \in Wanted(st) : Unnamed(p, c)
        \/ app[p].recovery = "pending" /\ st.right \in Agents \ app[p].running

\* Mutant: attaches to any agent whose session exists.
MutOutcomes(p, w) ==
    {v \in Workspaces : \A s \in Slots :
        (v[s] = w[s] /\ (w[s] \in Agents => w[s] \in alive)) \/ v[s] \in {Empty, Closed}}
\* Where _restore_workspace may end: a slot that fails is left empty, a second
\* slot that cannot be made or does not fit is closed, and without a usable
\* primary there is no workspace.
Outcomes(p, w) ==
    {v \in Workspaces : \A s \in Slots :
        \/ v[s] = w[s] /\ Showable(p, w[s])
        \/ v[s] = Empty /\ w[s] # Closed
        \/ v[s] = Closed}

\* A portable wish may end as the agent it names, if discovery knows it, as its
\* transcript, or as nothing.
PortableOutcomes(p, r) ==
    {[Shut EXCEPT !["primary"] = c] :
        c \in {Closed} \union
              (IF r \in Agents
               THEN {Transcript(r)} \union {a \in {r} : Showable(p, a)}
               ELSE {r} \ {None})}

\* Mutant: only the primary slot counts.
MutRestored(w, v) == v["primary"] = w["primary"]
Restored(w, v) == v = w
\* Mutant: forgets the bindings although discovery is incomplete.
MutSettled(p) == TRUE
\* Whether the file that was restored may go.
Settled(p) == app[p].recovery = "ok"
Restore(p) ==
    /\ Up(p) /\ app[p].pending # None /\ ~Waits(p)
    /\ LET st == app[p].pending IN
       IF IsLocal(st)
       THEN \E v \in Outcomes(p, st.slots) :
              IF Restored(st.slots, v) /\ Settled(p)
              THEN Set(p, [app[p] EXCEPT !.pending = None, !.shown = v, !.phase = "unlink"])
              ELSE Set(p, [app[p] EXCEPT !.pending = None, !.shown = v, !.source = None,
                                         !.loaded = None])
       ELSE \E v \in PortableOutcomes(p, st.right) :
              Set(p, [app[p] EXCEPT !.pending = None, !.shown = v])
    /\ UNCHANGED <<pane, alive, disk, spent>>

\* An exception in the callback ends the loop: run's finally tears down.
RestoreRaises(p) ==
    /\ Up(p) /\ app[p].pending # None /\ ~Waits(p) /\ Spend("fault")
    /\ Set(p, [app[p] EXCEPT !.pending = None, !.phase = "core", !.source = None,
                             !.loaded = None])
    /\ UNCHANGED <<pane, alive, disk>>

Unlink(p) ==
    /\ At(p, "unlink") /\ Set(p, [app[p] EXCEPT !.phase = "clear"])
    /\ MayFail(file' = [file EXCEPT ![app[p].source] = None], UNCHANGED file)
    /\ UNCHANGED <<pane, alive, portable, handoff>>

ClearHandoff(p) ==
    /\ At(p, "clear")
    /\ Set(p, [app[p] EXCEPT !.phase = "up", !.source = None, !.loaded = None])
    /\ IF handoff = app[p].source
       THEN MayFail(handoff' = None, UNCHANGED handoff)
       ELSE UNCHANGED <<handoff, spent>>
    /\ UNCHANGED <<pane, alive, file, portable>>

-----------------------------------------------------------------------------
(* The user, saving and leaving.                                             *)

\* Launches or attaches an agent, previews a transcript, closes a slot.
Show(p, s, c) ==
    /\ Up(p) /\ ~app[p].dialog /\ c # app[p].shown[s] /\ Spend("show")
    /\ [app[p].shown EXCEPT ![s] = c] \in Workspaces
    /\ c \in alive => c \in app[p].running
    /\ alive' = alive \union ({c} \intersect Agents)
    /\ Set(p, [app[p] EXCEPT !.shown = [@ EXCEPT ![s] = c],
                             !.running = @ \union ({c} \intersect Agents)])
    /\ UNCHANGED <<pane, disk>>

\* _open_quit_confirm saves first; the dialog then stays up, and ticks go on.
AskQuit(p) ==
    /\ Up(p) /\ ~app[p].dialog /\ Spend("ask")
    /\ Set(p, [app[p] EXCEPT !.phase = "save", !.then = "up", !.dialog = TRUE])
    /\ UNCHANGED <<pane, alive, disk>>

Cancel(p) ==
    /\ Up(p) /\ app[p].dialog /\ Set(p, [app[p] EXCEPT !.dialog = FALSE])
    /\ UNCHANGED <<pane, alive, disk, spent>>

SoftQuit(p) ==
    /\ Up(p) /\ app[p].dialog
    /\ Set(p, [app[p] EXCEPT !.phase = "save", !.then = "publish"])
    /\ UNCHANGED <<pane, alive, disk, spent>>

HardQuit(p) ==
    /\ Up(p) /\ app[p].dialog
    /\ Set(p, [app[p] EXCEPT !.phase = "core", !.pending = None])
    /\ UNCHANGED <<pane, alive, disk, spent>>

\* The contents of the slots that may be the target.
Targets(w) == IF w["primary"] = Closed THEN {Empty} ELSE {w[s] : s \in Slots} \ {Closed}
\* What a soft quit leaves as a portable wish: the content of the target slot.
Wishes(p) ==
    {IF c \in Transcripts \union app[p].running THEN c ELSE None :
        c \in {app[p].shown[s] : s \in Slots}}

SavePortable(p) ==
    /\ At(p, "save") /\ Set(p, [app[p] EXCEPT !.phase = "saveLocal"])
    /\ IF app[p].mayPortable
       THEN \E r \in IF app[p].then = "publish" THEN Wishes(p) ELSE {None} :
              MayFail(portable' = Portable(r, FALSE), UNCHANGED portable)
       ELSE UNCHANGED <<portable, spent>>
    /\ UNCHANGED <<pane, alive, file, handoff>>

\* Mutant: the schema found at the start is not remembered.
MutMayLocal(p) == TRUE
MayLocal(p) == app[p].mayLocal
SaveLocal(p) ==
    /\ At(p, "saveLocal") /\ Set(p, [app[p] EXCEPT !.phase = "sweep"])
    /\ IF MayLocal(p)
       THEN \E r \in Targets(app[p].shown) :
              MayFail(file' = [file EXCEPT ![p] = Instance(app[p].shown, r, app[p].running, FALSE)],
                      UNCHANGED file)
       ELSE UNCHANGED <<file, spent>>
    /\ UNCHANGED <<pane, alive, portable, handoff>>

\* The handoff is published only for a file that reads back.
Publish(p) ==
    /\ At(p, "publish") /\ Set(p, [app[p] EXCEPT !.phase = "core", !.soft = TRUE])
    /\ IF p \in Managed /\ Readable(file[p])
       THEN MayFail(handoff' = p, UNCHANGED handoff)
       ELSE UNCHANGED <<handoff, spent>>
    /\ UNCHANGED <<pane, alive, file, portable>>

\* Mutant: a failed close spares only the agents on display.
MutDoomed(p, closed) ==
    IF app[p].soft THEN {} ELSE app[p].running \ (IF closed THEN {} ELSE {app[p].shown[s] : s \in Slots})
\* Agents that the core teardown kills: a display that would not close makes
\* the exit a soft one.
Doomed(p, closed) == IF app[p].soft \/ ~closed THEN {} ELSE app[p].running
Core(p) ==
    /\ At(p, "core")
    /\ \E closed \in BOOLEAN :
         /\ alive' = alive \ Doomed(p, closed)
         /\ Set(p, [app[p] EXCEPT !.phase = "outer", !.soft = @ \/ ~closed])
    /\ UNCHANGED <<pane, disk, spent>>

\* Mutant: the process of a direct pane is forgotten, not ended.
MutEnded(p) == /\ app' = [app EXCEPT ![p] = IF p \in Managed THEN Off ELSE @]
               /\ pane' = [pane EXCEPT ![p] = "dead"]
\* A managed pane ends with its process or with the session it is killed with.
Ended(p) == /\ app' = [app EXCEPT ![p] = Off]
            /\ pane' = [pane EXCEPT ![p] = IF p \in Managed THEN "dead" ELSE @]
Outer(p) == At(p, "outer") /\ Ended(p) /\ UNCHANGED <<alive, disk, spent>>

Crash(p) == ~At(p, "off") /\ Spend("crash") /\ Ended(p) /\ UNCHANGED <<alive, disk>>

ClosePane(p) ==
    /\ pane[p] = "live" /\ Spend("close")
    /\ pane' = [pane EXCEPT ![p] = "dead"] /\ app' = [app EXCEPT ![p] = Off]
    /\ UNCHANGED <<alive, disk>>

AgentEnds(a) ==
    /\ a \in alive /\ Spend("end") /\ alive' = alive \ {a}
    /\ UNCHANGED <<pane, disk, app>>

\* Nobody stays in one handler for a week.
WeekPasses ==
    /\ Spend("week") /\ \A p \in Panes : app[p].phase \in {"off", "up"}
    /\ file' = [q \in Panes |-> IF file[q] = None THEN None ELSE [file[q] EXCEPT !.week = TRUE]]
    /\ UNCHANGED <<pane, alive, portable, handoff, app>>

-----------------------------------------------------------------------------
Tick(p) == Settle(p) \/ StaysPending(p) \/ ProbeFails(p) \/ Restore(p) \/ RestoreRaises(p)
Step(p) ==
    \/ ReadPortable(p) \/ ReadLocal(p) \/ Sweep(p) \/ SweepOne(p) \/ Discover(p)
    \/ Unlink(p) \/ ClearHandoff(p)
    \/ SavePortable(p) \/ SaveLocal(p) \/ Publish(p) \/ Core(p) \/ Outer(p)
User(p) ==
    \/ Start(p) \/ AskQuit(p) \/ Cancel(p) \/ SoftQuit(p) \/ HardQuit(p)
    \/ \E s \in Slots, c \in Contents : Show(p, s, c)
World ==
    \/ \E p \in Panes : Crash(p) \/ ClosePane(p) \/ IndexPublishes(p)
    \/ \E a \in Agents : AgentEnds(a)
    \/ WeekPasses
Next == (\E p \in Panes : Step(p) \/ Tick(p) \/ User(p)) \/ World

\* A process goes on with its handler, its ticks come, and its index gets to a
\* first generation (see BackgroundIndex).  That a newer one comes, or brings
\* the metadata that a recovery misses, is not assumed.
Fairness == \A p \in Panes :
    /\ WF_vars(Step(p)) /\ WF_vars(Settle(p) \/ StaysPending(p)) /\ WF_vars(Restore(p))
    /\ WF_vars(app[p].gen = "none" /\ IndexPublishes(p))
Spec == Init /\ [][Next]_vars
FairSpec == Spec /\ Fairness

-----------------------------------------------------------------------------
(* Properties.                                                               *)

Phases == {"off", "portable", "local", "sweep", "discover", "up", "unlink", "clear",
           "save", "saveLocal", "publish", "core", "outer"}

\* Files, panes and processes have their shapes; only a live pane has a process,
\* one managed pane is alive at a time, and a window shows only agents it knows.
TypeOK ==
    /\ pane \in [Panes -> {"absent", "live", "dead"}] /\ alive \subseteq Agents
    /\ file \in [Panes -> Files] /\ portable \in PortableFiles
    /\ handoff \in Managed \union {None}
    /\ \A p \in Panes :
        /\ app[p].phase \in Phases /\ app[p].then \in Phases
        /\ app[p].shown \in Workspaces /\ app[p].running \subseteq Agents
        /\ app[p].pending \in Files \union PortableFiles /\ app[p].loaded \in Files
        /\ app[p].recovery \in {"ok", "pending", "failed"} /\ app[p].gen \in {"none", "new", "tried"}
        /\ app[p].prov \subseteq app[p].running
        /\ app[p].phase # "off" => pane[p] = "live"
    /\ Cardinality({p \in Managed : pane[p] = "live"}) <= 1

\* "Different panes ... cannot overwrite or restore one another's local state":
\* a window restores its own file, or, if managed, that of a managed pane that
\* is dead (read_managed_handoff).
OwnOrInherited ==
    \A p \in Panes : LET q == app[p].source IN
        q \notin {None, p} => p \in Managed /\ q \in Managed /\ pane[q] = "dead"

\* A window comes to show an agent only if it lives and its discovery, or a launch
\* of its own, represents it: a saved name is no authority
\* (_validated_saved_agent).
ShowsKnown ==
    [][\A p \in Panes, s \in Slots : LET c == app'[p].shown[s] IN
        c \in Agents /\ c # app[p].shown[s] => c \in app'[p].running /\ c \in alive']_vars

\* A process removes the file it started from only once all of it is on display
\* and every agent it binds that lived at its discovery is represented; any other file only
\* if its owner is gone.
NothingForgotten ==
    [][\A q \in Panes : (file[q] # None /\ file'[q] = None) =>
        \/ \E p \in Panes :
            /\ app[p].phase = "unlink" /\ app[p].source = q
            /\ app[p].shown = app[p].loaded.slots
            /\ app[p].loaded.bindings \intersect app[p].lived \subseteq app[p].running
        \/ pane[q] = "dead"]_vars

\* The cleanup of one window never removes the file of a pane that is alive,
\* whether or not a process runs in it (cleanup_stale_instances).
LiveFilesKept ==
    [][\A q \in Panes :
        (file[q] # None /\ file'[q] = None /\ pane[q] = "live") => app[q].phase = "unlink"]_vars

\* Files of a newer schema are never overwritten, migrated over or cleaned up.
NewerKept ==
    [][/\ (portable # None /\ ~Readable(portable)) => portable' = portable
       /\ \A q \in Panes : (file[q] # None /\ ~Readable(file[q])) =>
            file'[q] = file[q] \/ (file'[q] # None /\ file'[q].newer)]_vars

\* Agents die at an exit only if it stayed a hard one: no soft quit, no display
\* that would not close (_teardown_tmux).
SoftSpares ==
    [][\A p \in Panes : (app'[p].phase = "outer" /\ app'[p].soft) =>
        (app[p].phase = "core" => alive' = alive)]_vars

\* The recovery looked at the newest generation and misses an agent's metadata,
\* and what was loaded wants an agent or a transcript that only it can name.
Starved(p) ==
    /\ app[p].pending # None /\ app[p].recovery = "pending" /\ app[p].gen = "tried"
    /\ Waits(p)

\* A state that was loaded is restored, or the process ends: neither the first
\* generation nor a tick makes it wait for ever, and a recovery does so only
\* while every generation that comes still misses metadata of a live agent.
PendingSettles ==
    \A p \in Panes : (app[p].pending # None) ~> (app[p].pending = None \/ Starved(p))

\* The same without the exception, which metadata that never come refute.
AlwaysSettles == \A p \in Panes : (app[p].pending # None) ~> (app[p].pending = None)

\* What the test of the cleanup says: it removes only old files.  The age is
\* looked at before the owner, which may save and end in between.
OnlyOldRemoved ==
    [][\A p, q \in Panes :
        (app[p].phase = "sweep" /\ file[q] # None /\ file'[q] = None) => file[q].week]_vars

\* What CHANGELOG.md promises: a workspace stays saved until it was restored.
\* A window that still has to restore its own file does not write over it.
KeptUntilRestored ==
    [][\A p \in Panes : (app[p].pending # None /\ app[p].source = p) =>
        (file[p] # None /\ file'[p] # None => file'[p].slots = file[p].slots)]_vars
=============================================================================
