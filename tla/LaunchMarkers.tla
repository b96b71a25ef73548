--------------------------- MODULE LaunchMarkers ---------------------------
(***************************************************************************)
(* New agents and the windows that may act on them: the launch of a new    *)
(* session, its marker on the agent's tmux session (orphan_marker.py), the *)
(* discovery by which a later process adopts the agent, the binding of the *)
(* agent to the conversation it writes, and the resumption of a            *)
(* conversation that nothing seems to write (ui/app.py).                   *)
(*                                                                         *)
(* A process lives in an outer tmux pane and dies with it; a pane may      *)
(* outlive its process and host another.  All agents run in one project    *)
(* directory.  A step is one tmux command, or one with its readback.       *)
(*                                                                         *)
(* Simplifications: no legacy server and no sessions launched by versions  *)
(* without markers; a saved state, of whichever pane, is found or not;     *)
(* conversations are listed as they are; their modification times, which   *)
(* exclude some more, are left out; a Claude agent is launched in a known  *)
(* project.                                                                *)
(***************************************************************************)
EXTENDS Naturals, FiniteSets

CONSTANTS
    Agents,     \* launches of a new session, each with its tmux session
    Codex,      \* those whose open conversation file /proc tells
    Owners,     \* outer panes, the identity of an owner
    Ids,        \* conversations
    CodexIds,   \* those of the Codex provider
    MaxFaults,  \* bound on failed tmux commands
    None

ASSUME ProviderAssumption == Codex \subseteq Agents /\ CodexIds \subseteq Ids
ASSUME NoneAssumption == None \notin Agents \cup Owners \cup Ids
ASSUME FaultsAssumption == MaxFaults \in Nat

VARIABLES
    pane,     \* each outer pane: new, live or gone; an id is never reused
    ses,      \* each agent's tmux session: none, holder, agent or gone
    mark,     \* its marker option
    lock,     \* holder of the claim lock of a marker
    writes,   \* the conversation that each agent writes
    files,    \* the conversations that exist
    resumed,  \* conversations written by sessions that resumed them
    saved,    \* launch contexts in the saved states
    proc,     \* the process in each pane: label and locals
    reg,      \* its registry _running, by agent
    own,      \* conversations in its registry that were resumed
    faults,   \* failed commands so far
    old       \* history: what existed when an agent was launched

\* What the steps of a process leave alone.
world == <<pane, files, writes, old>>
vars == <<pane, ses, mark, lock, writes, files, resumed, saved, proc, reg,
          own, faults, old>>

Down == [at |-> "down", agent |-> None, entry |-> None, todo |-> {},
         snap |-> [a \in Agents |-> None], loaded |-> FALSE, live |-> {},
         goal |-> None, sure |-> FALSE]

Idle == [Down EXCEPT !.at = "run"]

\* The launch context of an entry, and what is left without a saved state.
Context(e) == [pre |-> e.pre, guess |-> e.guess]
Lost == [pre |-> {}, guess |-> FALSE]

Init ==
    /\ pane = [p \in Owners |-> "new"]
    /\ ses = [a \in Agents |-> "none"]
    /\ mark = [a \in Agents |-> None]
    /\ lock = [a \in Agents |-> None]
    /\ writes = [a \in Agents |-> None]
    /\ files = {} /\ resumed = {}
    /\ saved = [a \in Agents |-> Lost]
    /\ proc = [p \in Owners |-> Down]
    /\ reg = [p \in Owners |-> [a \in Agents |-> None]]
    /\ own = [p \in Owners |-> {}]
    /\ faults = 0
    /\ old = [a \in Agents |-> {}]

Alive(a) == ses[a] \in {"holder", "agent"}
Running(p) == proc[p].at # "down"

\* Mutant: the phase is forgotten.
MutResolved(m, s) == [m EXCEPT !.id = s]
Resolved(m, s) == [m EXCEPT !.phase = "resolved", !.id = s]
\* Mutant: with a new owner the lifecycle begins anew.
MutOwned(m, p) == [m EXCEPT !.owner = p, !.phase = "unresolved", !.id = None]
Owned(m, p) == [m EXCEPT !.owner = p]

Ok == UNCHANGED faults
Fails == faults < MaxFaults /\ faults' = faults + 1

\* The session's options go with it, and its agent.
EndSession(a) ==
    /\ ses' = [ses EXCEPT ![a] = "gone"]
    /\ mark' = [mark EXCEPT ![a] = None]
    /\ writes' = [writes EXCEPT ![a] = None]
    /\ old' = [old EXCEPT ![a] = {}]
    /\ UNCHANGED <<pane, files>>

\* The conversations of an agent's provider.
Listed(a) == files \cap (IF a \in Codex THEN CodexIds ELSE Ids \ CodexIds)

\* What the entries of a registry are bound to, and those not bound yet.
Bound(p) == own[p] \cup {reg[p][a].key : a \in {b \in Agents : reg[p][b] # None}}
Placeholders(p) == {a \in Agents : reg[p][a] # None /\ reg[p][a].key = None}

-----------------------------------------------------------------------------
(* _launch: holder, marker, agent, marker, registry *)

\* What exists already is snapshotted; a Codex index that does not answer in
\* time gives a part of it.  Only Claude agents are bound by a guess.
Launch(p, a) ==
    /\ proc[p].at = "run" /\ ses[a] = "none"
    /\ \A q \in Owners : proc[q].agent # a
    /\ \E known \in SUBSET Listed(a) :
         /\ a \in Codex \/ known = Listed(a)
         /\ proc' = [proc EXCEPT ![p] =
              [Idle EXCEPT
                 !.at = "hold", !.agent = a,
                 !.entry = [mark |-> [owner |-> p, phase |-> "launching",
                                      id |-> None],
                            key |-> None, guess |-> a \notin Codex,
                            pre |-> known]]]
    /\ old' = [old EXCEPT ![a] = Listed(a)]
    /\ UNCHANGED <<pane, ses, mark, lock, writes, files, resumed, saved, reg,
                   own, faults>>

Hold(p) ==
    /\ proc[p].at = "hold"
    /\ \/ /\ Ok
          /\ ses' = [ses EXCEPT ![proc[p].agent] = "holder"]
          /\ proc' = [proc EXCEPT ![p].at = "mark"]
       \/ Fails /\ proc' = [proc EXCEPT ![p] = Idle] /\ UNCHANGED ses
    /\ UNCHANGED <<world, mark, lock, resumed, saved, reg, own>>

\* _write_orphan_marker, on a live session: written and read back; not
\* written; or written and not read back.
Write(a, m, ok) ==
    \/ ok /\ Ok /\ mark' = [mark EXCEPT ![a] = m]
    \/ ~ok /\ Fails /\ mark' \in {mark, [mark EXCEPT ![a] = m]}

\* Without a marker the holder is killed, if that does not fail too.
MarkHolder(p) ==
    LET a == proc[p].agent IN
    /\ proc[p].at = "mark"
    /\ \/ /\ Alive(a) /\ Write(a, proc[p].entry.mark, TRUE)
          /\ proc' = [proc EXCEPT ![p].at = "start"]
          /\ UNCHANGED <<world, ses>>
       \/ /\ Alive(a)
          /\ \/ Fails /\ EndSession(a)
             \/ Write(a, proc[p].entry.mark, FALSE) /\ UNCHANGED <<world, ses>>
          /\ proc' = [proc EXCEPT ![p] = Idle]
       \/ /\ ~Alive(a) /\ Ok /\ UNCHANGED <<world, ses, mark>>
          /\ proc' = [proc EXCEPT ![p] = Idle]
    /\ UNCHANGED <<lock, resumed, saved, reg, own>>

\* start_detached_holder
StartAgent(p) ==
    LET a == proc[p].agent IN
    /\ proc[p].at = "start"
    /\ \/ /\ Alive(a) /\ Ok
          /\ ses' = [ses EXCEPT ![a] = "agent"]
          /\ proc' = [proc EXCEPT ![p].at = "register"]
          /\ UNCHANGED <<world, mark>>
       \/ /\ Alive(a) /\ Fails
          /\ EndSession(a) \/ UNCHANGED <<world, ses, mark>>
          /\ proc' = [proc EXCEPT ![p] = Idle]
       \/ /\ ~Alive(a) /\ Ok /\ UNCHANGED <<world, ses, mark>>
          /\ proc' = [proc EXCEPT ![p] = Idle]
    /\ UNCHANGED <<lock, resumed, saved, reg, own>>

\* If the second marker cannot be written, the first one stays in memory.
Register(p) ==
    LET a == proc[p].agent
        e == proc[p].entry
        m == [e.mark EXCEPT !.phase = "unresolved"]
    IN
    /\ proc[p].at = "register"
    /\ \/ /\ Alive(a) /\ Write(a, m, TRUE)
          /\ reg' = [reg EXCEPT ![p][a] = [e EXCEPT !.mark = m]]
       \/ /\ Alive(a) /\ Write(a, m, FALSE)
          /\ reg' = [reg EXCEPT ![p][a] = e]
       \/ /\ ~Alive(a) /\ Ok /\ UNCHANGED mark
          /\ reg' = [reg EXCEPT ![p][a] = e]
    /\ proc' = [proc EXCEPT ![p] = Idle]
    /\ UNCHANGED <<world, ses, lock, resumed, saved, own>>

-----------------------------------------------------------------------------
(* _discover_orphans: at the start of a process and before a resumption *)

\* One listing of the sessions gives every marker.
ListSessions(p, s) ==
    LET d == [Idle EXCEPT !.at = "examine", !.goal = s] IN
    \/ /\ Ok
       /\ proc' = [proc EXCEPT ![p] =
            [d EXCEPT !.snap = mark, !.sure = TRUE,
               !.todo = {a \in Agents : mark[a] # None /\ reg[p][a] = None}]]
    \/ Fails /\ proc' = [proc EXCEPT ![p] = d]

\* The entry of an adopted agent: under its conversation when the marker is
\* resolved and the conversation's metadata can be read, else a placeholder,
\* at the start of a process with the launch context that was saved for it.
PlaceholderContext(p, a) ==
    IF proc[p].goal = None THEN {Lost, saved[a]} ELSE {Lost}

AdoptedEntries(p, a, m) ==
    {[mark |-> m, key |-> None, pre |-> c.pre, guess |-> c.guess] :
       c \in PlaceholderContext(p, a)}
    \cup {[mark |-> m, key |-> s, pre |-> {}, guess |-> FALSE] :
            s \in {m.id} \cap files}

\* A conversation that is in the registry already is not entered twice.
Adopt(p, a, m) ==
    \E e \in AdoptedEntries(p, a, m) :
        reg' = IF e.key # None /\ e.key \in Bound(p) THEN reg
               ELSE [reg EXCEPT ![p][a] = e]

NextOrphan(p, a) ==
    proc' = [proc EXCEPT ![p].at = "examine", ![p].agent = None,
                         ![p].todo = @ \ {a}]
SkipOrphan(p, a) ==
    proc' = [proc EXCEPT ![p].at = "examine", ![p].agent = None,
                         ![p].todo = @ \ {a}, ![p].sure = FALSE]

\* Mutant: a pane that is gone is still counted.
MutLive(p) == IF proc[p].loaded THEN proc[p].live
              ELSE {q \in Owners : pane[q] # "new"}
\* The panes that live, as far as the process knows: it asks once.
Live(p) == IF proc[p].loaded THEN proc[p].live
           ELSE {q \in Owners : pane[q] = "live"}

\* Mutant: an owner that does not run is absent.
MutAvailable(p, m) == ~Running(m.owner)
OwnerAvailable(p, m) == m.owner \notin Live(p)

ExamineOwn(p, a) ==
    /\ proc[p].snap[a].owner = p
    /\ Ok /\ Adopt(p, a, proc[p].snap[a])
    /\ NextOrphan(p, a)
    /\ UNCHANGED lock

ExamineForeign(p, a) ==
    LET m == proc[p].snap[a]
        known == [proc[p] EXCEPT !.loaded = TRUE, !.live = Live(p)]
    IN
    /\ m.owner # p
    /\ UNCHANGED reg
    /\ \/ /\ Ok /\ OwnerAvailable(p, m) /\ lock[a] = None
          /\ lock' = [lock EXCEPT ![a] = p]
          /\ proc' = [proc EXCEPT ![p] = [known EXCEPT !.at = "compare",
                                                       !.agent = a]]
       \/ /\ Ok /\ OwnerAvailable(p, m) /\ lock[a] # None
          /\ proc' = [proc EXCEPT ![p] = [known EXCEPT !.todo = @ \ {a},
                                                       !.sure = FALSE]]
          /\ UNCHANGED lock
       \/ /\ Ok /\ ~OwnerAvailable(p, m)
          /\ proc' = [proc EXCEPT ![p] = [known EXCEPT !.todo = @ \ {a}]]
          /\ UNCHANGED lock
       \* Without a snapshot of the server no owner is absent.
       \/ /\ Fails /\ ~proc[p].loaded
          /\ proc' = [proc EXCEPT ![p].todo = @ \ {a}, ![p].sure = FALSE,
                                  ![p].loaded = TRUE, ![p].live = Owners]
          /\ UNCHANGED lock

\* A session that is gone, or a pane that cannot be asked, is passed over.
ExamineGone(p, a) ==
    /\ \/ ~Alive(a) /\ Ok /\ NextOrphan(p, a)
       \/ Alive(a) /\ Fails /\ SkipOrphan(p, a)
    /\ UNCHANGED <<lock, reg>>

Examine(p, a) ==
    /\ proc[p].at = "examine" /\ a \in proc[p].todo
    /\ \/ Alive(a) /\ (ExamineOwn(p, a) \/ ExamineForeign(p, a))
       \/ ExamineGone(p, a)
    /\ UNCHANGED <<world, ses, mark, resumed, saved, own>>

Unlock(a) == lock' = [lock EXCEPT ![a] = None]

\* Mutant: what the listing said is not compared under the lock.
MutSameMarker(p, a) == mark[a] # None
SameMarker(p, a) == mark[a] = proc[p].snap[a]

\* claim_owner: under the lock, compare ...
Compare(p) ==
    LET a == proc[p].agent IN
    /\ proc[p].at = "compare"
    /\ \/ /\ Ok /\ SameMarker(p, a)
          /\ proc' = [proc EXCEPT ![p].at = "store"]
          /\ UNCHANGED lock
       \/ /\ IF SameMarker(p, a) THEN Fails ELSE Ok
          /\ SkipOrphan(p, a) /\ Unlock(a)
    /\ UNCHANGED <<world, ses, mark, resumed, saved, reg, own>>

\* ... and write the marker with the new owner.
Store(p) ==
    LET a == proc[p].agent
        m == Owned(proc[p].snap[a], p)
    IN
    /\ proc[p].at = "store" /\ Unlock(a)
    /\ \/ /\ Alive(a) /\ Write(a, m, TRUE) /\ Adopt(p, a, m)
          /\ NextOrphan(p, a)
       \/ /\ Alive(a) /\ Write(a, m, FALSE) /\ UNCHANGED reg
          /\ SkipOrphan(p, a)
       \/ /\ ~Alive(a) /\ Ok /\ UNCHANGED <<mark, reg>>
          /\ NextOrphan(p, a)
    /\ UNCHANGED <<world, ses, resumed, saved, own>>

\* Sessions that resumed a conversation carry its id in their name.
EndDiscovery(p) ==
    /\ proc[p].at = "examine" /\ proc[p].todo = {}
    /\ own' = [own EXCEPT ![p] = @ \cup (resumed \ Bound(p))]
    /\ proc' = [proc EXCEPT ![p] =
         IF proc[p].goal = None THEN Idle
         ELSE [Idle EXCEPT !.at = "resolve", !.goal = proc[p].goal,
                           !.sure = proc[p].sure, !.todo = Placeholders(p)]]
    /\ UNCHANGED <<world, ses, mark, lock, resumed, saved, reg, faults>>

-----------------------------------------------------------------------------
(* _refresh, and _resolve_placeholders in it or in a resumption *)

\* The entries of dead sessions are dropped first.
Prune(p) ==
    /\ proc[p].at = "run"
    /\ reg' = [reg EXCEPT ![p] =
                 [a \in Agents |-> IF Alive(a) THEN reg[p][a] ELSE None]]
    /\ own' = [own EXCEPT ![p] = @ \cap resumed]
    /\ LET todo == {a \in Placeholders(p) : Alive(a)} IN
       proc' = IF todo = {} THEN proc
               ELSE [proc EXCEPT ![p].at = "resolve", ![p].todo = todo]
    /\ UNCHANGED <<world, ses, mark, lock, resumed, saved, faults>>

Taken(p) == Bound(p)

Candidates(p, a) == (Listed(a) \ Taken(p)) \ reg[p][a].pre

\* Mutant: without an open file, guess.
MutCorrelated(p, a) == IF writes[a] \in Ids THEN {writes[a]}
                       ELSE IF Cardinality(Candidates(p, a)) = 1
                            THEN Candidates(p, a) ELSE {}
\* The conversations that the agent's process tree holds open: none as long as
\* it has not opened its own.
Correlated(p, a) == {writes[a]} \ {None}

Guess(p, a) == IF reg[p][a].guess /\ Cardinality(Candidates(p, a)) = 1
               THEN Candidates(p, a) ELSE {}

Choice(p, a) ==
    IF reg[p][a].mark.phase = "resolved"
    THEN Candidates(p, a) \cap {reg[p][a].mark.id}
    ELSE IF a \in Codex THEN Candidates(p, a) \cap Correlated(p, a)
    ELSE Guess(p, a)

NextPlaceholder(p, a) ==
    LET todo == proc[p].todo \ {a} IN
    proc' = [proc EXCEPT ![p] =
               IF todo = {} /\ @.goal = None THEN Idle ELSE [@ EXCEPT !.todo = todo]]

\* The marker first, then the key.
Resolve(p, a) ==
    /\ proc[p].at = "resolve" /\ a \in proc[p].todo
    /\ NextPlaceholder(p, a)
    /\ IF Alive(a) /\ Choice(p, a) # {}
       THEN \E s \in Choice(p, a) :
              LET m == Resolved(reg[p][a].mark, s) IN
              \/ /\ Write(a, m, TRUE)
                 /\ reg' = [reg EXCEPT ![p][a].mark = m, ![p][a].key = s]
              \/ Write(a, m, FALSE) /\ UNCHANGED reg
       ELSE UNCHANGED <<mark, reg, faults>>
    /\ UNCHANGED <<world, ses, lock, resumed, saved, own>>

SaveState(p) ==
    /\ proc[p].at = "run"
    /\ saved' = [a \in Agents |->
         IF a \in Placeholders(p) /\ Context(reg[p][a]) # Lost
         THEN Context(reg[p][a]) ELSE saved[a]]
    /\ UNCHANGED <<world, ses, mark, lock, resumed, proc, reg, own, faults>>

-----------------------------------------------------------------------------
(* _launch_resume *)

\* The registry has a live session for the conversation.
Has(p, s) ==
    \/ s \in own[p] \cap resumed
    \/ \E a \in Agents : reg[p][a] # None /\ reg[p][a].key = s /\ Alive(a)

Resume(p, s) ==
    /\ proc[p].at = "run" /\ s \in files /\ ~Has(p, s)
    /\ ListSessions(p, s)
    /\ UNCHANGED <<world, ses, mark, lock, resumed, saved, reg, own>>

\* Mutant: placeholders are not asked.
MutAmbiguous(p, s) == FALSE
\* A live placeholder of that provider may be writing it.
Ambiguous(p, s) ==
    \E a \in Placeholders(p) :
        /\ Alive(a) /\ (a \in Codex) = (s \in CodexIds)
        /\ s \notin reg[p][a].pre

\* A session of the name that the conversation gives is not reused, but the
\* name of a dead entry is taken without a look.
StartsWriter(p) ==
    /\ ~Has(p, proc[p].goal) /\ ~Ambiguous(p, proc[p].goal)
    /\ proc[p].goal \in resumed => proc[p].goal \in Bound(p)

Decide(p) ==
    /\ proc[p].at = "resolve" /\ proc[p].todo = {} /\ proc[p].goal # None
    /\ IF StartsWriter(p)
       THEN /\ resumed' = resumed \cup {proc[p].goal}
            /\ own' = [own EXCEPT ![p] = @ \cup {proc[p].goal}]
            /\ reg' = [reg EXCEPT ![p] =
                 [a \in Agents |-> IF @[a] # None /\ @[a].key = proc[p].goal
                                   THEN None ELSE @[a]]]
       ELSE UNCHANGED <<resumed, own, reg>>
    /\ proc' = [proc EXCEPT ![p] = Idle]
    /\ UNCHANGED <<world, ses, mark, lock, saved, faults>>

\* _kill_tmux_session: only a session whose marker is the one in memory.
Kill(p, a) ==
    /\ proc[p].at = "run" /\ reg[p][a] # None /\ Alive(a)
    /\ mark[a] = reg[p][a].mark
    /\ EndSession(a)
    /\ reg' = [reg EXCEPT ![p][a] = None]
    /\ UNCHANGED <<lock, resumed, saved, proc, own, faults>>

-----------------------------------------------------------------------------
(* Users, agents and other programs *)

Start(p) ==
    /\ pane[p] # "gone" /\ ~Running(p)
    /\ pane' = [pane EXCEPT ![p] = "live"]
    /\ ListSessions(p, None)
    /\ UNCHANGED <<ses, mark, lock, writes, files, resumed, saved, reg, own,
                   old>>

\* A crash releases the lock.
Ends(p) ==
    /\ reg' = [reg EXCEPT ![p] = [a \in Agents |-> None]]
    /\ own' = [own EXCEPT ![p] = {}]
    /\ lock' = [a \in Agents |-> IF lock[a] = p THEN None ELSE lock[a]]

Crash(p) ==
    /\ Running(p) /\ Ends(p)
    /\ proc' = [proc EXCEPT ![p] = Down]
    /\ UNCHANGED <<world, ses, mark, resumed, saved, faults>>

PaneDies(p) ==
    /\ pane[p] = "live" /\ Ends(p)
    /\ pane' = [pane EXCEPT ![p] = "gone"]
    /\ proc' = [q \in Owners |-> IF q = p THEN Down
                                 ELSE [proc[q] EXCEPT !.sure = FALSE]]
    /\ UNCHANGED <<ses, mark, writes, files, resumed, saved, faults, old>>

\* The holder runs `sleep 30`; an agent ends when it likes.
SessionEnds(a) ==
    /\ Alive(a) /\ EndSession(a)
    /\ UNCHANGED <<lock, resumed, saved, proc, reg, own, faults>>

Begins(a) ==
    /\ ses[a] = "agent" /\ writes[a] = None
    /\ \E s \in Ids \ files :
         /\ (a \in Codex) = (s \in CodexIds)
         /\ writes' = [writes EXCEPT ![a] = s]
         /\ files' = files \cup {s}
    /\ UNCHANGED <<pane, ses, mark, lock, resumed, saved, proc, reg, own,
                   faults, old>>

\* A conversation in the same directory that no agent of railmux writes.
Foreign(s) ==
    /\ s \notin files /\ files' = files \cup {s}
    /\ UNCHANGED <<pane, ses, mark, lock, writes, resumed, saved, proc, reg,
                   own, faults, old>>

ResumedEnds(s) ==
    /\ s \in resumed /\ resumed' = resumed \ {s}
    /\ UNCHANGED <<world, ses, mark, lock, saved, proc, reg, own, faults>>

Process(p) ==
    \/ Hold(p) \/ MarkHolder(p) \/ StartAgent(p) \/ Register(p)
    \/ Compare(p) \/ Store(p) \/ EndDiscovery(p)
    \/ Prune(p) \/ SaveState(p) \/ Decide(p)
    \/ \E a \in Agents : Launch(p, a) \/ Examine(p, a) \/ Resolve(p, a)
                         \/ Kill(p, a)
    \/ \E s \in Ids : Resume(p, s)

Next ==
    \/ \E p \in Owners : Process(p) \/ Start(p) \/ Crash(p) \/ PaneDies(p)
    \/ \E a \in Agents : SessionEnds(a) \/ Begins(a)
    \/ \E s \in Ids : Foreign(s) \/ ResumedEnds(s)

Spec == Init /\ [][Next]_vars

-----------------------------------------------------------------------------
(* Properties *)

MarkerType == [owner : Owners, phase : {"launching", "unresolved"}, id : {None}]
              \cup [owner : Owners, phase : {"resolved"}, id : Ids]
EntryType == [mark : MarkerType, key : Ids \cup {None}, pre : SUBSET Ids,
              guess : BOOLEAN]
ContextType == [pre : SUBSET Ids, guess : BOOLEAN]
ASSUME RecordAssumption == None \notin MarkerType \cup EntryType
Labels == {"down", "run", "hold", "mark", "start", "register",
           "examine", "compare", "store", "resolve"}
ProcType == [at : Labels, agent : Agents \cup {None},
             entry : EntryType \cup {None}, todo : SUBSET Agents,
             snap : [Agents -> MarkerType \cup {None}], loaded : BOOLEAN,
             live : SUBSET Owners, goal : Ids \cup {None}, sure : BOOLEAN]

TypeOK ==
    /\ pane \in [Owners -> {"new", "live", "gone"}]
    /\ ses \in [Agents -> {"none", "holder", "agent", "gone"}]
    /\ mark \in [Agents -> MarkerType \cup {None}]
    /\ lock \in [Agents -> Owners \cup {None}]
    /\ writes \in [Agents -> Ids \cup {None}]
    /\ files \in SUBSET Ids /\ resumed \in SUBSET Ids
    /\ saved \in [Agents -> ContextType]
    /\ proc \in [Owners -> ProcType]
    /\ reg \in [Owners -> [Agents -> EntryType \cup {None}]]
    /\ own \in [Owners -> SUBSET Ids] /\ faults \in 0..MaxFaults
    /\ old \in [Agents -> SUBSET Ids]

\* A live agent is in the registry of one process at most, however many start
\* at once and find its owner gone: claim_owner's lock, compare and readback.
OneKeeper ==
    \A p, q \in Owners, a \in Agents :
        p # q /\ Alive(a) => reg[p][a] = None \/ reg[q][a] = None

\* The owner in a marker is replaced only when its pane is gone.
NoSteal ==
    [][\A a \in Agents : mark[a] # None /\ mark'[a] # None
         => mark'[a].owner = mark[a].owner \/ pane[mark[a].owner] = "gone"]_vars

\* The lifecycle launching, unresolved, resolved does not go back, through crashes
\* and adoptions, and where /proc tells an agent keeps its conversation.  (A guess
\* that was written and not read back may be guessed again otherwise.)
Rank == [launching |-> 0, unresolved |-> 1, resolved |-> 2]
Forward ==
    [][\A a \in Agents : mark[a] # None /\ mark'[a] # None
         => /\ Rank[mark[a].phase] <= Rank[mark'[a].phase]
            /\ a \in Codex /\ mark[a].phase = "resolved"
                 => mark'[a].id = mark[a].id]_vars

\* Where /proc tells, an agent is bound to the conversation it writes.
ExactBinding ==
    \A a \in Codex : mark[a] # None /\ mark[a].phase = "resolved"
                       => mark[a].id = writes[a]

\* No agent is bound to a conversation that existed when it was launched, also
\* when its launch context is lost in a crash.
NotOlder ==
    \A a \in Agents : mark[a] # None => mark[a].id \notin old[a]

\* No two agents of a registry are bound to one conversation.
KeysDiffer ==
    \A p \in Owners, a, b \in Agents :
        a # b /\ reg[p][a] # None /\ reg[p][b] # None /\ reg[p][a].key # None
          => reg[p][a].key # reg[p][b].key

\* A discovery that no failed command, no other claim and no closing pane
\* disturbs leaves no agent behind that has no owner or this one, except one whose
\* conversation is in the registry already: guesses in two panes, or a guess after
\* a failed readback, bind two Claude agents to one conversation.
NothingLeft ==
    [][\A p \in Owners : EndDiscovery(p) /\ proc[p].sure =>
         \A a \in Agents :
            LET m == proc[p].snap[a] IN
            Alive(a) /\ m # None /\ (m.owner = p \/ pane[m.owner] = "gone")
              => reg[p][a] # None \/ m.id \in Bound(p) \ {None}]_vars

\* A conversation that a Codex agent writes is resumed only if that agent
\* belongs to another pane that lives, unless a command failed, another process
\* was claiming or a pane closed meanwhile, or the registry still has a dead
\* entry for the conversation.
SecondWriterFenced ==
    [][\A p \in Owners :
         Decide(p) /\ StartsWriter(p) /\ proc[p].sure /\ proc[p].goal \notin own[p] =>
         \A a \in Codex :
            ses[a] = "agent" /\ writes[a] = proc[p].goal
              => mark[a].owner # p /\ pane[mark[a].owner] = "live"]_vars

\* The same without exceptions: a click cannot create a second writer for one
\* session.
OneWriter ==
    \A a \in Agents : ses[a] = "agent" => writes[a] \notin resumed

\* What an agent is bound to is what it writes, also where that is a guess.
RightBinding ==
    \A a \in Agents : mark[a] # None /\ mark[a].phase = "resolved"
                        => mark[a].id = writes[a]

=============================================================================
