-------------------------- MODULE DisplayTransport --------------------------
(***************************************************************************)
(* The swap display transport of src/railmux/display_transport.py: a       *)
(* Railmux process moves real agent panes from their home windows into its *)
(* display window and back, one tmux command at a time, and a launcher     *)
(* repairs what a killed process left behind.                              *)
(*                                                                         *)
(* A step is one tmux command, or a bundle of consecutive queries; between *)
(* any two steps an agent may exit, the user may attach a client, kill the *)
(* outer session or an agent session, and either process may be killed.    *)
(* A command may fail and then has no effect; MaxFaults bounds how many do. *)
(*                                                                         *)
(* Simplifications: AgentSlot.transport_kind is SWAP exactly when the slot *)
(* has a swap_state, and is not kept apart; the swap-capable configuration *)
(* is assumed (otherwise every attach is nested); agents on a legacy tmux  *)
(* server are left out; marker JSON is a record and always decodes.        *)
(***************************************************************************)
EXTENDS TmuxServer

CONSTANTS
    Recoverers,      \* launcher processes that may run recovery
    MaxTx,           \* bound on swap transactions
    MaxFaults,       \* bound on failed tmux commands and queries
    MaxActs,         \* bound on what the user does to tmux directly
    Overlap,         \* a launcher may recover while another process still
                     \* acts on the same transaction
    IdentityFaults   \* pane_identity may fail for a pane that is alive

VARIABLES
    tm,      \* the tmux server
    slots,   \* slot -> its AgentSlot: pane, agent, swap_state
    kp,      \* the keeper session is cached in _keeper_session
    app,     \* the Railmux process: instance, label, locals of its operation
    rec,     \* launcher -> label and locals of recover_interrupted_swaps
    tx,      \* transactions begun so far (uuid4 is a fresh number)
    faults,  \* failed commands so far
    acts     \* direct user actions so far

vars == <<tm, slots, kp, app, rec, tx, faults, acts>>

AppLabels == {"idle", "check", "mark1", "mark2", "swaphome", "verifyhome",
              "clear", "home", "gate", "place", "inspect", "keeper",
              "prep1", "prep2", "swapout", "verify", "back", "verifyback",
              "commit1", "commit2", "nested", "blank", "killagent",
              "killpane", "quit", "exit", "bye"}
Purposes  == {"none", "attach", "preview", "reset", "kill", "close",
              "fallback", "reaped", "soft", "hard"}
RecLabels == {"off", "list", "each", "swap", "verify", "observe", "mark1",
              "mark2", "clear", "keepers", "outers"}

EmptySlot == [pane |-> None, agent |-> None, st |-> None]
Idle(i) == [inst |-> i, at |-> "idle", slot |-> None, agent |-> None,
            st |-> None, for |-> "none", todo |-> {}, tried |-> {}]
Off == [at |-> "off", rows |-> {}, all |-> {}, ids |-> {}, st |-> None,
        todo |-> {}, inuse |-> {}, stale |-> {}]

Init ==
    /\ tm = FreshServer
    /\ slots = [s \in Slots |-> EmptySlot]
    /\ kp = FALSE
    /\ app = Idle(1)
    /\ rec = [r \in Recoverers |-> Off]
    /\ tx = 0
    /\ faults = 0
    /\ acts = 0

-----------------------------------------------------------------------------
(* What one command can do *)

\* Recovery takes no lock.  Unless Overlap, only one launcher recovers at a
\* time, and no process or outer session ends while it does.
NoRecovery == \A r \in Recoverers : rec[r].at = "off"

Fault == faults < MaxFaults /\ faults' = faults + 1
NoFault == UNCHANGED faults
Fails(can) == IF can THEN Fault ELSE NoFault

AppUp == tm.own[app.inst]
At(l) == AppUp /\ app.at = l
Goto(l) == app' = [app EXCEPT !.at = l]
W == Disp(app.inst)

\* A failed operation ends; close_all goes on with the next slot.
Fail == IF app.for \in {"soft", "hard"} THEN Goto("quit")
        ELSE app' = Idle(app.inst)

\* Mutant: where the agent's pane is goes unchecked.
MutVerifiedHome(t, st) == Alive(t, st.real) /\ Alive(t, st.ph)
VerifiedHome(t, st) ==
    /\ t.at[st.real] = st.home
    /\ t.at[st.ph] = Disp(st.inst)
    /\ HomeWin(t, st.agent) = st.home

VerifiedDisplayed(t, st) ==
    /\ t.at[st.real] = Disp(st.inst)
    /\ t.at[st.ph] = st.home
    /\ ~Attached(t, st.agent)
    /\ SingleLivePane(t, st.agent) = st.ph

IsDisplayed(t, st) ==
    t.at[st.real] = Disp(st.inst) /\ t.at[st.ph] = st.home

\* The verdict of a bundle of queries: FALSE also when one of them fails.
Verdict(truth, v) == \/ v = truth /\ NoFault
                     \/ truth /\ ~v /\ Fault

\* Where pane_identity says a pane is; a failed query looks like a dead pane.
Seen(t, p) == {t.at[p]} \cup (IF IdentityFaults THEN {Gone} ELSE {})

\* Mutant: one idle slot is enough to drop the keeper.
MutNoSwaps(sl) == \E s \in Slots : sl[s].st = None
NoSwaps(sl) == \A s \in Slots : sl[s].st = None

\* _drop_keeper_if_idle, the kill of the keeper failing or not.
DropKeeperIfIdle(sl) ==
    IF ~NoSwaps(sl) THEN UNCHANGED <<tm, kp, faults>>
    ELSE /\ kp' = FALSE
         /\ \/ tm' = (IF kp THEN KillKeeper(tm, app.inst) ELSE tm) /\ NoFault
            \/ kp /\ Fault /\ UNCHANGED tm

\* The two writes of _write_marker_pair, and a swap-pane, each with the step
\* that follows its success and its failure.  The second write's failure
\* clears the first.
WriteHome(m, ok, failed) ==
    \/ /\ WindowUp(tm, m.home)
       /\ tm' = SetOption(tm, m.home, m.slot, m) /\ ok /\ NoFault
    \/ UNCHANGED tm /\ failed /\ Fails(WindowUp(tm, m.home))

WriteDisplay(m, ok, failed) ==
    \/ /\ WindowUp(tm, Disp(m.inst))
       /\ tm' = SetOption(tm, Disp(m.inst), m.slot, m) /\ ok /\ NoFault
    \/ /\ tm' = ClearMatching(tm, m.home, m.slot, m.tx)
       /\ failed /\ Fails(WindowUp(tm, Disp(m.inst)))

Swap(m, ok, failed) ==
    \/ /\ CanSwap(tm, m.real, m.ph)
       /\ tm' = SwapPanes(tm, m.real, m.ph) /\ ok /\ NoFault
    \/ UNCHANGED tm /\ failed /\ Fails(CanSwap(tm, m.real, m.ph))

\* One clear of _clear_markers, whose failure goes unnoticed.
Clear(m, w) == \/ tm' = ClearMatching(tm, w, m.slot, m.tx) /\ NoFault
               \/ UNCHANGED tm /\ Fault

BothWindows(m) == {m.home, Disp(m.inst)}
ClearBoth == app' = [app EXCEPT !.at = "clear", !.todo = BothWindows(app.st)]

-----------------------------------------------------------------------------
(* return_home, the first part of every operation on a displaying slot.    *)
(* Slot, agent and purpose of the operation are kept in app.               *)

Begin(s, a, purpose) ==
    app' = [app EXCEPT !.at = IF slots[s].st = None THEN "home" ELSE "check",
                       !.slot = s, !.agent = a, !.st = slots[s].st,
                       !.for = purpose]

CheckHome ==
    /\ At("check")
    /\ \E v \in BOOLEAN :
         /\ Verdict(VerifiedHome(tm, app.st), v)
         /\ IF v THEN ClearBoth
            ELSE IF IsDisplayed(tm, app.st) THEN Goto("mark1")
            ELSE Fail
    /\ UNCHANGED <<tm, slots, kp, rec, tx, acts>>

\* Mutant: a phase that is not in the schema.
MutReturning == [app.st EXCEPT !.phase = "home"]
Returning == [app.st EXCEPT !.phase = "returning"]

\* Whether the returning phase was written is ignored.
MarkReturningHome ==
    /\ At("mark1") /\ WriteHome(Returning, Goto("mark2"), Goto("swaphome"))
    /\ UNCHANGED <<slots, kp, rec, tx, acts>>

MarkReturningDisplay ==
    /\ At("mark2") /\ WriteDisplay(Returning, Goto("swaphome"), Goto("swaphome"))
    /\ UNCHANGED <<slots, kp, rec, tx, acts>>

SwapHome ==
    /\ At("swaphome") /\ Swap(app.st, Goto("verifyhome"), Fail)
    /\ UNCHANGED <<slots, kp, rec, tx, acts>>

VerifyHome ==
    /\ At("verifyhome")
    /\ \E v \in BOOLEAN : /\ Verdict(VerifiedHome(tm, app.st), v)
                          /\ IF v THEN ClearBoth ELSE Fail
    /\ UNCHANGED <<tm, slots, kp, rec, tx, acts>>

\* The slot after its transaction ended: it keeps the placeholder, unless the
\* agent had died.  Mutant: it keeps the pane it showed.
MutEmptied(m) == [EmptySlot EXCEPT !.pane =
                    IF app.for = "reaped" THEN None ELSE m.real]
Emptied(m) == [EmptySlot EXCEPT !.pane =
                 IF app.for = "reaped" THEN None ELSE m.ph]

\* _clear_markers in set order; after the last one the slot is emptied.
ClearMarker ==
    /\ At("clear")
    /\ \E w \in app.todo :
         /\ Clear(app.st, w)
         /\ app' = [app EXCEPT !.todo = @ \ {w},
                      !.at = IF app.todo = {w} THEN "home" ELSE "clear"]
         /\ slots' = IF app.todo # {w} THEN slots
                     ELSE [slots EXCEPT ![app.slot] = Emptied(app.st)]
    /\ UNCHANGED <<kp, rec, tx, acts>>

\* The agent is home: drop an idle keeper, except before another attach, and
\* go on with the operation return_home was called from.
AfterHome ==
    /\ At("home")
    /\ IF app.for = "attach" THEN UNCHANGED <<tm, kp, faults>>
       ELSE DropKeeperIfIdle(slots)
    /\ CASE app.for = "attach" -> Goto("gate")
         [] app.for = "fallback" -> Goto("nested")
         [] app.for \in {"preview", "reset", "kill"} -> Goto("blank")
         [] app.for = "close" -> Goto("killpane")
         [] app.for = "reaped" -> app' = Idle(app.inst)
         [] OTHER -> Goto("quit")
    /\ UNCHANGED <<slots, rec, tx, acts>>

-----------------------------------------------------------------------------
(* attach *)

\* The app asks can_display first; re-attaching what is verified displayed
\* changes nothing.
Attach(s, a) ==
    /\ At("idle") /\ tx < MaxTx
    /\ \A o \in Slots \ {s} : slots[o].agent # a
    /\ ~(/\ slots[s].st # None /\ slots[s].agent = a
         /\ VerifiedDisplayed(tm, slots[s].st))
    /\ app' = [app EXCEPT !.at = IF slots[s].st = None THEN "gate"
                                 ELSE "check",
                          !.slot = s, !.agent = a, !.st = slots[s].st,
                          !.for = "attach"]
    /\ UNCHANGED <<tm, slots, kp, rec, tx, faults, acts>>

Known == {slots[s].st.tx : s \in {s \in Slots : slots[s].st # None}}

\* No marker of another transaction names this agent.
MarkerGate(a) ==
    \A w \in Windows, s \in Slots :
        tm.opt[w][s] # None /\ tm.opt[w][s].agent = a
            => tm.opt[w][s].tx \in Known

Gate ==
    /\ At("gate")
    /\ \E v \in BOOLEAN : /\ Verdict(MarkerGate(app.agent), v)
                          /\ IF v THEN Goto("place") ELSE Fail
    /\ UNCHANGED <<tm, slots, kp, rec, tx, acts>>

\* The slot's own pane, respawned with whatever it is to show, or a new one
\* when it has none: the only command that replaces what runs in a pane.
PaneReady(s) == slots[s].pane # None /\ Alive(tm, slots[s].pane)
PaneFor(s) == IF PaneReady(s) THEN slots[s].pane ELSE FreshPad(tm)
Show(s, what) ==
    /\ PaneReady(s) \/ HasFreshPad(tm)
    /\ tm' = IF PaneReady(s) THEN RespawnPane(tm, slots[s].pane, what)
             ELSE [SplitWindow(tm, app.inst) EXCEPT
                     !.shows[FreshPad(tm)] = what]

\* _prepare_placeholder; a failed split leaves the slot without a pane.
Place ==
    /\ At("place")
    /\ \/ /\ Show(app.slot, "idle") /\ NoFault
          /\ slots' = [slots EXCEPT ![app.slot] =
                         [EmptySlot EXCEPT !.pane = PaneFor(app.slot)]]
          /\ Goto("inspect")
       \/ /\ UNCHANGED tm /\ Fault
          /\ slots' = IF PaneReady(app.slot) THEN slots
                      ELSE [slots EXCEPT ![app.slot].pane = None]
          /\ Fail
    /\ UNCHANGED <<kp, rec, tx, acts>>

\* The topology gate.
Inspect ==
    /\ At("inspect")
    /\ LET real == SingleLivePane(tm, app.agent)
           fit == /\ ~Attached(tm, app.agent) /\ real # None
                  /\ \A o \in Slots \ {app.slot} :
                       slots[o].st = None \/ slots[o].st.real # real
       IN  \E v \in BOOLEAN :
             /\ Verdict(fit, v)
             /\ app' = IF ~v THEN [app EXCEPT !.at = "home",
                                              !.for = "fallback"]
                ELSE [app EXCEPT !.at = "keeper",
                        !.st = [tx |-> tx + 1, agent |-> app.agent,
                                real |-> real, home |-> HomeWin(tm, app.agent),
                                ph |-> slots[app.slot].pane,
                                inst |-> app.inst, slot |-> app.slot,
                                phase |-> "prepared"]]
    /\ UNCHANGED <<tm, slots, kp, rec, tx, acts>>

Fallback == app' = [app EXCEPT !.at = "home", !.for = "fallback"]

\* _ensure_keeper, then the placeholder must be in a window of the keeper.
Keeper ==
    /\ At("keeper")
    /\ \/ /\ tm.keep[app.inst] \/ (~kp /\ tm.outer[app.inst])
          /\ tm' = GroupKeeper(tm, app.inst)
          /\ kp' = TRUE
          /\ IF tm.at[app.st.ph] = W THEN Goto("prep1") ELSE Fallback
          /\ tx' = IF tm.at[app.st.ph] = W THEN tx + 1 ELSE tx
          /\ NoFault
       \/ /\ Fallback /\ UNCHANGED <<tm, kp, tx>>
          /\ Fails(tm.keep[app.inst] \/ (~kp /\ tm.outer[app.inst]))
    /\ UNCHANGED <<slots, rec, acts>>

\* Mutant: the display window is never marked.
MutPrepare1 ==
    /\ At("prep1") /\ WriteHome(app.st, Goto("swapout"), Fallback)
    /\ UNCHANGED <<slots, kp, rec, tx, acts>>

Prepare1 ==
    /\ At("prep1") /\ WriteHome(app.st, Goto("prep2"), Fallback)
    /\ UNCHANGED <<slots, kp, rec, tx, acts>>

Prepare2 ==
    /\ At("prep2") /\ WriteDisplay(app.st, Goto("swapout"), Fallback)
    /\ UNCHANGED <<slots, kp, rec, tx, acts>>

\* Undo a transaction whose agent is at home: clear, drop, nested display.
RollBack == app' = [app EXCEPT !.at = "clear", !.for = "fallback",
                               !.todo = BothWindows(app.st)]

SwapOut ==
    /\ At("swapout") /\ Swap(app.st, Goto("verify"), RollBack)
    /\ UNCHANGED <<slots, kp, rec, tx, acts>>

Verify ==
    /\ At("verify")
    /\ \E v \in BOOLEAN :
         /\ Verdict(VerifiedDisplayed(tm, app.st), v)
         /\ IF v THEN app' = [app EXCEPT !.at = "commit1",
                                         !.st.phase = "displayed"]
            ELSE IF VerifiedHome(tm, app.st) THEN RollBack
            ELSE Goto("back")
    /\ UNCHANGED <<tm, slots, kp, rec, tx, acts>>

\* The slot takes the transaction: committed, or neither committed nor
\* provably home.  Mutant: only the pane is taken.
MutTake(phase) ==
    /\ slots' = [slots EXCEPT ![app.slot] =
                   [pane |-> app.st.real, agent |-> app.agent, st |-> None]]
    /\ app' = Idle(app.inst)
Take(phase) ==
    /\ slots' = [slots EXCEPT ![app.slot] =
                   [pane |-> app.st.real, agent |-> app.agent,
                    st |-> [app.st EXCEPT !.phase = phase]]]
    /\ app' = Idle(app.inst)

SwapBack ==
    /\ At("back")
    /\ Swap(app.st, Goto("verifyback") /\ UNCHANGED slots, Take("prepared"))
    /\ UNCHANGED <<kp, rec, tx, acts>>

VerifyBack ==
    /\ At("verifyback")
    /\ \E v \in BOOLEAN :
         /\ Verdict(VerifiedHome(tm, app.st), v)
         /\ IF v THEN RollBack /\ UNCHANGED slots ELSE Take("prepared")
    /\ UNCHANGED <<tm, kp, rec, tx, acts>>

Commit1 ==
    /\ At("commit1") /\ WriteHome(app.st, Goto("commit2"), Goto("back"))
    /\ UNCHANGED <<slots, kp, rec, tx, acts>>

Commit2 ==
    /\ At("commit2")
    /\ WriteDisplay(app.st, Take("displayed"), Goto("back") /\ UNCHANGED slots)
    /\ UNCHANGED <<kp, rec, tx, acts>>

\* NestedDisplayTransport.attach: a tmux client of the agent's session.
Nested ==
    /\ At("nested")
    /\ \/ /\ Show(app.slot, app.agent) /\ NoFault
          /\ slots' = [slots EXCEPT ![app.slot] =
                         [pane |-> PaneFor(app.slot), agent |-> app.agent,
                          st |-> None]]
       \/ UNCHANGED <<tm, slots>> /\ Fault
    /\ app' = Idle(app.inst)
    /\ UNCHANGED <<kp, rec, tx, acts>>

AttachStep == \/ Gate \/ Place \/ Inspect \/ Keeper \/ Prepare1 \/ Prepare2
              \/ SwapOut \/ Verify \/ SwapBack \/ VerifyBack
              \/ Commit1 \/ Commit2 \/ Nested

-----------------------------------------------------------------------------
(* The other operations of the transport, and the calls the app makes next *)

\* prepare_preview, reset_slot and close_slot
Vacate(s, purpose) ==
    /\ At("idle") /\ slots[s].pane # None
    /\ Begin(s, slots[s].agent, purpose)
    /\ UNCHANGED <<tm, slots, kp, rec, tx, faults, acts>>

\* prepare_kill, when some slot displays the agent
Kill(a) ==
    /\ At("idle") /\ SessionUp(tm, a)
    /\ \/ \E s \in Slots : slots[s].agent = a /\ Begin(s, a, "kill")
       \/ /\ \A s \in Slots : slots[s].agent # a
          /\ app' = [app EXCEPT !.at = "killagent", !.agent = a,
                                !.for = "kill"]
    /\ UNCHANGED <<tm, slots, kp, rec, tx, faults, acts>>

\* The pane left behind is blanked; only a preview makes a new one, and only
\* prepare_kill goes on without one.
Blank ==
    /\ At("blank")
    /\ \/ /\ PaneReady(app.slot) \/ app.for = "preview"
          /\ Show(app.slot, "idle") /\ NoFault
          /\ slots' = [slots EXCEPT ![app.slot] =
                         [EmptySlot EXCEPT !.pane = PaneFor(app.slot)]]
          /\ IF app.for = "kill" THEN Goto("killagent")
             ELSE app' = Idle(app.inst)
       \/ /\ ~PaneReady(app.slot) /\ app.for = "kill"
          /\ slots' = [slots EXCEPT ![app.slot] = EmptySlot]
          /\ Goto("killagent") /\ NoFault /\ UNCHANGED tm
       \/ /\ UNCHANGED <<tm, slots>> /\ app' = Idle(app.inst)
          /\ Fails(PaneReady(app.slot) \/ app.for # "reset")
    /\ UNCHANGED <<kp, rec, tx, acts>>

KillSession(a) ==
    /\ At("killagent") /\ app.agent = a
    /\ \/ tm' = KillAgentSession(tm, a) /\ NoFault
       \/ UNCHANGED tm /\ Fault
    /\ app' = Idle(app.inst)
    /\ UNCHANGED <<slots, kp, rec, tx, acts>>

ClosePane ==
    /\ At("killpane")
    /\ \/ /\ tm' = IF PaneReady(app.slot)
                   THEN KillPane(tm, slots[app.slot].pane) ELSE tm
          /\ slots' = [slots EXCEPT ![app.slot] = EmptySlot]
          /\ app' = [app EXCEPT !.at = "home", !.for = "reaped"] /\ NoFault
       \/ /\ PaneReady(app.slot) /\ Fault
          /\ app' = Idle(app.inst) /\ UNCHANGED <<tm, slots>>
    /\ UNCHANGED <<kp, rec, tx, acts>>

\* reap_dead_display, on every refresh
ReapDead(s) ==
    /\ At("idle") /\ slots[s].st # None
    /\ LET st == slots[s].st
       IN  /\ \E w \in Seen(tm, st.real) : w \notin Windows
           /\ \/ /\ SingleLivePane(tm, st.agent) = st.ph
                 /\ tm' = KillAgentSession(tm, st.agent) /\ NoFault
              \/ /\ UNCHANGED tm
                 /\ Fails(SingleLivePane(tm, st.agent) = st.ph)
           /\ app' = [app EXCEPT !.at = "clear", !.slot = s, !.st = st,
                        !.agent = st.agent, !.for = "reaped",
                        !.todo = BothWindows(st)]
    /\ UNCHANGED <<slots, kp, rec, tx, acts>>

\* fallback_for_external_client, on every refresh
ExternalClient(s) ==
    /\ At("idle") /\ slots[s].st # None
    /\ Attached(tm, slots[s].st.agent)
    /\ Begin(s, slots[s].st.agent, "fallback")
    /\ UNCHANGED <<tm, slots, kp, rec, tx, faults, acts>>

-----------------------------------------------------------------------------
(* Leaving: close_all, then the rest of the teardown *)

\* The user quits, or a refresh finds the outer session gone.
Leave(how) ==
    /\ At("idle")
    /\ tm.outer[app.inst] \/ how = "soft"
    /\ app' = [app EXCEPT !.at = "quit", !.for = how]
    /\ UNCHANGED <<tm, slots, kp, rec, tx, faults, acts>>

ToReturn == {s \in Slots \ app.tried : slots[s].st # None}
ToClose  == {s \in Slots : slots[s].st = None /\ slots[s].pane # None}

CloseAll ==
    /\ At("quit")
    /\ \/ \E s \in ToReturn :
            /\ app' = [app EXCEPT !.at = "check", !.slot = s,
                         !.st = slots[s].st, !.tried = @ \cup {s}]
            /\ UNCHANGED <<tm, slots, faults>>
       \/ /\ ToReturn = {}
          /\ \E s \in ToClose :
               /\ slots' = [slots EXCEPT ![s] = EmptySlot]
               /\ \/ tm' = KillPane(tm, slots[s].pane) /\ NoFault
                  \/ UNCHANGED tm /\ Fault
          /\ UNCHANGED app
       \/ /\ ToReturn = {} /\ ToClose = {}
          /\ Goto("exit") /\ UNCHANGED <<tm, slots, faults>>
    /\ UNCHANGED <<kp, rec, tx, acts>>

ExitDropsKeeper ==
    /\ At("exit")
    /\ DropKeeperIfIdle(slots)
    /\ Goto("bye")
    /\ UNCHANGED <<slots, rec, tx, acts>>

\* Only a hard quit that returned every agent kills the agents' sessions.
Bye ==
    /\ At("bye")
    /\ Overlap \/ NoRecovery
    /\ tm' = IF app.for = "hard" /\ NoSwaps(slots)
             THEN Settle([tm EXCEPT !.own[app.inst] = FALSE,
                            !.outer[app.inst] = FALSE,
                            !.at = [p \in Panes |->
                                      IF tm.at[p] \in HomeWindows
                                      THEN Gone ELSE tm.at[p]]])
             ELSE OwnerDies(tm, app.inst)
    /\ app' = Idle(app.inst)
    /\ slots' = [s \in Slots |-> EmptySlot]
    /\ UNCHANGED <<kp, rec, tx, faults, acts>>

AppStep ==
    \/ CheckHome \/ MarkReturningHome \/ MarkReturningDisplay \/ SwapHome
    \/ VerifyHome \/ ClearMarker \/ AfterHome \/ AttachStep
    \/ Blank \/ ClosePane \/ CloseAll \/ ExitDropsKeeper \/ Bye
    \/ \E a \in Agents : KillSession(a)

Request ==
    \/ \E s \in Slots, a \in Agents : Attach(s, a)
    \/ \E s \in Slots, purpose \in {"preview", "reset", "close"} :
         Vacate(s, purpose)
    \/ \E a \in Agents : Kill(a)
    \/ \E how \in {"soft", "hard"} : Leave(how)

Refresh == \E s \in Slots : ReapDead(s) \/ ExternalClient(s)

-----------------------------------------------------------------------------
(* recover_interrupted_swaps, run by a launcher before it starts or joins  *)
(* the outer session                                                       *)

Markers == {tm.opt[w][s] : w \in Windows, s \in Slots} \ {None}

\* One record per transaction: when the two markers differ, whichever is
\* listed first.
Groupings ==
    {g \in SUBSET Markers :
       /\ \A m, n \in g : m.tx = n.tx => m = n
       /\ \A m \in Markers : \E n \in g : n.tx = m.tx}

Serial == NoRecovery /\ \A i \in Insts : tm.own[i] => tm.outer[i]

RecoverList(r) ==
    /\ rec[r].at = "off"
    /\ Overlap \/ Serial
    /\ \E g \in Groupings, ids \in SUBSET Insts :
         /\ rec' = [rec EXCEPT ![r] = [Off EXCEPT !.at = "each", !.rows = g,
                      !.ids = ids, !.all = {m.inst : m \in g}]]
         /\ \/ ids = {i \in Insts : tm.outer[i]} /\ NoFault
            \/ ids = Insts /\ Fault
    /\ UNCHANGED <<tm, slots, kp, app, tx, acts>>

\* Mutant: an unresolved transaction does not hold its keeper.
MutUnresolved(r, m) ==
    rec' = [rec EXCEPT ![r].at = "each",
              ![r].rows = {n \in @ : n.tx # m.tx}]
Unresolved(r, m) ==
    rec' = [rec EXCEPT ![r].at = "each", ![r].inuse = @ \cup {m.inst},
              ![r].rows = {n \in @ : n.tx # m.tx}]
Fixed(r, m) ==
    rec' = [rec EXCEPT ![r].at = "clear", ![r].st = m,
              ![r].todo = BothWindows(m)]

\* The transaction of a running process.  Mutant: or of one whose outer session
\* merely survives it.
MutActive(r, m, own) == own \/ m.inst \in rec[r].ids
Active(r, m, own) == own /\ m.inst \in rec[r].ids

\* Classify one transaction.  An active one is left alone; a dead agent's
\* session, which only the placeholder keeps up, is killed; whatever matches
\* no case stays as it is.
RecoverOne(r) ==
    /\ rec[r].at = "each"
    /\ \E m \in rec[r].rows : \E real \in Seen(tm, m.real), ph \in Seen(tm, m.ph),
          own \in {tm.own[m.inst]} \cup (IF IdentityFaults THEN {FALSE} ELSE {}) :
         LET active   == Active(r, m, own)
             atHome   == real = m.home
             away     == real = Disp(m.inst) /\ ph = m.home
             homeless == /\ real = Disp(m.inst) /\ ph \notin Windows
                         /\ ~SessionUp(tm, m.agent)
             ended    == /\ real \notin Windows /\ ph \in Windows
                         /\ SingleLivePane(tm, m.agent) = m.ph
         IN  \/ /\ active \/ ~(atHome \/ away \/ homeless \/ ended)
                /\ Unresolved(r, m) /\ UNCHANGED tm /\ NoFault
             \/ ~active /\ atHome /\ Fixed(r, m) /\ UNCHANGED tm /\ NoFault
             \/ /\ ~active /\ away
                /\ rec' = [rec EXCEPT ![r].at = "swap", ![r].st = m]
                /\ UNCHANGED tm /\ NoFault
             \/ /\ ~active /\ homeless
                /\ \/ /\ HasFreshPad(tm) /\ tm.gen[m.agent] = 1
                      /\ tm' = NewDetachedSession(tm, m.agent)
                      /\ rec' = [rec EXCEPT ![r].at = "observe", ![r].st = m]
                      /\ NoFault
                   \/ UNCHANGED tm /\ Unresolved(r, m) /\ Fault
             \/ /\ ~active /\ ended /\ Fixed(r, m)
                /\ \/ tm' = KillAgentSession(tm, m.agent) /\ NoFault
                   \/ UNCHANGED tm /\ Fault
    /\ UNCHANGED <<slots, kp, app, tx, acts>>

\* The recreated home session must be fresh: one live pane and no client.
RecoverObserve(r) ==
    /\ rec[r].at = "observe"
    /\ LET m == rec[r].st
           ph == SingleLivePane(tm, m.agent)
       IN  \E v \in BOOLEAN :
             /\ Verdict(ph # None /\ ~Attached(tm, m.agent), v)
             /\ IF ~v THEN Unresolved(r, m)
                ELSE rec' = [rec EXCEPT ![r].at = "mark1",
                       ![r].st = [m EXCEPT !.ph = ph, !.phase = "returning",
                                    !.home = HomeWin(tm, m.agent)]]
    /\ UNCHANGED <<tm, slots, kp, app, tx, acts>>

RecTo(r, l) == rec' = [rec EXCEPT ![r].at = l]

RecoverMark1(r) ==
    /\ rec[r].at = "mark1"
    /\ WriteHome(rec[r].st, RecTo(r, "mark2"), Unresolved(r, rec[r].st))
    /\ UNCHANGED <<slots, kp, app, tx, acts>>

RecoverMark2(r) ==
    /\ rec[r].at = "mark2"
    /\ WriteDisplay(rec[r].st, RecTo(r, "swap"), Unresolved(r, rec[r].st))
    /\ UNCHANGED <<slots, kp, app, tx, acts>>

RecoverSwap(r) ==
    /\ rec[r].at = "swap"
    /\ Swap(rec[r].st, RecTo(r, "verify"), Unresolved(r, rec[r].st))
    /\ UNCHANGED <<slots, kp, app, tx, acts>>

RecoverVerify(r) ==
    /\ rec[r].at = "verify"
    /\ \E v \in BOOLEAN :
         /\ Verdict(VerifiedHome(tm, rec[r].st), v)
         /\ IF v THEN Fixed(r, rec[r].st) ELSE Unresolved(r, rec[r].st)
    /\ UNCHANGED <<tm, slots, kp, app, tx, acts>>

RecoverClear(r) ==
    /\ rec[r].at = "clear"
    /\ \E w \in rec[r].todo :
         /\ Clear(rec[r].st, w)
         /\ rec' = IF rec[r].todo # {w}
                   THEN [rec EXCEPT ![r].todo = @ \ {w}]
                   ELSE [rec EXCEPT ![r].at = "each", ![r].todo = {},
                           ![r].stale = @ \cup {rec[r].st.inst},
                           ![r].rows = {n \in @ : n.tx # rec[r].st.tx}]
    /\ UNCHANGED <<slots, kp, app, tx, acts>>

\* A keeper that no unresolved or active transaction needs is killed.
RecoverKeepers(r) ==
    /\ rec[r].at \in {"each", "keepers"} /\ rec[r].rows = {}
    /\ \/ \E i \in rec[r].all \ rec[r].inuse :
            /\ rec' = [rec EXCEPT ![r].at = "keepers",
                                  ![r].inuse = @ \cup {i}]
            /\ \/ tm' = KillKeeper(tm, i) /\ NoFault
               \/ UNCHANGED tm /\ Fault
       \/ /\ rec[r].all \subseteq rec[r].inuse
          /\ rec' = [rec EXCEPT ![r].at = "outers"]
          /\ UNCHANGED <<tm, faults>>
    /\ UNCHANGED <<slots, kp, app, tx, acts>>

\* Outer sessions of repaired transactions are killed.
RecoverOuters(r) ==
    /\ rec[r].at = "outers"
    /\ \E i \in rec[r].stale :
         /\ rec' = [rec EXCEPT ![r].stale = @ \ {i}]
         /\ \/ tm' = KillOuter(tm, i) /\ NoFault
            \/ UNCHANGED tm /\ Fault
    /\ UNCHANGED <<slots, kp, app, tx, acts>>

\* new-session -A: join the outer session or start the next instance in a
\* new one.
Launch(r) ==
    /\ rec[r].at = "outers" /\ rec[r].stale = {}
    /\ rec' = [rec EXCEPT ![r] = Off]
    /\ IF /\ \A i \in Insts : ~tm.outer[i]
          /\ ~AppUp /\ app.inst < MaxInst
       THEN /\ tm' = StartOuter(tm, app.inst + 1)
            /\ app' = Idle(app.inst + 1)
            /\ slots' = [s \in Slots |-> EmptySlot]
            /\ kp' = FALSE
       ELSE UNCHANGED <<tm, app, slots, kp>>
    /\ UNCHANGED <<tx, faults, acts>>

RecoverStep(r) ==
    \/ RecoverList(r) \/ RecoverOne(r) \/ RecoverObserve(r)
    \/ RecoverMark1(r) \/ RecoverMark2(r) \/ RecoverSwap(r)
    \/ RecoverVerify(r) \/ RecoverClear(r) \/ RecoverKeepers(r)
    \/ RecoverOuters(r) \/ Launch(r)

-----------------------------------------------------------------------------
(* The environment: agents, users, and processes that are killed *)

UserActs == acts < MaxActs /\ acts' = acts + 1

AgentExits(a) ==
    /\ Alive(tm, a)
    /\ tm' = KillPane(tm, a)
    /\ UNCHANGED <<slots, kp, app, rec, tx, faults, acts>>

UserAttaches(a) ==
    /\ SessionUp(tm, a)
    /\ tm' = [tm EXCEPT !.ext = IF a \in @ THEN @ \ {a} ELSE @ \cup {a}]
    /\ UserActs
    /\ UNCHANGED <<slots, kp, app, rec, tx, faults>>

UserKillsSession(a) ==
    /\ SessionUp(tm, a)
    /\ tm' = KillAgentSession(tm, a)
    /\ UserActs
    /\ UNCHANGED <<slots, kp, app, rec, tx, faults>>

UserKillsOuter(i) ==
    /\ tm.outer[i]
    /\ Overlap \/ NoRecovery
    /\ tm' = KillOuter(tm, i)
    /\ UserActs
    /\ UNCHANGED <<slots, kp, app, rec, tx, faults>>

\* A nested client ends with the session it is attached to.
NestedClientEnds(p) ==
    /\ Alive(tm, p) /\ tm.shows[p] # "idle"
    /\ ~SessionUp(tm, tm.shows[p])
    /\ tm' = KillPane(tm, p)
    /\ UNCHANGED <<slots, kp, app, rec, tx, faults, acts>>

AppKilled ==
    /\ AppUp
    /\ Overlap \/ NoRecovery
    /\ tm' = OwnerDies(tm, app.inst)
    /\ app' = Idle(app.inst)
    /\ slots' = [s \in Slots |-> EmptySlot]
    /\ UNCHANGED <<kp, rec, tx, faults, acts>>

RecovererKilled(r) ==
    /\ rec[r].at # "off"
    /\ rec' = [rec EXCEPT ![r] = Off]
    /\ UserActs
    /\ UNCHANGED <<tm, slots, kp, app, tx, faults>>

Environment ==
    \/ \E a \in Agents : \/ AgentExits(a) \/ UserAttaches(a)
                         \/ UserKillsSession(a)
    \/ \E i \in Insts : UserKillsOuter(i)
    \/ \E p \in Pads : NestedClientEnds(p)
    \/ AppKilled
    \/ \E r \in Recoverers : RecovererKilled(r)

Next ==
    \/ Request \/ Refresh \/ AppStep
    \/ \E r \in Recoverers : RecoverStep(r)
    \/ Environment

Spec == Init /\ [][Next]_vars

\* A launcher that runs keeps running, and the user launches Railmux again.
FairSpec == Spec /\ \A r \in Recoverers : WF_vars(RecoverStep(r))

-----------------------------------------------------------------------------
(* Properties *)

SlotType == [pane : Panes \cup {None}, agent : Agents \cup {None},
             st : SwapState \cup {None}]
AppType == [inst : Insts, at : AppLabels, slot : Slots \cup {None},
            agent : Agents \cup {None}, st : SwapState \cup {None},
            for : Purposes, todo : SUBSET Windows, tried : SUBSET Slots]
RecType == [at : RecLabels, rows : SUBSET SwapState, all : SUBSET Insts,
            ids : SUBSET Insts, st : SwapState \cup {None},
            todo : SUBSET Windows, inuse : SUBSET Insts,
            stale : SUBSET Insts]

TypeOK ==
    /\ tm \in ServerType
    /\ slots \in [Slots -> SlotType]
    /\ kp \in BOOLEAN
    /\ app \in AppType
    /\ rec \in [Recoverers -> RecType]
    /\ tx \in Nat /\ faults \in Nat /\ acts \in Nat

AwayFrom(a) == {i \in Insts : tm.at[a] = Disp(i)}

\* An agent that is not at home has a marker on the window it is in, naming
\* it: whatever fails or is killed, recovery finds it.
AwayIsMarked ==
    \A a \in Agents : \A i \in AwayFrom(a) :
        \E s \in Slots : /\ tm.opt[Disp(i)][s] # None
                         /\ tm.opt[Disp(i)][s].real = a
                         /\ tm.opt[Disp(i)][s].inst = i

\* The keeper of a display window outlives every agent in that window, so
\* killing the outer session cannot take the agent with it.
AwayIsKept == \A a \in Agents : \A i \in AwayFrom(a) : tm.keep[i]

\* Between operations, an agent in the live process's window is owned by
\* exactly one slot: it is never left on screen without a way home.
OneOwner ==
    AppUp /\ app.at = "idle" =>
        \A a \in Agents : app.inst \in AwayFrom(a) =>
            \E s \in Slots : /\ slots[s].st # None
                             /\ slots[s].st.real = a
                             /\ \A o \in Slots \ {s} :
                                  slots[o].st = None \/ slots[o].st.real # a

\* The pane a respawn-pane or kill-pane of the transport is about to replace
\* is never an agent's.
NoDestructiveTarget ==
    /\ app.at \in {"place", "blank", "nested", "killpane"} =>
          slots[app.slot].pane \notin Agents
    /\ app.at = "quit" => \A s \in ToClose : slots[s].pane \notin Agents

\* No step of Railmux ends an agent, except the kill of the session it is at
\* home in that the user asked for.
NeverDestroyed ==
    [][\A a \in Agents :
         Alive(tm, a) /\ ~Alive(tm', a) =>
            \/ AgentExits(a)
            \/ tm.at[a] = HomeWin(tm, a)
               /\ (UserKillsSession(a) \/ KillSession(a) \/ Bye)]_vars

\* The agent is in a window whose process is gone, and its marked placeholder
\* still holds its home.
Stranded(a) ==
    \E i \in AwayFrom(a), s \in Slots :
        LET m == tm.opt[Disp(i)][s]
        IN  ~tm.own[i] /\ m # None /\ m.real = a /\ tm.at[m.ph] = m.home

\* However often processes were killed and commands failed, a stranded agent
\* is brought home.
StrandedReturns == \A a \in Agents : Stranded(a) ~> ~Stranded(a)

=============================================================================
