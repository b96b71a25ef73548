----------------------------- MODULE TmuxServer -----------------------------
(***************************************************************************)
(* The part of a tmux server that Railmux's display transport depends on, *)
(* as one record and pure operators on it, one operator per primitive of   *)
(* src/railmux/tmux_ctl.py.  tmux itself is external code: what each        *)
(* command does is taken from how the callers use it.                      *)
(*                                                                         *)
(* A server value t has the fields                                         *)
(*   at     pane -> the window it is in, Gone once it died, Unborn before   *)
(*   gen    agent -> generation of its home window (a session name whose    *)
(*          session was destroyed and recreated has a new window id)        *)
(*   opt    window -> slot -> the swap marker stored in that window's user  *)
(*          option, or None                                                *)
(*   outer  instance -> its outer session "railmux" exists                  *)
(*   keep   instance -> its keeper session, grouped with the outer, exists  *)
(*   own    instance -> the pane its Railmux process runs in is alive       *)
(*   shows  placeholder pane -> the agent its nested client is attached to, *)
(*          or "idle"                                                      *)
(*   ext    agents whose session an independent client is attached to       *)
(*                                                                         *)
(* Simplifications: an agent session has one window with one pane, as       *)
(* Railmux creates it; pane PIDs are not modelled, pane ids are never       *)
(* reused and a respawned agent pane counts as dead; window sizes, options  *)
(* other than the swap markers and the focus are left out.                  *)
(***************************************************************************)
EXTENDS Naturals, FiniteSets

CONSTANTS
    Agents,    \* agent sessions; the same value names the agent's real pane
    Slots,     \* display slots: AgentWorkspace.PRIMARY and SECONDARY
    MaxPads,   \* bound on the placeholder and display panes ever created
    MaxInst,   \* bound on the Railmux instances (outer sessions) started
    None       \* no marker, no pane, no agent

Pads  == 1..MaxPads
Panes == Agents \cup Pads
Insts == 1..MaxInst

Disp(i)    == <<"display", i>>
Gone       == <<"gone", 0>>
Unborn     == <<"unborn", 0>>
HomeWindows == Agents \X {1, 2}
Windows    == {Disp(i) : i \in Insts} \cup HomeWindows

\* The durable record of one swap, written as JSON into two window options.
\* Outer session, owner pane and keeper are determined by inst.
SwapState == [tx : Nat, agent : Agents, real : Panes, home : Windows,
              ph : Panes, inst : Insts, slot : Slots,
              phase : {"prepared", "displayed", "returning"}]

ASSUME BoundsAssumption == MaxPads \in Nat /\ MaxInst \in Nat \ {0}

ASSUME PanesAssumption ==
    /\ Agents \cap Pads = {}
    /\ None \notin Panes /\ None \notin Agents /\ None \notin SwapState
    /\ "display" \notin Agents

ServerType ==
    [at : [Panes -> Windows \cup {Gone, Unborn}], gen : [Agents -> {1, 2}],
     opt : [Windows -> [Slots -> SwapState \cup {None}]],
     outer : [Insts -> BOOLEAN], keep : [Insts -> BOOLEAN],
     own : [Insts -> BOOLEAN], shows : [Pads -> Agents \cup {"idle"}],
     ext : SUBSET Agents]

-----------------------------------------------------------------------------
(* Queries *)

Alive(t, p)   == t.at[p] \in Windows
PanesIn(t, w) == {p \in Panes : t.at[p] = w}
HomeWin(t, a) == <<a, t.gen[a]>>

SessionUp(t, a) == PanesIn(t, HomeWin(t, a)) # {}

WindowUp(t, w) ==
    \/ PanesIn(t, w) # {}
    \/ \E i \in Insts : w = Disp(i) /\ t.own[i]

\* topology.single_live_pane of an agent session
SingleLivePane(t, a) ==
    IF \E p \in Panes : PanesIn(t, HomeWin(t, a)) = {p}
    THEN CHOOSE p \in Panes : PanesIn(t, HomeWin(t, a)) = {p}
    ELSE None

\* topology.attached_clients # 0: an independent client or a nested display
Attached(t, a) ==
    \/ a \in t.ext
    \/ \E p \in Pads : t.shows[p] = a /\ Alive(t, p)

HasFreshPad(t) == \E p \in Pads : t.at[p] = Unborn
FreshPad(t) == CHOOSE p \in Pads : t.at[p] = Unborn

-----------------------------------------------------------------------------
(* Commands *)

\* tmux's own cleanup: a window without a session is destroyed with its
\* panes, a window without panes is closed, and a session whose only window
\* closed ends.  Window options live and die with their window.
Settle(t) ==
    LET dead == {i \in Insts : \/ ~t.outer[i] /\ ~t.keep[i]
                               \/ ~t.own[i] /\ PanesIn(t, Disp(i)) = {}}
        t1 == [t EXCEPT
                 !.at = [p \in Panes |->
                           IF \E i \in dead : t.at[p] = Disp(i)
                           THEN Gone ELSE t.at[p]],
                 !.outer = [i \in Insts |-> t.outer[i] /\ i \notin dead],
                 !.keep  = [i \in Insts |-> t.keep[i] /\ i \notin dead],
                 !.own   = [i \in Insts |-> t.own[i] /\ i \notin dead]]
    IN  [t1 EXCEPT
           !.opt = [w \in Windows |-> IF WindowUp(t1, w) THEN t.opt[w]
                                      ELSE [s \in Slots |-> None]],
           !.shows = [p \in Pads |-> IF Alive(t1, p) THEN t.shows[p]
                                     ELSE "idle"],
           !.ext = {a \in t.ext : SessionUp(t1, a)}]

KillPane(t, p) == Settle([t EXCEPT !.at[p] = Gone])

KillAgentSession(t, a) ==
    Settle([t EXCEPT !.at = [p \in Panes |-> IF t.at[p] = HomeWin(t, a)
                                             THEN Gone ELSE t.at[p]]])

KillOuter(t, i)   == Settle([t EXCEPT !.outer[i] = FALSE])
KillKeeper(t, i)  == Settle([t EXCEPT !.keep[i] = FALSE])
OwnerDies(t, i)   == Settle([t EXCEPT !.own[i] = FALSE])
GroupKeeper(t, i) == [t EXCEPT !.keep[i] = TRUE]

CanSwap(t, p, q) == Alive(t, p) /\ Alive(t, q)
SwapPanes(t, p, q) == [t EXCEPT !.at[p] = t.at[q], !.at[q] = t.at[p]]

\* respawn-pane -k: whatever ran in the pane is killed
RespawnPane(t, p, what) ==
    IF p \in Agents THEN KillPane(t, p) ELSE [t EXCEPT !.shows[p] = what]

SplitWindow(t, i) == [t EXCEPT !.at[FreshPad(t)] = Disp(i)]

SetOption(t, w, s, v) ==
    IF WindowUp(t, w) THEN [t EXCEPT !.opt[w][s] = v] ELSE t

\* set-window-option -u, only when the marker there is this transaction's
ClearMatching(t, w, s, tx) ==
    IF t.opt[w][s] # None /\ t.opt[w][s].tx = tx
    THEN [t EXCEPT !.opt[w][s] = None] ELSE t

NewDetachedSession(t, a) ==
    [t EXCEPT !.gen[a] = 2, !.at[FreshPad(t)] = <<a, 2>>]

StartOuter(t, i) == [t EXCEPT !.outer[i] = TRUE, !.own[i] = TRUE]

FreshServer ==
    [at |-> [p \in Panes |-> IF p \in Agents THEN <<p, 1>> ELSE Unborn],
     gen |-> [a \in Agents |-> 1],
     opt |-> [w \in Windows |-> [s \in Slots |-> None]],
     outer |-> [i \in Insts |-> i = 1], keep |-> [i \in Insts |-> FALSE],
     own |-> [i \in Insts |-> i = 1], shows |-> [p \in Pads |-> "idle"],
     ext |-> {}]

=============================================================================
