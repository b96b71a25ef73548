----------------------- MODULE DisplayTransport_proofs -----------------------
(***************************************************************************)
(* TLAPS proofs about DisplayTransport, for any number of agents, slots,   *)
(* launchers, instances and failures: first what holds with overlapping    *)
(* recovery and failed queries too (types, no destructive target), then,   *)
(* without these, that an agent away from home is marked, kept, owned and  *)
(* never destroyed.                                                        *)
(***************************************************************************)
EXTENDS DisplayTransport, TLAPS

(* Every tmux command maps a well-typed server to a well-typed server. *)

LEMMA HomeWinType ==
    ASSUME NEW t \in ServerType, NEW a \in Agents
    PROVE  HomeWin(t, a) \in Windows
BY DEF ServerType, HomeWin, Windows, HomeWindows

LEMMA SettleType ==
    ASSUME NEW t \in ServerType
    PROVE  Settle(t) \in ServerType
BY DEF ServerType, Settle

LEMMA KillPaneType ==
    ASSUME NEW t \in ServerType, NEW p \in Panes
    PROVE  KillPane(t, p) \in ServerType
<1>1. [t EXCEPT !.at[p] = Gone] \in ServerType
  BY DEF ServerType
<1>2. QED BY <1>1, SettleType DEF KillPane

LEMMA KillAgentSessionType ==
    ASSUME NEW t \in ServerType, NEW a
    PROVE  KillAgentSession(t, a) \in ServerType
<1>1. [t EXCEPT !.at = [p \in Panes |-> IF t.at[p] = HomeWin(t, a)
                                        THEN Gone ELSE t.at[p]]] \in ServerType
  BY DEF ServerType
<1>2. QED BY <1>1, SettleType DEF KillAgentSession

LEMMA KillSessionsType ==
    ASSUME NEW t \in ServerType, NEW i \in Insts
    PROVE  /\ KillOuter(t, i) \in ServerType
           /\ KillKeeper(t, i) \in ServerType
           /\ OwnerDies(t, i) \in ServerType
           /\ GroupKeeper(t, i) \in ServerType
           /\ StartOuter(t, i) \in ServerType
<1>1. /\ [t EXCEPT !.outer[i] = FALSE] \in ServerType
      /\ [t EXCEPT !.keep[i] = FALSE] \in ServerType
      /\ [t EXCEPT !.own[i] = FALSE] \in ServerType
      /\ GroupKeeper(t, i) \in ServerType
      /\ StartOuter(t, i) \in ServerType
  BY DEF ServerType, GroupKeeper, StartOuter
<1>2. QED BY <1>1, SettleType DEF KillOuter, KillKeeper, OwnerDies

LEMMA SwapPanesType ==
    ASSUME NEW t \in ServerType, NEW p \in Panes, NEW q \in Panes
    PROVE  SwapPanes(t, p, q) \in ServerType
BY DEF ServerType, SwapPanes

LEMMA FreshPadType ==
    ASSUME NEW t \in ServerType, HasFreshPad(t)
    PROVE  FreshPad(t) \in Pads
BY DEF HasFreshPad, FreshPad

LEMMA SplitWindowType ==
    ASSUME NEW t \in ServerType, HasFreshPad(t), NEW i \in Insts,
           NEW what \in Agents \cup {"idle"}
    PROVE  [SplitWindow(t, i) EXCEPT !.shows[FreshPad(t)] = what] \in ServerType
<1>1. FreshPad(t) \in Pads BY FreshPadType
<1>2. FreshPad(t) \in Panes BY <1>1 DEF Panes
<1>3. SplitWindow(t, i) \in ServerType
  BY <1>2 DEF ServerType, SplitWindow, Windows
<1>4. QED BY <1>1, <1>3 DEF ServerType

LEMMA RespawnPaneType ==
    ASSUME NEW t \in ServerType, NEW p \in Panes,
           NEW what \in Agents \cup {"idle"}
    PROVE  RespawnPane(t, p, what) \in ServerType
<1>1. CASE p \in Agents BY <1>1, KillPaneType DEF RespawnPane
<1>2. CASE p \notin Agents
  <2>1. p \in Pads BY <1>2 DEF Panes
  <2>2. QED BY <1>2, <2>1 DEF RespawnPane, ServerType
<1>3. QED BY <1>1, <1>2

LEMMA OptionTypes ==
    ASSUME NEW t \in ServerType, NEW w \in Windows, NEW s \in Slots
    PROVE  /\ \A m \in SwapState : SetOption(t, w, s, m) \in ServerType
           /\ \A n : ClearMatching(t, w, s, n) \in ServerType
BY DEF ServerType, SetOption, ClearMatching

LEMMA NewDetachedSessionType ==
    ASSUME NEW t \in ServerType, NEW a \in Agents, HasFreshPad(t)
    PROVE  NewDetachedSession(t, a) \in ServerType
<1>1. FreshPad(t) \in Panes BY FreshPadType DEF Panes
<1>2. <<a, 2>> \in Windows BY DEF Windows, HomeWindows
<1>3. QED BY <1>1, <1>2 DEF NewDetachedSession, ServerType

LEMMA SingleLivePaneType ==
    ASSUME NEW t, NEW a
    PROVE  SingleLivePane(t, a) \in Panes \cup {None}
BY DEF SingleLivePane

LEMMA FreshServerType == FreshServer \in ServerType
BY DEF FreshServer, ServerType, Windows, HomeWindows, Panes

-----------------------------------------------------------------------------
(* The inductive invariant: what the locals of an operation hold at each of *)
(* its labels, and which panes the slots own.                              *)

\* The labels at which the operation holds the record of a transaction, ...
StLabels == {"check", "mark1", "mark2", "swaphome", "verifyhome", "clear",
             "keeper", "prep1", "prep2", "swapout", "verify", "back",
             "verifyback", "commit1", "commit2"}
\* ... at which it has taken the slot out of any transaction, ...
FreeLabels == {"home", "gate", "place", "inspect", "keeper", "prep1", "prep2",
               "swapout", "verify", "back", "verifyback", "commit1", "commit2",
               "nested", "blank", "killpane"}
\* ... and at which it displays an agent.
AttachLabels == {"gate", "place", "inspect", "keeper", "prep1", "prep2",
                 "swapout", "verify", "back", "verifyback", "commit1",
                 "commit2", "nested"}
RecStLabels == {"swap", "verify", "observe", "mark1", "mark2", "clear"}

\* A slot without a transaction never holds an agent's pane, and a slot with
\* one has a placeholder that is not an agent's.
SlotsInv ==
    \A s \in Slots : /\ slots[s].st = None => slots[s].pane \notin Agents
                     /\ slots[s].st # None => slots[s].st.ph \in Pads

AppInv ==
    /\ app.at \in StLabels \cup FreeLabels => app.slot \in Slots
    /\ app.at \in StLabels => app.st \in SwapState /\ app.st.ph \in Pads
    /\ app.at \in FreeLabels => slots[app.slot].st = None
    /\ app.at = "inspect" => slots[app.slot].pane \in Pads
    /\ app.at \in AttachLabels => app.for \in {"attach", "fallback"}
    /\ app.for \in {"attach", "fallback"} => app.agent \in Agents

RecInv == \A r \in Recoverers : rec[r].at \in RecStLabels => rec[r].st \in SwapState

IInv == TypeOK /\ SlotsInv /\ AppInv /\ RecInv

-----------------------------------------------------------------------------
(* What the shared parts of the actions do to the server *)

LEMMA WindowsOfMarker ==
    ASSUME NEW m \in SwapState
    PROVE  /\ m.home \in Windows /\ Disp(m.inst) \in Windows
           /\ m.slot \in Slots /\ BothWindows(m) \subseteq Windows
BY DEF SwapState, Windows, BothWindows

LEMMA FaultType ==
    ASSUME TypeOK, Fault \/ NoFault
    PROVE  faults' \in Nat
BY DEF TypeOK, Fault, NoFault

LEMMA VerdictType ==
    ASSUME TypeOK, NEW truth, NEW v, Verdict(truth, v)
    PROVE  faults' \in Nat
BY FaultType DEF Verdict

LEMMA WriteHomeType ==
    ASSUME TypeOK, NEW m \in SwapState, NEW ACTION ok, NEW ACTION failed,
           WriteHome(m, ok, failed)
    PROVE  tm' \in ServerType /\ faults' \in Nat /\ (ok \/ failed)
<1>1. tm \in ServerType BY DEF TypeOK
<1>2. SetOption(tm, m.home, m.slot, m) \in ServerType
  BY <1>1, WindowsOfMarker, OptionTypes
<1>3. QED BY <1>1, <1>2, FaultType DEF WriteHome, Fails

LEMMA WriteDisplayType ==
    ASSUME TypeOK, NEW m \in SwapState, NEW ACTION ok, NEW ACTION failed,
           WriteDisplay(m, ok, failed)
    PROVE  tm' \in ServerType /\ faults' \in Nat /\ (ok \/ failed)
<1>1. tm \in ServerType BY DEF TypeOK
<1>2. /\ SetOption(tm, Disp(m.inst), m.slot, m) \in ServerType
      /\ ClearMatching(tm, m.home, m.slot, m.tx) \in ServerType
  BY <1>1, WindowsOfMarker, OptionTypes
<1>3. QED BY <1>1, <1>2, FaultType DEF WriteDisplay, Fails

LEMMA SwapType ==
    ASSUME TypeOK, NEW m \in SwapState, NEW ACTION ok, NEW ACTION failed,
           Swap(m, ok, failed)
    PROVE  tm' \in ServerType /\ faults' \in Nat /\ (ok \/ failed)
<1>1. tm \in ServerType BY DEF TypeOK
<1>2. SwapPanes(tm, m.real, m.ph) \in ServerType
  BY <1>1, SwapPanesType DEF SwapState
<1>3. QED BY <1>1, <1>2, FaultType DEF Swap, Fails

LEMMA ClearType ==
    ASSUME TypeOK, NEW m \in SwapState, NEW w \in Windows, Clear(m, w)
    PROVE  tm' \in ServerType /\ faults' \in Nat
<1>1. tm \in ServerType BY DEF TypeOK
<1>2. ClearMatching(tm, w, m.slot, m.tx) \in ServerType
  BY <1>1, WindowsOfMarker, OptionTypes
<1>3. QED BY <1>1, <1>2, FaultType DEF Clear

LEMMA DropKeeperType ==
    ASSUME TypeOK, DropKeeperIfIdle(slots)
    PROVE  tm' \in ServerType /\ faults' \in Nat /\ kp' \in BOOLEAN
<1>1. tm \in ServerType /\ app.inst \in Insts /\ kp \in BOOLEAN /\ faults \in Nat
  BY DEF TypeOK, AppType
<1>2. KillKeeper(tm, app.inst) \in ServerType BY <1>1, KillSessionsType
<1>3. QED BY <1>1, <1>2, FaultType DEF DropKeeperIfIdle

\* What Show respawns or splits off is never an agent's pane.
LEMMA ShowType ==
    ASSUME IInv, app.slot \in Slots, slots[app.slot].st = None,
           NEW what \in Agents \cup {"idle"}, Show(app.slot, what)
    PROVE  tm' \in ServerType /\ PaneFor(app.slot) \in Pads
<1>1. tm \in ServerType /\ app.inst \in Insts BY DEF IInv, TypeOK, AppType
<1>2. CASE PaneReady(app.slot)
  <2>1. slots[app.slot].pane \in Panes
    BY <1>2 DEF PaneReady, IInv, TypeOK, SlotType
  <2>2. slots[app.slot].pane \in Pads
    BY <2>1 DEF IInv, SlotsInv, Panes
  <2>3. RespawnPane(tm, slots[app.slot].pane, what) \in ServerType
    BY <1>1, <2>1, RespawnPaneType
  <2>4. QED BY <1>2, <2>2, <2>3 DEF Show, PaneFor
<1>3. CASE ~PaneReady(app.slot)
  <2>1. HasFreshPad(tm) BY <1>3 DEF Show
  <2>2. tm' = [SplitWindow(tm, app.inst) EXCEPT !.shows[FreshPad(tm)] = what]
    BY <1>3 DEF Show
  <2>3. tm' \in ServerType BY <1>1, <2>1, <2>2, SplitWindowType
  <2>4. QED BY <1>1, <1>3, <2>1, <2>3, FreshPadType DEF PaneFor
<1>4. QED BY <1>2, <1>3

-----------------------------------------------------------------------------
(* The ways an operation goes on or ends *)

LEMMA GotoType ==
    ASSUME app \in AppType, NEW l \in AppLabels, Goto(l)
    PROVE  app' \in AppType
BY DEF Goto, AppType

LEMMA IdleType ==
    ASSUME NEW i \in Insts
    PROVE  Idle(i) \in AppType
BY DEF Idle, AppType, AppLabels, Purposes

\* Between operations nothing is asked of the locals.
LEMMA IdleInv ==
    ASSUME NEW i \in Insts, app' = Idle(i)
    PROVE  app' \in AppType /\ AppInv'
<1>1. app' \in AppType BY IdleType
<1>2. AppInv' BY DEF AppInv, Idle, StLabels, FreeLabels, AttachLabels
<1>3. QED BY <1>1, <1>2

LEMMA FailInv ==
    ASSUME app \in AppType, AppInv, Fail
    PROVE  app' \in AppType /\ AppInv'
<1>1. CASE app.for \in {"soft", "hard"}
  <2>1. Goto("quit") BY <1>1 DEF Fail
  <2>2. app' \in AppType BY <2>1, GotoType DEF AppLabels
  <2>3. app'.at = "quit" /\ app'.for = app.for BY <2>1 DEF Goto, AppType
  <2>4. AppInv' BY <1>1, <2>3 DEF AppInv, StLabels, FreeLabels, AttachLabels
  <2>5. QED BY <2>2, <2>4
<1>2. CASE app.for \notin {"soft", "hard"}
  BY <1>2, IdleInv DEF Fail, AppType
<1>3. QED BY <1>1, <1>2

\* Steps within an operation keep its slot, record, purpose and agent.
LEMMA GotoInv ==
    ASSUME app \in AppType, AppInv, NEW l \in AppLabels, Goto(l),
           UNCHANGED slots,
           app.at \in StLabels \cup FreeLabels \/ l \notin StLabels \cup FreeLabels,
           app.at \in StLabels \/ l \notin StLabels,
           app.at \in FreeLabels \/ l \notin FreeLabels,
           app.at \in AttachLabels \/ l \notin AttachLabels,
           l # "inspect"
    PROVE  app' \in AppType /\ AppInv'
<1>1. app' \in AppType BY GotoType
<1>2. /\ app'.at = l /\ app'.slot = app.slot /\ app'.st = app.st
      /\ app'.for = app.for /\ app'.agent = app.agent
  BY DEF Goto, AppType
<1>3. AppInv' BY <1>2 DEF AppInv
<1>4. QED BY <1>1, <1>3

LEMMA ClearBothInv ==
    ASSUME app \in AppType, AppInv, ClearBoth, UNCHANGED slots,
           app.at \in StLabels
    PROVE  app' \in AppType /\ AppInv'
<1>1. BothWindows(app.st) \subseteq Windows
  BY WindowsOfMarker DEF AppInv
<1>2. app' \in AppType BY <1>1 DEF ClearBoth, AppType, AppLabels
<1>3. /\ app'.at = "clear" /\ app'.slot = app.slot /\ app'.st = app.st
      /\ app'.for = app.for /\ app'.agent = app.agent
  BY DEF ClearBoth, AppType
<1>4. AppInv' BY <1>3 DEF AppInv, StLabels, FreeLabels, AttachLabels
<1>5. QED BY <1>2, <1>4

\* What a step of the Railmux process has to show, with its slots kept ...
LEMMA AppFrame ==
    ASSUME IInv, tm' \in ServerType, faults' \in Nat, tx' \in Nat,
           kp' \in BOOLEAN, app' \in AppType, AppInv',
           UNCHANGED <<slots, rec, acts>>
    PROVE  IInv'
<1>1. TypeOK' BY DEF IInv, TypeOK
<1>2. SlotsInv' /\ RecInv' BY DEF IInv, SlotsInv, RecInv
<1>3. QED BY <1>1, <1>2 DEF IInv

\* ... and with one slot changed.
LEMMA SlotFrame ==
    ASSUME IInv, tm' \in ServerType, faults' \in Nat, UNCHANGED <<tx, kp>>,
           app' \in AppType, AppInv', UNCHANGED <<rec, acts>>,
           NEW s \in Slots, NEW sl \in SlotType,
           slots' = [slots EXCEPT ![s] = sl],
           sl.st = None => sl.pane \notin Agents,
           sl.st # None => sl.st.ph \in Pads
    PROVE  IInv'
<1>1. TypeOK' BY DEF IInv, TypeOK
<1>2. SlotsInv' BY DEF IInv, TypeOK, SlotsInv
<1>3. RecInv' BY DEF IInv, RecInv
<1>4. QED BY <1>1, <1>2, <1>3 DEF IInv

LEMMA EmptySlotType ==
    /\ EmptySlot \in SlotType /\ EmptySlot.pane = None /\ EmptySlot.st = None
    /\ \A p \in Panes \cup {None} :
         LET e == [EmptySlot EXCEPT !.pane = p]
         IN  e \in SlotType /\ e.pane = p /\ e.st = None
BY DEF EmptySlot, SlotType

-----------------------------------------------------------------------------
(* Every step of return_home preserves the invariant *)

LEMMA CheckHomeInv == IInv /\ CheckHome => IInv'
<1> SUFFICES ASSUME IInv, CheckHome PROVE IInv' OBVIOUS
<1>1. faults' \in Nat BY VerdictType DEF CheckHome, IInv
<1>2. app \in AppType /\ AppInv /\ app.at = "check" /\ UNCHANGED slots
  BY DEF IInv, TypeOK, CheckHome, At
<1>3. ClearBoth \/ Goto("mark1") \/ Fail BY DEF CheckHome
<1>4. app' \in AppType /\ AppInv'
  BY <1>2, <1>3, ClearBothInv, GotoInv, FailInv
  DEF StLabels, FreeLabels, AttachLabels, AppLabels
<1>5. QED BY <1>1, <1>2, <1>3, <1>4, AppFrame DEF CheckHome, IInv, TypeOK

LEMMA MarkReturningHomeInv == IInv /\ MarkReturningHome => IInv'
<1> SUFFICES ASSUME IInv, MarkReturningHome PROVE IInv' OBVIOUS
<1>1. /\ app \in AppType /\ AppInv /\ app.at = "mark1" /\ UNCHANGED slots
      /\ app.st \in SwapState
  BY DEF IInv, TypeOK, AppInv, MarkReturningHome, At, StLabels
<1>2. Returning \in SwapState BY <1>1 DEF Returning, SwapState
<1>3. /\ tm' \in ServerType /\ faults' \in Nat
      /\ Goto("mark2") \/ Goto("swaphome")
  BY <1>2, WriteHomeType DEF MarkReturningHome, IInv
<1>4. app' \in AppType /\ AppInv'
  BY <1>1, <1>3, GotoInv DEF StLabels, FreeLabels, AttachLabels, AppLabels
<1>5. QED BY <1>1, <1>2, <1>3, <1>4, AppFrame DEF MarkReturningHome, IInv, TypeOK

LEMMA MarkReturningDisplayInv == IInv /\ MarkReturningDisplay => IInv'
<1> SUFFICES ASSUME IInv, MarkReturningDisplay PROVE IInv' OBVIOUS
<1>1. /\ app \in AppType /\ AppInv /\ app.at = "mark2" /\ UNCHANGED slots
      /\ app.st \in SwapState
  BY DEF IInv, TypeOK, AppInv, MarkReturningDisplay, At, StLabels
<1>2. Returning \in SwapState BY <1>1 DEF Returning, SwapState
<1>3. tm' \in ServerType /\ faults' \in Nat /\ Goto("swaphome")
  BY <1>2, WriteDisplayType DEF MarkReturningDisplay, IInv
<1>4. app' \in AppType /\ AppInv'
  BY <1>1, <1>3, GotoInv DEF StLabels, FreeLabels, AttachLabels, AppLabels
<1>5. QED BY <1>1, <1>2, <1>3, <1>4, AppFrame DEF MarkReturningDisplay, IInv, TypeOK

LEMMA SwapHomeInv == IInv /\ SwapHome => IInv'
<1> SUFFICES ASSUME IInv, SwapHome PROVE IInv' OBVIOUS
<1>1. /\ app \in AppType /\ AppInv /\ app.at = "swaphome" /\ UNCHANGED slots
      /\ app.st \in SwapState
  BY DEF IInv, TypeOK, AppInv, SwapHome, At, StLabels
<1>2. tm' \in ServerType /\ faults' \in Nat /\ (Goto("verifyhome") \/ Fail)
  BY <1>1, SwapType DEF SwapHome, IInv
<1>3. app' \in AppType /\ AppInv'
  BY <1>1, <1>2, GotoInv, FailInv
  DEF StLabels, FreeLabels, AttachLabels, AppLabels
<1>4. QED BY <1>1, <1>2, <1>3, AppFrame DEF SwapHome, IInv, TypeOK

LEMMA VerifyHomeInv == IInv /\ VerifyHome => IInv'
<1> SUFFICES ASSUME IInv, VerifyHome PROVE IInv' OBVIOUS
<1>1. faults' \in Nat BY VerdictType DEF VerifyHome, IInv
<1>2. app \in AppType /\ AppInv /\ app.at = "verifyhome" /\ UNCHANGED slots
  BY DEF IInv, TypeOK, VerifyHome, At
<1>3. ClearBoth \/ Fail BY DEF VerifyHome
<1>4. app' \in AppType /\ AppInv'
  BY <1>2, <1>3, ClearBothInv, FailInv DEF StLabels
<1>5. QED BY <1>1, <1>2, <1>3, <1>4, AppFrame DEF VerifyHome, IInv, TypeOK

LEMMA EmptiedType ==
    ASSUME NEW m \in SwapState, m.ph \in Pads
    PROVE  /\ Emptied(m) \in SlotType
           /\ Emptied(m).st = None /\ Emptied(m).pane \notin Agents
<1>1. m.ph \in Panes \cup {None} /\ m.ph \notin Agents /\ None \notin Agents
  BY PanesAssumption DEF Panes
<1>2. QED BY <1>1, EmptySlotType DEF Emptied

LEMMA ClearMarkerInv == IInv /\ ClearMarker => IInv'
<1> SUFFICES ASSUME IInv, ClearMarker PROVE IInv' OBVIOUS
<1>1. /\ app \in AppType /\ app.at = "clear" /\ app.slot \in Slots
      /\ app.st \in SwapState /\ app.st.ph \in Pads
      /\ slots \in [Slots -> SlotType]
  BY DEF IInv, TypeOK, AppInv, ClearMarker, At, StLabels
<1>2. PICK w \in app.todo :
        /\ Clear(app.st, w)
        /\ app' = [app EXCEPT !.todo = @ \ {w},
                     !.at = IF app.todo = {w} THEN "home" ELSE "clear"]
        /\ slots' = IF app.todo # {w} THEN slots
                    ELSE [slots EXCEPT ![app.slot] = Emptied(app.st)]
  BY DEF ClearMarker
<1>3. w \in Windows BY <1>1 DEF AppType
<1>4. tm' \in ServerType /\ faults' \in Nat
  BY <1>1, <1>2, <1>3, ClearType DEF IInv
<1>5. app' \in AppType BY <1>1, <1>2 DEF AppType, AppLabels
<1>6. /\ app'.slot = app.slot /\ app'.st = app.st
      /\ app'.for = app.for /\ app'.agent = app.agent
      /\ app'.at = IF app.todo = {w} THEN "home" ELSE "clear"
  BY <1>1, <1>2 DEF AppType
<1>7. CASE app.todo = {w}
  <2>1. slots'[app.slot] = Emptied(app.st) BY <1>1, <1>2, <1>7
  <2>2. AppInv'
    BY <1>1, <1>6, <1>7, <2>1, EmptiedType
    DEF IInv, AppInv, StLabels, FreeLabels, AttachLabels
  <2>3. QED
    BY <1>1, <1>2, <1>4, <1>5, <1>7, <2>2, EmptiedType, SlotFrame
    DEF ClearMarker
<1>8. CASE app.todo # {w}
  <2>1. AppInv'
    BY <1>1, <1>2, <1>6, <1>8
    DEF IInv, AppInv, StLabels, FreeLabels, AttachLabels
  <2>2. QED BY <1>2, <1>4, <1>5, <1>8, <2>1, AppFrame DEF ClearMarker, IInv, TypeOK
<1>9. QED BY <1>7, <1>8

LEMMA AfterHomeInv == IInv /\ AfterHome => IInv'
<1> SUFFICES ASSUME IInv, AfterHome PROVE IInv' OBVIOUS
<1>1. /\ app \in AppType /\ AppInv /\ app.at = "home" /\ UNCHANGED slots
  BY DEF IInv, TypeOK, AfterHome, At
<1>2. tm' \in ServerType /\ faults' \in Nat /\ kp' \in BOOLEAN
  BY DropKeeperType DEF IInv, TypeOK, AfterHome
<1> SUFFICES app' \in AppType /\ AppInv'
  BY <1>2, AppFrame DEF AfterHome, IInv, TypeOK
<1>3. \/ app.for \in {"attach", "fallback"} /\ (Goto("gate") \/ Goto("nested"))
      \/ Goto("blank") \/ Goto("killpane") \/ Goto("quit")
      \/ app' = Idle(app.inst)
  BY DEF AfterHome
<1>4. CASE Goto("blank") \/ Goto("killpane") \/ Goto("quit")
  BY <1>1, <1>4, GotoInv DEF StLabels, FreeLabels, AttachLabels, AppLabels
<1>5. CASE app' = Idle(app.inst)
  BY <1>1, <1>5, IdleInv DEF AppType
<1>6. CASE app.for \in {"attach", "fallback"} /\ (Goto("gate") \/ Goto("nested"))
  <2>1. app' \in AppType BY <1>1, <1>6, GotoType DEF AppLabels
  <2>2. /\ app'.at \in {"gate", "nested"} /\ app'.slot = app.slot
        /\ app'.for = app.for /\ app'.agent = app.agent
    BY <1>1, <1>6 DEF Goto, AppType
  <2>3. AppInv'
    BY <1>1, <1>6, <2>2 DEF AppInv, StLabels, FreeLabels, AttachLabels
  <2>4. QED BY <2>1, <2>3
<1>7. QED BY <1>3, <1>4, <1>5, <1>6

-----------------------------------------------------------------------------
(* Every step of attach preserves the invariant *)

LEMMA FallbackInv ==
    ASSUME app \in AppType, AppInv, Fallback, UNCHANGED slots,
           app.at \in AttachLabels \cap FreeLabels
    PROVE  app' \in AppType /\ AppInv'
<1>1. app' \in AppType BY DEF Fallback, AppType, AppLabels, Purposes
<1>2. /\ app'.at = "home" /\ app'.for = "fallback" /\ app'.slot = app.slot
      /\ app'.agent = app.agent
  BY DEF Fallback, AppType
<1>3. AppInv' BY <1>2 DEF AppInv, StLabels, AttachLabels
<1>4. QED BY <1>1, <1>3

LEMMA RollBackInv ==
    ASSUME app \in AppType, AppInv, RollBack, UNCHANGED slots,
           app.at \in AttachLabels \cap FreeLabels \cap StLabels
    PROVE  app' \in AppType /\ AppInv'
<1>1. BothWindows(app.st) \subseteq Windows BY WindowsOfMarker DEF AppInv
<1>2. app' \in AppType BY <1>1 DEF RollBack, AppType, AppLabels, Purposes
<1>3. /\ app'.at = "clear" /\ app'.for = "fallback" /\ app'.slot = app.slot
      /\ app'.st = app.st /\ app'.agent = app.agent
  BY DEF RollBack, AppType
<1>4. AppInv' BY <1>3 DEF AppInv, FreeLabels, AttachLabels
<1>5. QED BY <1>2, <1>4

\* The slot that takes a transaction keeps its record and its placeholder.
LEMMA TakeInv ==
    ASSUME IInv, app.at \in StLabels, NEW phase \in {"prepared", "displayed"},
           Take(phase), tm' \in ServerType, faults' \in Nat,
           UNCHANGED <<kp, rec, tx, acts>>
    PROVE  IInv'
<1> DEFINE st == [app.st EXCEPT !.phase = phase]
           sl == [pane |-> app.st.real, agent |-> app.agent, st |-> st]
<1>1. /\ app \in AppType /\ app.slot \in Slots
      /\ app.st \in SwapState /\ app.st.ph \in Pads
  BY DEF IInv, TypeOK, AppInv
<1>2. st \in SwapState /\ st.ph = app.st.ph BY <1>1 DEF SwapState
<1>3. app.st.real \in Panes BY <1>1 DEF SwapState
<1>4. sl \in SlotType BY <1>1, <1>2, <1>3 DEF SlotType, AppType
<1>5. sl.st # None BY <1>2, PanesAssumption
<1>6. app' \in AppType /\ AppInv' BY <1>1, IdleInv DEF Take, AppType
<1>7. slots' = [slots EXCEPT ![app.slot] = sl] BY DEF Take
<1>8. sl.st = st OBVIOUS
<1> HIDE DEF sl, st
<1>9. QED BY <1>1, <1>2, <1>4, <1>5, <1>6, <1>7, <1>8, SlotFrame

LEMMA AttachInv ==
    ASSUME IInv, NEW s \in Slots, NEW a \in Agents, Attach(s, a)
    PROVE  IInv'
<1>1. app \in AppType /\ slots[s] \in SlotType BY DEF IInv, TypeOK
<1>2. app' \in AppType
  <2>1. slots[s].st \in SwapState \cup {None} BY <1>1 DEF SlotType
  <2>2. PICK at \in AppLabels : app' = [app EXCEPT !.at = at, !.slot = s, !.agent = a,
                                         !.st = slots[s].st, !.for = "attach"]
    BY DEF Attach, AppLabels
  <2>3. "attach" \in Purposes BY DEF Purposes
  <2>4. QED BY <1>1, <2>1, <2>2, <2>3 DEF AppType
<1>3. /\ app'.at = IF slots[s].st = None THEN "gate" ELSE "check"
      /\ app'.slot = s /\ app'.st = slots[s].st
      /\ app'.for = "attach" /\ app'.agent = a /\ UNCHANGED slots
  BY <1>1 DEF Attach, AppType
<1>4. AppInv'
  BY <1>1, <1>3
  DEF IInv, SlotsInv, SlotType, AppInv, StLabels, FreeLabels, AttachLabels
<1>5. QED BY <1>2, <1>4, AppFrame DEF Attach, IInv, TypeOK

LEMMA GateInv == IInv /\ Gate => IInv'
<1> SUFFICES ASSUME IInv, Gate PROVE IInv' OBVIOUS
<1>1. faults' \in Nat BY VerdictType DEF Gate, IInv
<1>2. app \in AppType /\ AppInv /\ app.at = "gate" /\ UNCHANGED slots
  BY DEF IInv, TypeOK, Gate, At
<1>3. Goto("place") \/ Fail BY DEF Gate
<1>4. app' \in AppType /\ AppInv'
  BY <1>2, <1>3, GotoInv, FailInv
  DEF StLabels, FreeLabels, AttachLabels, AppLabels
<1>5. QED BY <1>1, <1>4, AppFrame DEF Gate, IInv, TypeOK

LEMMA PlaceInv == IInv /\ Place => IInv'
<1> SUFFICES ASSUME IInv, Place PROVE IInv' OBVIOUS
<1>1. /\ app \in AppType /\ AppInv /\ app.at = "place" /\ app.slot \in Slots
      /\ slots \in [Slots -> SlotType] /\ slots[app.slot].st = None
      /\ UNCHANGED <<kp, rec, tx, acts>>
  BY DEF IInv, TypeOK, AppInv, Place, At, FreeLabels
<1>2. ASSUME Show(app.slot, "idle"), NoFault, Goto("inspect"),
             slots' = [slots EXCEPT ![app.slot] =
                         [EmptySlot EXCEPT !.pane = PaneFor(app.slot)]]
      PROVE  IInv'
  <2> DEFINE sl == [EmptySlot EXCEPT !.pane = PaneFor(app.slot)]
  <2>1. tm' \in ServerType /\ PaneFor(app.slot) \in Pads
    BY <1>1, <1>2, ShowType
  <2>2. sl \in SlotType /\ sl.st = None /\ sl.pane = PaneFor(app.slot)
    BY <2>1, EmptySlotType DEF Panes
  <2>3. app' \in AppType BY <1>1, <1>2, GotoType DEF AppLabels
  <2>4. /\ app'.at = "inspect" /\ app'.slot = app.slot
        /\ app'.for = app.for /\ app'.agent = app.agent
    BY <1>1, <1>2 DEF Goto, AppType
  <2>5. slots' = [slots EXCEPT ![app.slot] = sl] BY <1>2
  <2> HIDE DEF sl
  <2>6. slots'[app.slot] = sl BY <1>1, <2>5
  <2>7. AppInv'
    BY <1>1, <2>1, <2>2, <2>4, <2>6
    DEF AppInv, StLabels, FreeLabels, AttachLabels
  <2>8. faults' \in Nat BY <1>2, FaultType DEF IInv
  <2>9. sl.pane \notin Agents BY <2>1, <2>2, PanesAssumption
  <2>10. QED BY <1>1, <2>1, <2>2, <2>3, <2>5, <2>7, <2>8, <2>9, SlotFrame
<1>3. ASSUME UNCHANGED tm, Fault, Fail,
             slots' = IF PaneReady(app.slot) THEN slots
                      ELSE [slots EXCEPT ![app.slot].pane = None]
      PROVE  IInv'
  <2> DEFINE sl == [slots[app.slot] EXCEPT !.pane = None]
  <2>1. tm' \in ServerType /\ faults' \in Nat
    BY <1>3, FaultType DEF IInv, TypeOK
  <2>2. app' \in AppType /\ AppInv' BY <1>1, <1>3, FailInv
  <2>3. CASE PaneReady(app.slot)
    BY <1>1, <1>3, <2>1, <2>2, <2>3, AppFrame DEF IInv, TypeOK
  <2>4. CASE ~PaneReady(app.slot)
    <3>1. slots' = [slots EXCEPT ![app.slot] = sl] BY <1>3, <2>4
    <3>2. sl \in SlotType /\ sl.pane = None /\ sl.st = None
      BY <1>1 DEF SlotType
    <3> HIDE DEF sl
    <3>3. QED
      BY <1>1, <2>1, <2>2, <3>1, <3>2, SlotFrame, PanesAssumption
  <2>5. QED BY <2>3, <2>4
<1>4. QED BY <1>2, <1>3 DEF Place

LEMMA InspectInv == IInv /\ Inspect => IInv'
<1> SUFFICES ASSUME IInv, Inspect PROVE IInv' OBVIOUS
<1>1. /\ app \in AppType /\ AppInv /\ app.at = "inspect" /\ UNCHANGED slots
      /\ app.slot \in Slots /\ slots[app.slot].st = None
      /\ slots[app.slot].pane \in Pads
      /\ app.for \in {"attach", "fallback"} /\ app.agent \in Agents
      /\ tm \in ServerType /\ tx \in Nat
  BY DEF IInv, TypeOK, AppInv, Inspect, At, FreeLabels, AttachLabels
<1> DEFINE real == SingleLivePane(tm, app.agent)
           st == [tx |-> tx + 1, agent |-> app.agent, real |-> real,
                  home |-> HomeWin(tm, app.agent),
                  ph |-> slots[app.slot].pane, inst |-> app.inst,
                  slot |-> app.slot, phase |-> "prepared"]
           fit == /\ ~Attached(tm, app.agent) /\ real # None
                  /\ \A o \in Slots \ {app.slot} :
                       slots[o].st = None \/ slots[o].st.real # real
<1>2. PICK v \in BOOLEAN :
        /\ Verdict(fit, v)
        /\ app' = IF ~v THEN [app EXCEPT !.at = "home", !.for = "fallback"]
                  ELSE [app EXCEPT !.at = "keeper", !.st = st]
  BY DEF Inspect
<1>3. faults' \in Nat BY <1>2, VerdictType DEF IInv
<1>4. CASE ~v
  <2>1. Fallback BY <1>2, <1>4 DEF Fallback
  <2>2. app' \in AppType /\ AppInv'
    BY <1>1, <2>1, FallbackInv DEF AttachLabels, FreeLabels
  <2>3. QED BY <1>3, <2>2, AppFrame DEF Inspect, IInv, TypeOK
<1>5. CASE v
  <2>1. real \in Panes
    BY <1>2, <1>5, SingleLivePaneType DEF Verdict
  <2>2. st \in SwapState /\ st.ph \in Pads
    <3>1. HomeWin(tm, app.agent) \in Windows BY <1>1, HomeWinType
    <3>2. slots[app.slot].pane \in Panes BY <1>1 DEF Panes
    <3>3. app.inst \in Insts BY <1>1 DEF AppType
    <3> HIDE DEF real
    <3>4. QED BY <1>1, <2>1, <3>1, <3>2, <3>3 DEF SwapState
  <2> HIDE DEF st
  <2>3. app' = [app EXCEPT !.at = "keeper", !.st = st] BY <1>2, <1>5
  <2>4. app' \in AppType BY <1>1, <2>2, <2>3 DEF AppType, AppLabels
  <2>5. /\ app'.at = "keeper" /\ app'.slot = app.slot /\ app'.st = st
        /\ app'.for = app.for /\ app'.agent = app.agent
    BY <1>1, <2>3 DEF AppType
  <2>6. AppInv' BY <1>1, <2>2, <2>5 DEF AppInv
  <2>7. QED BY <1>3, <2>4, <2>6, AppFrame DEF Inspect, IInv, TypeOK
<1>6. QED BY <1>4, <1>5

LEMMA KeeperInv == IInv /\ Keeper => IInv'
<1> SUFFICES ASSUME IInv, Keeper PROVE IInv' OBVIOUS
<1>1. /\ app \in AppType /\ AppInv /\ app.at = "keeper" /\ UNCHANGED slots
      /\ tm \in ServerType /\ tx \in Nat /\ app.inst \in Insts
      /\ kp \in BOOLEAN
  BY DEF IInv, TypeOK, AppInv, AppType, Keeper, At
<1>2. GroupKeeper(tm, app.inst) \in ServerType BY <1>1, KillSessionsType
<1>3. Fault \/ NoFault
  <2>1. \/ NoFault
        \/ Fails(tm.keep[app.inst] \/ (~kp /\ tm.outer[app.inst]))
    BY DEF Keeper
  <2>2. QED BY <2>1 DEF Fails
<1>4. tm' \in ServerType /\ kp' \in BOOLEAN /\ tx' \in Nat
  <2>1. /\ tm' = GroupKeeper(tm, app.inst) \/ tm' = tm
        /\ kp' = TRUE \/ kp' = kp
    BY DEF Keeper
  <2>2. tx' = tx + 1 \/ tx' = tx BY DEF Keeper
  <2>3. tx' \in Nat BY <1>1, <2>2
  <2>4. kp' \in BOOLEAN BY <1>1, <2>1, Zenon
  <2>5. QED BY <1>1, <1>2, <2>1, <2>3, <2>4
<1>5. Goto("prep1") \/ Fallback BY DEF Keeper
<1>6. app' \in AppType /\ AppInv'
  BY <1>1, <1>5, GotoInv, FallbackInv
  DEF StLabels, FreeLabels, AttachLabels, AppLabels
<1>7. faults' \in Nat BY <1>3, FaultType DEF IInv
<1>8. QED BY <1>4, <1>6, <1>7, AppFrame DEF Keeper

LEMMA Prepare1Inv == IInv /\ Prepare1 => IInv'
<1> SUFFICES ASSUME IInv, Prepare1 PROVE IInv' OBVIOUS
<1>1. /\ app \in AppType /\ AppInv /\ app.at = "prep1" /\ UNCHANGED slots
      /\ app.st \in SwapState
  BY DEF IInv, TypeOK, AppInv, Prepare1, At, StLabels
<1>2. /\ tm' \in ServerType /\ faults' \in Nat
      /\ Goto("prep2") \/ Fallback
  BY <1>1, WriteHomeType DEF Prepare1, IInv
<1>3. app' \in AppType /\ AppInv'
  BY <1>1, <1>2, GotoInv, FallbackInv
  DEF StLabels, FreeLabels, AttachLabels, AppLabels
<1>4. QED BY <1>2, <1>3, AppFrame DEF Prepare1, IInv, TypeOK

LEMMA Prepare2Inv == IInv /\ Prepare2 => IInv'
<1> SUFFICES ASSUME IInv, Prepare2 PROVE IInv' OBVIOUS
<1>1. /\ app \in AppType /\ AppInv /\ app.at = "prep2" /\ UNCHANGED slots
      /\ app.st \in SwapState
  BY DEF IInv, TypeOK, AppInv, Prepare2, At, StLabels
<1>2. /\ tm' \in ServerType /\ faults' \in Nat
      /\ Goto("swapout") \/ Fallback
  BY <1>1, WriteDisplayType DEF Prepare2, IInv
<1>3. app' \in AppType /\ AppInv'
  BY <1>1, <1>2, GotoInv, FallbackInv
  DEF StLabels, FreeLabels, AttachLabels, AppLabels
<1>4. QED BY <1>2, <1>3, AppFrame DEF Prepare2, IInv, TypeOK

LEMMA SwapOutInv == IInv /\ SwapOut => IInv'
<1> SUFFICES ASSUME IInv, SwapOut PROVE IInv' OBVIOUS
<1>1. /\ app \in AppType /\ AppInv /\ app.at = "swapout" /\ UNCHANGED slots
      /\ app.st \in SwapState
  BY DEF IInv, TypeOK, AppInv, SwapOut, At, StLabels
<1>2. /\ tm' \in ServerType /\ faults' \in Nat
      /\ Goto("verify") \/ RollBack
  BY <1>1, SwapType DEF SwapOut, IInv
<1>3. app' \in AppType /\ AppInv'
  BY <1>1, <1>2, GotoInv, RollBackInv
  DEF StLabels, FreeLabels, AttachLabels, AppLabels
<1>4. QED BY <1>2, <1>3, AppFrame DEF SwapOut, IInv, TypeOK

LEMMA VerifyInv == IInv /\ Verify => IInv'
<1> SUFFICES ASSUME IInv, Verify PROVE IInv' OBVIOUS
<1>1. faults' \in Nat BY VerdictType DEF Verify, IInv
<1>2. /\ app \in AppType /\ AppInv /\ app.at = "verify" /\ UNCHANGED slots
      /\ app.st \in SwapState /\ app.st.ph \in Pads
  BY DEF IInv, TypeOK, AppInv, Verify, At, StLabels
<1>3. \/ app' = [app EXCEPT !.at = "commit1", !.st.phase = "displayed"]
      \/ RollBack \/ Goto("back")
  BY DEF Verify
<1> SUFFICES app' \in AppType /\ AppInv'
  BY <1>1, AppFrame DEF Verify, IInv, TypeOK
<1>4. CASE app' = [app EXCEPT !.at = "commit1", !.st.phase = "displayed"]
  <2> DEFINE st == [app.st EXCEPT !.phase = "displayed"]
  <2>1. st \in SwapState /\ st.ph = app.st.ph BY <1>2 DEF SwapState
  <2>2. app' = [app EXCEPT !.at = "commit1", !.st = st] BY <1>2, <1>4
  <2> HIDE DEF st
  <2>3. app' \in AppType BY <1>2, <2>1, <2>2 DEF AppType, AppLabels
  <2>4. /\ app'.at = "commit1" /\ app'.slot = app.slot /\ app'.st = st
        /\ app'.for = app.for /\ app'.agent = app.agent
    BY <1>2, <2>2 DEF AppType
  <2>5. AppInv'
    BY <1>2, <2>1, <2>4 DEF AppInv, StLabels, FreeLabels, AttachLabels
  <2>6. QED BY <2>3, <2>5
<1>5. CASE RollBack \/ Goto("back")
  BY <1>2, <1>5, GotoInv, RollBackInv
  DEF StLabels, FreeLabels, AttachLabels, AppLabels
<1>6. QED BY <1>3, <1>4, <1>5

LEMMA SwapBackInv == IInv /\ SwapBack => IInv'
<1> SUFFICES ASSUME IInv, SwapBack PROVE IInv' OBVIOUS
<1>1. /\ app \in AppType /\ AppInv /\ app.at = "back" /\ app.at \in StLabels
      /\ app.st \in SwapState
  BY DEF IInv, TypeOK, AppInv, SwapBack, At, StLabels
<1> DEFINE ok == Goto("verifyback") /\ UNCHANGED slots
           failed == Take("prepared")
<1>2a. Swap(app.st, ok, failed) BY DEF SwapBack
<1> HIDE DEF ok, failed
<1>2b. tm' \in ServerType /\ faults' \in Nat /\ (ok \/ failed)
  BY <1>1, <1>2a, SwapType DEF IInv
<1> USE DEF ok, failed
<1>2. /\ tm' \in ServerType /\ faults' \in Nat
      /\ (Goto("verifyback") /\ UNCHANGED slots) \/ Take("prepared")
  BY <1>2b
<1>3. CASE Take("prepared") BY <1>1, <1>2, <1>3, TakeInv DEF SwapBack
<1>4. CASE Goto("verifyback") /\ UNCHANGED slots
  <2>1. app' \in AppType /\ AppInv'
    BY <1>1, <1>4, GotoInv DEF StLabels, FreeLabels, AttachLabels, AppLabels
  <2>2. QED BY <1>2, <1>4, <2>1, AppFrame DEF SwapBack, IInv, TypeOK
<1>5. QED BY <1>2, <1>3, <1>4

LEMMA VerifyBackInv == IInv /\ VerifyBack => IInv'
<1> SUFFICES ASSUME IInv, VerifyBack PROVE IInv' OBVIOUS
<1>1. /\ app \in AppType /\ AppInv /\ app.at = "verifyback" /\ app.at \in StLabels
      /\ app.st \in SwapState
  BY DEF IInv, TypeOK, AppInv, VerifyBack, At, StLabels
<1>2. /\ tm' \in ServerType /\ faults' \in Nat
      /\ (RollBack /\ UNCHANGED slots) \/ Take("prepared")
  BY <1>1, VerdictType DEF VerifyBack, IInv, TypeOK
<1>3. CASE Take("prepared") BY <1>1, <1>2, <1>3, TakeInv DEF VerifyBack
<1>4. CASE RollBack /\ UNCHANGED slots
  <2>1. app' \in AppType /\ AppInv'
    BY <1>1, <1>4, RollBackInv DEF StLabels, FreeLabels, AttachLabels
  <2>2. QED BY <1>2, <1>4, <2>1, AppFrame DEF VerifyBack, IInv, TypeOK
<1>5. QED BY <1>2, <1>3, <1>4

LEMMA Commit1Inv == IInv /\ Commit1 => IInv'
<1> SUFFICES ASSUME IInv, Commit1 PROVE IInv' OBVIOUS
<1>1. /\ app \in AppType /\ AppInv /\ app.at = "commit1" /\ UNCHANGED slots
      /\ app.st \in SwapState
  BY DEF IInv, TypeOK, AppInv, Commit1, At, StLabels
<1>2. /\ tm' \in ServerType /\ faults' \in Nat
      /\ Goto("commit2") \/ Goto("back")
  BY <1>1, WriteHomeType DEF Commit1, IInv
<1>3. app' \in AppType /\ AppInv'
  BY <1>1, <1>2, GotoInv
  DEF StLabels, FreeLabels, AttachLabels, AppLabels
<1>4. QED BY <1>2, <1>3, AppFrame DEF Commit1, IInv, TypeOK

LEMMA Commit2Inv == IInv /\ Commit2 => IInv'
<1> SUFFICES ASSUME IInv, Commit2 PROVE IInv' OBVIOUS
<1>1. /\ app \in AppType /\ AppInv /\ app.at = "commit2" /\ app.at \in StLabels
      /\ app.st \in SwapState
  BY DEF IInv, TypeOK, AppInv, Commit2, At, StLabels
<1> DEFINE ok == Take("displayed")
           failed == Goto("back") /\ UNCHANGED slots
<1>2a. WriteDisplay(app.st, ok, failed) BY DEF Commit2
<1> HIDE DEF ok, failed
<1>2b. tm' \in ServerType /\ faults' \in Nat /\ (ok \/ failed)
  BY <1>1, <1>2a, WriteDisplayType DEF IInv
<1> USE DEF ok, failed
<1>2. /\ tm' \in ServerType /\ faults' \in Nat
      /\ (Goto("back") /\ UNCHANGED slots) \/ Take("displayed")
  BY <1>2b
<1>3. CASE Take("displayed") BY <1>1, <1>2, <1>3, TakeInv DEF Commit2
<1>4. CASE Goto("back") /\ UNCHANGED slots
  <2>1. app' \in AppType /\ AppInv'
    BY <1>1, <1>4, GotoInv DEF StLabels, FreeLabels, AttachLabels, AppLabels
  <2>2. QED BY <1>2, <1>4, <2>1, AppFrame DEF Commit2, IInv, TypeOK
<1>5. QED BY <1>2, <1>3, <1>4

LEMMA NestedInv == IInv /\ Nested => IInv'
<1> SUFFICES ASSUME IInv, Nested PROVE IInv' OBVIOUS
<1>1. /\ app \in AppType /\ app.agent \in Agents /\ app.slot \in Slots
      /\ slots[app.slot].st = None
  BY DEF IInv, TypeOK, AppInv, Nested, At, FreeLabels, AttachLabels
<1>2. app' \in AppType /\ AppInv' BY <1>1, IdleInv DEF Nested, AppType
<1>3. faults' \in Nat BY FaultType DEF Nested, IInv
<1>4. CASE UNCHANGED <<tm, slots>>
  BY <1>2, <1>3, <1>4, AppFrame DEF Nested, IInv, TypeOK
<1>5. CASE Show(app.slot, app.agent) /\
           slots' = [slots EXCEPT ![app.slot] =
                       [pane |-> PaneFor(app.slot), agent |-> app.agent,
                        st |-> None]]
  <2>1. tm' \in ServerType /\ PaneFor(app.slot) \in Pads
    BY <1>1, <1>5, ShowType
  <2> DEFINE sl == [pane |-> PaneFor(app.slot), agent |-> app.agent,
                    st |-> None]
  <2>2. sl \in SlotType BY <1>1, <2>1 DEF SlotType, Panes
  <2>3. sl.st = None /\ sl.pane \notin Agents
    BY <2>1, PanesAssumption
  <2>4. slots' = [slots EXCEPT ![app.slot] = sl] BY <1>5
  <2> HIDE DEF sl
  <2>5. QED
    BY <1>1, <1>2, <1>3, <2>1, <2>2, <2>3, <2>4, SlotFrame DEF Nested
<1>6. QED BY <1>4, <1>5 DEF Nested

LEMMA AttachStepInv == IInv /\ AttachStep => IInv'
BY GateInv, PlaceInv, InspectInv, KeeperInv, Prepare1Inv, Prepare2Inv,
   SwapOutInv, VerifyInv, SwapBackInv, VerifyBackInv, Commit1Inv, Commit2Inv,
   NestedInv DEF AttachStep

-----------------------------------------------------------------------------
(* The other operations of the transport preserve the invariant *)

LEMMA BeginInv ==
    ASSUME IInv, NEW s \in Slots, NEW a \in Agents \cup {None},
           NEW purpose \in Purposes, Begin(s, a, purpose), UNCHANGED slots,
           purpose # "attach", purpose = "fallback" => a \in Agents
    PROVE  app' \in AppType /\ AppInv'
<1>1. app \in AppType /\ slots[s] \in SlotType BY DEF IInv, TypeOK
<1>2. app' \in AppType
  <2> DEFINE l == IF slots[s].st = None THEN "home" ELSE "check"
             st == slots[s].st
  <2>1. l \in AppLabels /\ st \in SwapState \cup {None}
    BY <1>1 DEF AppLabels, SlotType
  <2>2. app' = [app EXCEPT !.at = l, !.slot = s, !.agent = a, !.st = st,
                           !.for = purpose]
    BY DEF Begin
  <2> HIDE DEF l, st
  <2>3. QED BY <1>1, <2>1, <2>2 DEF AppType
<1>3. /\ app'.at = IF slots[s].st = None THEN "home" ELSE "check"
      /\ app'.slot = s /\ app'.st = slots[s].st
      /\ app'.for = purpose /\ app'.agent = a
  BY <1>1 DEF Begin, AppType
<1>4. AppInv'
  BY <1>1, <1>3
  DEF IInv, SlotsInv, SlotType, AppInv, StLabels, FreeLabels, AttachLabels
<1>5. QED BY <1>2, <1>4

LEMMA VacateInv ==
    ASSUME IInv, NEW s \in Slots, NEW purpose \in {"preview", "reset", "close"},
           Vacate(s, purpose)
    PROVE  IInv'
<1>1. slots[s].agent \in Agents \cup {None}
  BY DEF IInv, TypeOK, SlotType
<1>2. purpose \in Purposes BY DEF Purposes
<1>3. app' \in AppType /\ AppInv' BY <1>1, <1>2, BeginInv DEF Vacate
<1>4. QED BY <1>3, AppFrame DEF Vacate, IInv, TypeOK

LEMMA KillInv ==
    ASSUME IInv, NEW a \in Agents, Kill(a)
    PROVE  IInv'
<1> SUFFICES app' \in AppType /\ AppInv'
  BY AppFrame DEF Kill, IInv, TypeOK
<1>1. CASE \E s \in Slots : Begin(s, a, "kill")
  BY <1>1, BeginInv DEF Kill, Purposes
<1>2. CASE app' = [app EXCEPT !.at = "killagent", !.agent = a, !.for = "kill"]
  <2>1. app \in AppType BY DEF IInv, TypeOK
  <2>2. app' \in AppType BY <1>2, <2>1 DEF AppType, AppLabels, Purposes
  <2>3. app'.at = "killagent" /\ app'.for = "kill" BY <1>2, <2>1 DEF AppType
  <2>4. AppInv' BY <2>3 DEF AppInv, StLabels, FreeLabels, AttachLabels
  <2>5. QED BY <2>2, <2>4
<1>3. QED BY <1>1, <1>2 DEF Kill

LEMMA BlankInv == IInv /\ Blank => IInv'
<1> SUFFICES ASSUME IInv, Blank PROVE IInv' OBVIOUS
<1>1. /\ app \in AppType /\ AppInv /\ app.at = "blank" /\ app.slot \in Slots
      /\ slots[app.slot].st = None /\ UNCHANGED <<kp, rec, tx, acts>>
      /\ tm \in ServerType
  BY DEF IInv, TypeOK, AppInv, Blank, At, FreeLabels
<1>2. /\ app' = Idle(app.inst) \/ Goto("killagent")
      /\ Fault \/ NoFault
  BY DEF Blank, Fails
<1>3. app' \in AppType /\ AppInv'
  <2>1. CASE app' = Idle(app.inst) BY <1>1, <2>1, IdleInv DEF AppType
  <2>2. CASE Goto("killagent")
    <3>1. app' \in AppType BY <1>1, <2>2, GotoType DEF AppLabels
    <3>2. /\ app'.at = "killagent" /\ app'.for = app.for
          /\ app'.agent = app.agent
      BY <1>1, <2>2 DEF Goto, AppType
    <3>3. AppInv'
      BY <1>1, <3>2 DEF AppInv, StLabels, FreeLabels, AttachLabels
    <3>4. QED BY <3>1, <3>3
  <2>3. QED BY <1>2, <2>1, <2>2
<1>4. faults' \in Nat BY <1>2, FaultType DEF IInv
<1>5. CASE UNCHANGED <<tm, slots>>
  BY <1>1, <1>3, <1>4, <1>5, AppFrame DEF IInv, TypeOK
<1>6. CASE slots' = [slots EXCEPT ![app.slot] = EmptySlot] /\ UNCHANGED tm
  BY <1>1, <1>3, <1>4, <1>6, SlotFrame, EmptySlotType, PanesAssumption
<1>7. CASE Show(app.slot, "idle") /\
           slots' = [slots EXCEPT ![app.slot] =
                       [EmptySlot EXCEPT !.pane = PaneFor(app.slot)]]
  <2> DEFINE sl == [EmptySlot EXCEPT !.pane = PaneFor(app.slot)]
  <2>1. tm' \in ServerType /\ PaneFor(app.slot) \in Pads
    BY <1>1, <1>7, ShowType
  <2>2. sl \in SlotType /\ sl.st = None /\ sl.pane = PaneFor(app.slot)
    BY <2>1, EmptySlotType DEF Panes
  <2>3. sl.pane \notin Agents BY <2>1, <2>2, PanesAssumption
  <2>4. slots' = [slots EXCEPT ![app.slot] = sl] BY <1>7
  <2> HIDE DEF sl
  <2>5. QED BY <1>1, <1>3, <1>4, <2>1, <2>2, <2>3, <2>4, SlotFrame
<1>8. QED BY <1>5, <1>6, <1>7 DEF Blank

LEMMA KillSessionInv ==
    ASSUME IInv, NEW a \in Agents, KillSession(a)
    PROVE  IInv'
<1>1. app.inst \in Insts /\ tm \in ServerType BY DEF IInv, TypeOK, AppType
<1>2. /\ app' \in AppType /\ AppInv' /\ tm' \in ServerType
  BY <1>1, IdleInv, KillAgentSessionType DEF KillSession
<1>3. faults' \in Nat BY FaultType DEF KillSession, IInv
<1>4. QED BY <1>2, <1>3, AppFrame DEF KillSession, IInv, TypeOK

LEMMA ClosePaneInv == IInv /\ ClosePane => IInv'
<1> SUFFICES ASSUME IInv, ClosePane PROVE IInv' OBVIOUS
<1>1. /\ app \in AppType /\ app.at = "killpane" /\ app.slot \in Slots
      /\ slots \in [Slots -> SlotType] /\ tm \in ServerType
      /\ slots[app.slot].st = None /\ UNCHANGED <<kp, rec, tx, acts>>
  BY DEF IInv, TypeOK, AppInv, ClosePane, At, FreeLabels
<1>2. faults' \in Nat BY FaultType DEF ClosePane, IInv
<1>3. ASSUME app' = Idle(app.inst), UNCHANGED <<tm, slots>>
      PROVE  IInv'
  BY <1>1, <1>2, <1>3, IdleInv, AppFrame DEF AppType, IInv, TypeOK
<1>4. ASSUME tm' = IF PaneReady(app.slot)
                   THEN KillPane(tm, slots[app.slot].pane) ELSE tm,
             slots' = [slots EXCEPT ![app.slot] = EmptySlot],
             app' = [app EXCEPT !.at = "home", !.for = "reaped"]
      PROVE  IInv'
  <2>1. PaneReady(app.slot) => slots[app.slot].pane \in Panes
    BY <1>1 DEF PaneReady, SlotType
  <2>2. tm' \in ServerType BY <1>1, <1>4, <2>1, KillPaneType
  <2>3. app' \in AppType BY <1>1, <1>4 DEF AppType, AppLabels, Purposes
  <2>4. /\ app'.at = "home" /\ app'.for = "reaped" /\ app'.slot = app.slot
    BY <1>1, <1>4 DEF AppType
  <2>5. slots'[app.slot] = EmptySlot BY <1>1, <1>4
  <2>6. AppInv'
    BY <1>1, <2>4, <2>5, EmptySlotType
    DEF AppInv, StLabels, FreeLabels, AttachLabels
  <2>7. QED
    BY <1>1, <1>2, <1>4, <2>2, <2>3, <2>6, SlotFrame, EmptySlotType,
       PanesAssumption
<1>5. QED BY <1>3, <1>4 DEF ClosePane

LEMMA ReapDeadInv ==
    ASSUME IInv, NEW s \in Slots, ReapDead(s)
    PROVE  IInv'
<1> DEFINE st == slots[s].st
<1>1. /\ app \in AppType /\ tm \in ServerType /\ slots[s] \in SlotType
      /\ st # None /\ st.ph \in Pads
  BY DEF IInv, TypeOK, SlotsInv, ReapDead
<1>2. st \in SwapState BY <1>1 DEF SlotType
<1>3. st.agent \in Agents /\ BothWindows(st) \subseteq Windows
  BY <1>2, WindowsOfMarker DEF SwapState
<1>4. /\ tm' = KillAgentSession(tm, st.agent) \/ UNCHANGED tm
      /\ NoFault \/ Fault
      /\ app' = [app EXCEPT !.at = "clear", !.slot = s, !.st = st,
                   !.agent = st.agent, !.for = "reaped",
                   !.todo = BothWindows(st)]
      /\ UNCHANGED <<slots, kp, rec, tx, acts>>
  BY DEF ReapDead, Fails
<1> HIDE DEF st
<1>5. tm' \in ServerType BY <1>1, <1>4, KillAgentSessionType
<1>6. faults' \in Nat BY <1>4, FaultType DEF IInv
<1>7. app' \in AppType
  BY <1>1, <1>2, <1>3, <1>4 DEF AppType, AppLabels, Purposes
<1>8. app'.at = "clear" /\ app'.slot = s /\ app'.st = st /\ app'.for = "reaped"
  BY <1>1, <1>4 DEF AppType
<1>9. AppInv'
  BY <1>1, <1>2, <1>8 DEF AppInv, FreeLabels, AttachLabels
<1>10. QED BY <1>4, <1>5, <1>6, <1>7, <1>9, AppFrame DEF IInv, TypeOK

LEMMA ExternalClientInv ==
    ASSUME IInv, NEW s \in Slots, ExternalClient(s)
    PROVE  IInv'
<1>1. slots[s] \in SlotType /\ slots[s].st # None
  BY DEF IInv, TypeOK, ExternalClient
<1>2. slots[s].st.agent \in Agents BY <1>1 DEF SlotType, SwapState
<1>3. app' \in AppType /\ AppInv'
  BY <1>2, BeginInv DEF ExternalClient, Purposes
<1>4. QED BY <1>3, AppFrame DEF ExternalClient, IInv, TypeOK

-----------------------------------------------------------------------------
(* Leaving preserves the invariant *)

LEMMA LeaveInv ==
    ASSUME IInv, NEW how \in {"soft", "hard"}, Leave(how)
    PROVE  IInv'
<1>1. app \in AppType BY DEF IInv, TypeOK
<1>2. app' \in AppType BY <1>1 DEF Leave, AppType, AppLabels, Purposes
<1>3. app'.at = "quit" /\ app'.for = how BY <1>1 DEF Leave, AppType
<1>4. AppInv' BY <1>3 DEF AppInv, StLabels, FreeLabels, AttachLabels
<1>5. QED BY <1>2, <1>4, AppFrame DEF Leave, IInv, TypeOK

LEMMA CloseAllInv == IInv /\ CloseAll => IInv'
<1> SUFFICES ASSUME IInv, CloseAll PROVE IInv' OBVIOUS
<1>1. /\ app \in AppType /\ AppInv /\ app.at = "quit"
      /\ slots \in [Slots -> SlotType] /\ tm \in ServerType
      /\ faults \in Nat /\ UNCHANGED <<kp, rec, tx, acts>>
  BY DEF IInv, TypeOK, CloseAll, At
<1>2. ASSUME NEW s \in ToReturn,
             app' = [app EXCEPT !.at = "check", !.slot = s,
                       !.st = slots[s].st, !.tried = @ \cup {s}],
             UNCHANGED <<tm, slots, faults>>
      PROVE  IInv'
  <2>1. /\ s \in Slots /\ slots[s].st \in SwapState
        /\ slots[s].st.ph \in Pads
    BY <1>1 DEF ToReturn, SlotType, IInv, SlotsInv
  <2>2. app' \in AppType BY <1>1, <1>2, <2>1 DEF AppType, AppLabels
  <2>3. /\ app'.at = "check" /\ app'.slot = s /\ app'.st = slots[s].st
        /\ app'.for = app.for /\ app'.agent = app.agent
    BY <1>1, <1>2 DEF AppType
  <2>4. AppInv'
    BY <1>1, <2>1, <2>3 DEF AppInv, FreeLabels, AttachLabels
  <2>5. QED BY <1>1, <1>2, <2>2, <2>4, AppFrame DEF IInv, TypeOK
<1>3. ASSUME NEW s \in ToClose, slots' = [slots EXCEPT ![s] = EmptySlot],
             \/ tm' = KillPane(tm, slots[s].pane) /\ NoFault
             \/ UNCHANGED tm /\ Fault,
             UNCHANGED app
      PROVE  IInv'
  <2>1. s \in Slots /\ slots[s].pane \in Panes
    BY <1>1 DEF ToClose, SlotType
  <2>2. tm' \in ServerType BY <1>1, <1>3, <2>1, KillPaneType
  <2>3. faults' \in Nat BY <1>3, FaultType DEF IInv
  <2>4. AppInv'
    BY <1>1, <1>3 DEF AppInv, StLabels, FreeLabels, AttachLabels
  <2>5. QED
    BY <1>1, <1>3, <2>1, <2>2, <2>3, <2>4, SlotFrame, EmptySlotType,
       PanesAssumption
<1>4. ASSUME Goto("exit"), UNCHANGED <<tm, slots, faults>>
      PROVE  IInv'
  <2>1. app' \in AppType /\ AppInv'
    BY <1>1, <1>4, GotoInv
    DEF StLabels, FreeLabels, AttachLabels, AppLabels
  <2>2. QED BY <1>1, <1>4, <2>1, AppFrame DEF IInv, TypeOK
<1> DEFINE Returns ==
             \E s \in ToReturn :
               /\ app' = [app EXCEPT !.at = "check", !.slot = s,
                            !.st = slots[s].st, !.tried = @ \cup {s}]
               /\ UNCHANGED <<tm, slots, faults>>
           Closes ==
             /\ \E s \in ToClose :
                  /\ slots' = [slots EXCEPT ![s] = EmptySlot]
                  /\ \/ tm' = KillPane(tm, slots[s].pane) /\ NoFault
                     \/ UNCHANGED tm /\ Fault
             /\ UNCHANGED app
           Leaves == Goto("exit") /\ UNCHANGED <<tm, slots, faults>>
<1>5. Returns \/ Closes \/ Leaves BY DEF CloseAll
<1>6. CASE Returns BY <1>2, <1>6
<1>7. CASE Closes BY <1>3, <1>7
<1>8. CASE Leaves BY <1>4, <1>8
<1>9. QED BY <1>5, <1>6, <1>7, <1>8

LEMMA ExitDropsKeeperInv == IInv /\ ExitDropsKeeper => IInv'
<1> SUFFICES ASSUME IInv, ExitDropsKeeper PROVE IInv' OBVIOUS
<1>1. app \in AppType /\ AppInv /\ app.at = "exit"
  BY DEF IInv, TypeOK, ExitDropsKeeper, At
<1>2. tm' \in ServerType /\ faults' \in Nat /\ kp' \in BOOLEAN
  BY DropKeeperType DEF IInv, ExitDropsKeeper
<1>3. app' \in AppType /\ AppInv'
  BY <1>1, GotoInv
  DEF ExitDropsKeeper, StLabels, FreeLabels, AttachLabels, AppLabels
<1>4. QED BY <1>2, <1>3, AppFrame DEF ExitDropsKeeper, IInv, TypeOK

\* The slots of a process that is gone are empty.
LEMMA EndInv ==
    ASSUME IInv, tm' \in ServerType, kp' \in BOOLEAN,
           NEW i \in Insts, app' = Idle(i),
           slots' = [s \in Slots |-> EmptySlot], RecInv', tx' \in Nat,
           faults' \in Nat, acts' \in Nat, rec' \in [Recoverers -> RecType]
    PROVE  IInv'
<1>1. app' \in AppType /\ AppInv' BY IdleInv
<1>2. slots' \in [Slots -> SlotType] BY EmptySlotType
<1>3. SlotsInv' BY EmptySlotType, PanesAssumption DEF SlotsInv
<1>4. TypeOK' BY <1>1, <1>2 DEF TypeOK
<1>5. QED BY <1>1, <1>3, <1>4 DEF IInv

LEMMA ByeInv == IInv /\ Bye => IInv'
<1> SUFFICES ASSUME IInv, Bye PROVE IInv' OBVIOUS
<1>1. /\ app.inst \in Insts /\ tm \in ServerType /\ kp \in BOOLEAN
      /\ tx \in Nat /\ faults \in Nat /\ acts \in Nat
      /\ rec \in [Recoverers -> RecType]
  BY DEF IInv, TypeOK, AppType
<1> DEFINE t == [tm EXCEPT !.own[app.inst] = FALSE,
                           !.outer[app.inst] = FALSE,
                           !.at = [p \in Panes |->
                                     IF tm.at[p] \in HomeWindows
                                     THEN Gone ELSE tm.at[p]]]
<1>2. t \in ServerType BY <1>1 DEF ServerType
<1>3. tm' = Settle(t) \/ tm' = OwnerDies(tm, app.inst) BY DEF Bye
<1> HIDE DEF t
<1>4. tm' \in ServerType BY <1>1, <1>2, <1>3, SettleType, KillSessionsType
<1>5. RecInv' BY DEF IInv, RecInv, Bye
<1>6. QED BY <1>1, <1>4, <1>5, EndInv DEF Bye

-----------------------------------------------------------------------------
(* Recovery preserves the invariant *)

\* What a step of a launcher has to show.
LEMMA RecFrame ==
    ASSUME IInv, tm' \in ServerType, faults' \in Nat,
           UNCHANGED <<slots, kp, app, tx, acts>>,
           rec' \in [Recoverers -> RecType], RecInv'
    PROVE  IInv'
<1>1. TypeOK' BY DEF IInv, TypeOK
<1>2. SlotsInv' /\ AppInv' BY DEF IInv, SlotsInv, AppInv
<1>3. QED BY <1>1, <1>2 DEF IInv

\* One launcher's record changes.
LEMMA RecOne ==
    ASSUME IInv, NEW r \in Recoverers, NEW x \in RecType,
           rec' = [rec EXCEPT ![r] = x],
           x.at \in RecStLabels => x.st \in SwapState
    PROVE  rec' \in [Recoverers -> RecType] /\ RecInv'
<1>1. rec \in [Recoverers -> RecType] BY DEF IInv, TypeOK
<1>2. QED BY <1>1 DEF IInv, RecInv

LEMMA OffType == Off \in RecType /\ Off.at = "off"
BY DEF Off, RecType, RecLabels

LEMMA RecToInv ==
    ASSUME IInv, NEW r \in Recoverers, NEW l \in RecLabels, RecTo(r, l),
           rec[r].at \in RecStLabels \/ l \notin RecStLabels
    PROVE  rec' \in [Recoverers -> RecType] /\ RecInv'
<1> DEFINE x == [rec[r] EXCEPT !.at = l]
<1>1. rec[r] \in RecType /\ rec \in [Recoverers -> RecType]
  BY DEF IInv, TypeOK
<1>2. x \in RecType /\ x.at = l /\ x.st = rec[r].st BY <1>1 DEF RecType
<1>3. rec' = [rec EXCEPT ![r] = x] BY <1>1 DEF RecTo
<1>4. x.at \in RecStLabels => x.st \in SwapState
  BY <1>2 DEF IInv, RecInv
<1> HIDE DEF x
<1>5. QED BY <1>2, <1>3, <1>4, RecOne

LEMMA UnresolvedInv ==
    ASSUME IInv, NEW r \in Recoverers, NEW m \in SwapState, Unresolved(r, m)
    PROVE  rec' \in [Recoverers -> RecType] /\ RecInv'
<1> DEFINE x == [rec[r] EXCEPT !.at = "each", !.inuse = @ \cup {m.inst},
                               !.rows = {n \in @ : n.tx # m.tx}]
<1>1. rec[r] \in RecType /\ rec \in [Recoverers -> RecType]
  BY DEF IInv, TypeOK
<1>2. m.inst \in Insts BY DEF SwapState
<1>3. x \in RecType /\ x.at = "each"
  BY <1>1, <1>2 DEF RecType, RecLabels
<1>4. rec' = [rec EXCEPT ![r] = x] BY <1>1 DEF Unresolved
<1>5. x.at \notin RecStLabels BY <1>3 DEF RecStLabels
<1> HIDE DEF x
<1>6. QED BY <1>3, <1>4, <1>5, RecOne

LEMMA FixedInv ==
    ASSUME IInv, NEW r \in Recoverers, NEW m \in SwapState, Fixed(r, m)
    PROVE  rec' \in [Recoverers -> RecType] /\ RecInv'
<1> DEFINE x == [rec[r] EXCEPT !.at = "clear", !.st = m,
                               !.todo = BothWindows(m)]
<1>1. rec[r] \in RecType /\ rec \in [Recoverers -> RecType]
  BY DEF IInv, TypeOK
<1>2. BothWindows(m) \subseteq Windows BY WindowsOfMarker
<1>3. x \in RecType /\ x.st = m BY <1>1, <1>2 DEF RecType, RecLabels
<1>4. rec' = [rec EXCEPT ![r] = x] BY <1>1 DEF Fixed
<1> HIDE DEF x
<1>5. QED BY <1>3, <1>4, RecOne

\* A marker read from the server is a whole record.
LEMMA MarkersType == TypeOK => Markers \subseteq SwapState
BY DEF TypeOK, ServerType, Markers

LEMMA RecoverListInv ==
    ASSUME IInv, NEW r \in Recoverers, RecoverList(r)
    PROVE  IInv'
<1>1. PICK g \in Groupings, ids \in SUBSET Insts :
        /\ rec' = [rec EXCEPT ![r] = [Off EXCEPT !.at = "each", !.rows = g,
                     !.ids = ids, !.all = {m.inst : m \in g}]]
        /\ NoFault \/ Fault
  BY DEF RecoverList
<1> DEFINE x == [Off EXCEPT !.at = "each", !.rows = g, !.ids = ids,
                            !.all = {m.inst : m \in g}]
<1>2. g \subseteq SwapState BY MarkersType DEF Groupings, IInv
<1>3. {m.inst : m \in g} \subseteq Insts BY <1>2 DEF SwapState
<1>4. x \in RecType /\ x.at = "each"
  BY <1>2, <1>3 DEF Off, RecType, RecLabels
<1>5. rec' = [rec EXCEPT ![r] = x] BY <1>1
<1> HIDE DEF x
<1>6. rec' \in [Recoverers -> RecType] /\ RecInv'
  BY <1>4, <1>5, RecOne DEF RecStLabels
<1>7. faults' \in Nat BY <1>1, FaultType DEF IInv
<1>8. QED BY <1>6, <1>7, RecFrame DEF RecoverList, IInv, TypeOK

LEMMA RecoverOneInv ==
    ASSUME IInv, NEW r \in Recoverers, RecoverOne(r)
    PROVE  IInv'
<1>1. PICK m \in rec[r].rows :
        /\ \/ Unresolved(r, m) /\ UNCHANGED tm
           \/ Fixed(r, m) /\ UNCHANGED tm
           \/ /\ rec' = [rec EXCEPT ![r].at = "swap", ![r].st = m]
              /\ UNCHANGED tm
           \/ /\ HasFreshPad(tm) /\ tm' = NewDetachedSession(tm, m.agent)
              /\ rec' = [rec EXCEPT ![r].at = "observe", ![r].st = m]
           \/ Fixed(r, m) /\ tm' = KillAgentSession(tm, m.agent)
        /\ NoFault \/ Fault
  BY DEF RecoverOne
<1>2. /\ rec[r] \in RecType /\ rec \in [Recoverers -> RecType]
      /\ tm \in ServerType
  BY DEF IInv, TypeOK
<1>3. m \in SwapState /\ m.agent \in Agents
  BY <1>2 DEF RecType, SwapState
<1>4. tm' \in ServerType
  BY <1>1, <1>2, <1>3, KillAgentSessionType, NewDetachedSessionType
<1>5. faults' \in Nat BY <1>1, FaultType DEF IInv
<1>6. ASSUME NEW l \in {"swap", "observe"},
             rec' = [rec EXCEPT ![r].at = l, ![r].st = m]
      PROVE  rec' \in [Recoverers -> RecType] /\ RecInv'
  <2> DEFINE x == [rec[r] EXCEPT !.at = l, !.st = m]
  <2>1. x \in RecType /\ x.st = m BY <1>2, <1>3 DEF RecType, RecLabels
  <2>2. rec' = [rec EXCEPT ![r] = x] BY <1>2, <1>6
  <2> HIDE DEF x
  <2>3. QED BY <1>3, <2>1, <2>2, RecOne
<1>7. rec' \in [Recoverers -> RecType] /\ RecInv'
  BY <1>1, <1>3, <1>6, UnresolvedInv, FixedInv
<1>8. QED BY <1>4, <1>5, <1>7, RecFrame DEF RecoverOne

LEMMA RecoverObserveInv ==
    ASSUME IInv, NEW r \in Recoverers, RecoverObserve(r)
    PROVE  IInv'
<1> DEFINE m == rec[r].st
           ph == SingleLivePane(tm, m.agent)
           n == [m EXCEPT !.ph = ph, !.phase = "returning",
                          !.home = HomeWin(tm, m.agent)]
           x == [rec[r] EXCEPT !.at = "mark1", !.st = n]
<1>1. /\ rec[r] \in RecType /\ rec \in [Recoverers -> RecType]
      /\ tm \in ServerType /\ m \in SwapState
  BY DEF IInv, TypeOK, RecInv, RecStLabels, RecoverObserve
<1>2. PICK v \in BOOLEAN :
        /\ Verdict(ph # None /\ ~Attached(tm, m.agent), v)
        /\ IF ~v THEN Unresolved(r, m)
           ELSE rec' = [rec EXCEPT ![r].at = "mark1", ![r].st = n]
  BY DEF RecoverObserve
<1>3. faults' \in Nat BY <1>2, VerdictType DEF IInv
<1>4. CASE v
  <2>1. ph \in Panes BY <1>2, <1>4, SingleLivePaneType DEF Verdict
  <2>2. m.agent \in Agents BY <1>1 DEF SwapState
  <2>3. HomeWin(tm, m.agent) \in Windows BY <1>1, <2>2, HomeWinType
  <2> HIDE DEF ph, m
  <2>4. n \in SwapState BY <1>1, <2>1, <2>3 DEF SwapState
  <2> HIDE DEF n
  <2>5. x \in RecType /\ x.st = n BY <1>1, <2>4 DEF RecType, RecLabels
  <2>6. rec' = [rec EXCEPT ![r] = x] BY <1>1, <1>2, <1>4
  <2> HIDE DEF x
  <2>7. rec' \in [Recoverers -> RecType] /\ RecInv'
    BY <2>4, <2>5, <2>6, RecOne
  <2>8. QED BY <1>3, <2>7, RecFrame DEF RecoverObserve, IInv, TypeOK
<1>5. CASE ~v
  <2>1. Unresolved(r, m) BY <1>2, <1>5
  <2>2. rec' \in [Recoverers -> RecType] /\ RecInv'
    BY <1>1, <2>1, UnresolvedInv
  <2>3. QED BY <1>3, <2>2, RecFrame DEF RecoverObserve, IInv, TypeOK
<1>6. QED BY <1>4, <1>5

LEMMA RecoverMark1Inv ==
    ASSUME IInv, NEW r \in Recoverers, RecoverMark1(r)
    PROVE  IInv'
<1>1. rec[r].at = "mark1" /\ rec[r].st \in SwapState
  BY DEF IInv, RecInv, RecStLabels, RecoverMark1
<1>2. /\ tm' \in ServerType /\ faults' \in Nat
      /\ RecTo(r, "mark2") \/ Unresolved(r, rec[r].st)
  BY <1>1, WriteHomeType DEF RecoverMark1, IInv
<1>3. QED
  BY <1>1, <1>2, UnresolvedInv, RecToInv, RecFrame
  DEF RecoverMark1, RecLabels, RecStLabels

LEMMA RecoverMark2Inv ==
    ASSUME IInv, NEW r \in Recoverers, RecoverMark2(r)
    PROVE  IInv'
<1>1. rec[r].at = "mark2" /\ rec[r].st \in SwapState
  BY DEF IInv, RecInv, RecStLabels, RecoverMark2
<1>2. /\ tm' \in ServerType /\ faults' \in Nat
      /\ RecTo(r, "swap") \/ Unresolved(r, rec[r].st)
  BY <1>1, WriteDisplayType DEF RecoverMark2, IInv
<1>3. QED
  BY <1>1, <1>2, UnresolvedInv, RecToInv, RecFrame
  DEF RecoverMark2, RecLabels, RecStLabels

LEMMA RecoverSwapInv ==
    ASSUME IInv, NEW r \in Recoverers, RecoverSwap(r)
    PROVE  IInv'
<1>1. rec[r].at = "swap" /\ rec[r].st \in SwapState
  BY DEF IInv, RecInv, RecStLabels, RecoverSwap
<1>2. /\ tm' \in ServerType /\ faults' \in Nat
      /\ RecTo(r, "verify") \/ Unresolved(r, rec[r].st)
  BY <1>1, SwapType DEF RecoverSwap, IInv
<1>3. QED
  BY <1>1, <1>2, UnresolvedInv, RecToInv, RecFrame
  DEF RecoverSwap, RecLabels, RecStLabels

LEMMA RecoverVerifyInv ==
    ASSUME IInv, NEW r \in Recoverers, RecoverVerify(r)
    PROVE  IInv'
<1>1. rec[r].st \in SwapState
  BY DEF IInv, RecInv, RecStLabels, RecoverVerify
<1>2. faults' \in Nat BY VerdictType DEF RecoverVerify, IInv
<1>3. Fixed(r, rec[r].st) \/ Unresolved(r, rec[r].st) BY DEF RecoverVerify
<1>4. QED
  BY <1>1, <1>2, <1>3, UnresolvedInv, FixedInv, RecFrame
  DEF RecoverVerify, IInv, TypeOK

LEMMA RecoverClearInv ==
    ASSUME IInv, NEW r \in Recoverers, RecoverClear(r)
    PROVE  IInv'
<1>1. /\ rec[r].at = "clear" /\ rec[r].st \in SwapState
      /\ rec[r] \in RecType /\ rec \in [Recoverers -> RecType]
  BY DEF IInv, TypeOK, RecInv, RecStLabels, RecoverClear
<1>2. rec[r].st.inst \in Insts BY <1>1 DEF SwapState
<1>3. PICK w \in rec[r].todo :
        /\ Clear(rec[r].st, w)
        /\ rec' = IF rec[r].todo # {w}
                  THEN [rec EXCEPT ![r].todo = @ \ {w}]
                  ELSE [rec EXCEPT ![r].at = "each", ![r].todo = {},
                          ![r].stale = @ \cup {rec[r].st.inst},
                          ![r].rows = {n \in @ : n.tx # rec[r].st.tx}]
  BY DEF RecoverClear
<1>4. w \in Windows BY <1>1 DEF RecType
<1>5. tm' \in ServerType /\ faults' \in Nat
  BY <1>1, <1>3, <1>4, ClearType DEF IInv
<1> DEFINE x == IF rec[r].todo # {w}
                THEN [rec[r] EXCEPT !.todo = @ \ {w}]
                ELSE [rec[r] EXCEPT !.at = "each", !.todo = {},
                        !.stale = @ \cup {rec[r].st.inst},
                        !.rows = {n \in @ : n.tx # rec[r].st.tx}]
<1>6. x \in RecType /\ x.st = rec[r].st
  BY <1>1, <1>2 DEF RecType, RecLabels
<1>7. rec' = [rec EXCEPT ![r] = x] BY <1>1, <1>3
<1> HIDE DEF x
<1>8. rec' \in [Recoverers -> RecType] /\ RecInv'
  BY <1>1, <1>6, <1>7, RecOne
<1>9. QED BY <1>5, <1>8, RecFrame DEF RecoverClear

LEMMA RecoverKeepersInv ==
    ASSUME IInv, NEW r \in Recoverers, RecoverKeepers(r)
    PROVE  IInv'
<1>1. /\ rec[r] \in RecType /\ rec \in [Recoverers -> RecType]
      /\ tm \in ServerType /\ faults \in Nat
  BY DEF IInv, TypeOK
<1>2. ASSUME NEW i \in rec[r].all \ rec[r].inuse,
             rec' = [rec EXCEPT ![r].at = "keepers",
                                ![r].inuse = @ \cup {i}],
             \/ tm' = KillKeeper(tm, i) /\ NoFault
             \/ UNCHANGED tm /\ Fault
      PROVE  IInv'
  <2> DEFINE x == [rec[r] EXCEPT !.at = "keepers", !.inuse = @ \cup {i}]
  <2>1. i \in Insts BY <1>1 DEF RecType
  <2>2. x \in RecType /\ x.at = "keepers"
    BY <1>1, <2>1 DEF RecType, RecLabels
  <2>3. rec' = [rec EXCEPT ![r] = x] BY <1>1, <1>2
  <2> HIDE DEF x
  <2>4. rec' \in [Recoverers -> RecType] /\ RecInv'
    BY <2>2, <2>3, RecOne DEF RecStLabels
  <2>5. tm' \in ServerType BY <1>1, <1>2, <2>1, KillSessionsType
  <2>6. faults' \in Nat BY <1>2, FaultType DEF IInv
  <2>7. QED BY <2>4, <2>5, <2>6, RecFrame DEF RecoverKeepers
<1>3. ASSUME rec' = [rec EXCEPT ![r] = [@ EXCEPT !.at = "outers"]],
             UNCHANGED <<tm, faults>>
      PROVE  IInv'
  <2>1. RecTo(r, "outers") BY <1>3 DEF RecTo
  <2>2. rec' \in [Recoverers -> RecType] /\ RecInv'
    BY <2>1, RecToInv DEF RecLabels, RecStLabels
  <2>3. QED BY <1>1, <1>3, <2>2, RecFrame DEF RecoverKeepers
<1>4. QED BY <1>2, <1>3 DEF RecoverKeepers

LEMMA RecoverOutersInv ==
    ASSUME IInv, NEW r \in Recoverers, RecoverOuters(r)
    PROVE  IInv'
<1>1. /\ rec[r] \in RecType /\ rec \in [Recoverers -> RecType]
      /\ tm \in ServerType /\ rec[r].at = "outers"
  BY DEF IInv, TypeOK, RecoverOuters
<1>2. PICK i \in rec[r].stale :
        /\ rec' = [rec EXCEPT ![r].stale = @ \ {i}]
        /\ \/ tm' = KillOuter(tm, i) /\ NoFault
           \/ UNCHANGED tm /\ Fault
  BY DEF RecoverOuters
<1> DEFINE x == [rec[r] EXCEPT !.stale = @ \ {i}]
<1>3. i \in Insts BY <1>1 DEF RecType
<1>4. x \in RecType /\ x.at = "outers" BY <1>1 DEF RecType
<1>5. rec' = [rec EXCEPT ![r] = x] BY <1>1, <1>2
<1> HIDE DEF x
<1>6. rec' \in [Recoverers -> RecType] /\ RecInv'
  BY <1>4, <1>5, RecOne DEF RecStLabels
<1>7. tm' \in ServerType BY <1>1, <1>2, <1>3, KillSessionsType
<1>8. faults' \in Nat BY <1>2, FaultType DEF IInv
<1>9. QED BY <1>6, <1>7, <1>8, RecFrame DEF RecoverOuters

LEMMA LaunchInv ==
    ASSUME IInv, NEW r \in Recoverers, Launch(r)
    PROVE  IInv'
<1>1. /\ tm \in ServerType /\ app.inst \in Insts /\ tx \in Nat
      /\ faults \in Nat /\ acts \in Nat
      /\ UNCHANGED <<tx, faults, acts>>
  BY DEF IInv, TypeOK, AppType, Launch
<1>2. rec' \in [Recoverers -> RecType] /\ RecInv'
  BY OffType, RecOne DEF Launch, RecStLabels
<1>3. CASE UNCHANGED <<tm, app, slots, kp>>
  BY <1>1, <1>2, <1>3, RecFrame DEF Launch
<1>4. CASE /\ tm' = StartOuter(tm, app.inst + 1)
           /\ app' = Idle(app.inst + 1)
           /\ slots' = [s \in Slots |-> EmptySlot] /\ kp' = FALSE
           /\ app.inst < MaxInst
  <2>1. app.inst + 1 \in Insts BY <1>1, <1>4, BoundsAssumption DEF Insts
  <2>2. tm' \in ServerType BY <1>1, <1>4, <2>1, KillSessionsType
  <2>3. kp' \in BOOLEAN BY <1>4
  <2>4. QED BY <1>1, <1>2, <1>4, <2>1, <2>2, <2>3, EndInv
<1>5. QED BY <1>3, <1>4 DEF Launch

LEMMA RecoverStepInv ==
    ASSUME IInv, NEW r \in Recoverers, RecoverStep(r)
    PROVE  IInv'
BY RecoverListInv, RecoverOneInv, RecoverObserveInv, RecoverMark1Inv,
   RecoverMark2Inv, RecoverSwapInv, RecoverVerifyInv, RecoverClearInv,
   RecoverKeepersInv, RecoverOutersInv, LaunchInv DEF RecoverStep

-----------------------------------------------------------------------------
(* The environment preserves the invariant *)

\* Nothing but the server, and the count of user actions, changes.
LEMMA ServerFrame ==
    ASSUME IInv, tm' \in ServerType, acts' \in Nat,
           UNCHANGED <<slots, kp, app, rec, tx, faults>>
    PROVE  IInv'
<1>1. TypeOK' BY DEF IInv, TypeOK
<1>2. SlotsInv' /\ AppInv' /\ RecInv'
  BY DEF IInv, SlotsInv, AppInv, RecInv
<1>3. QED BY <1>1, <1>2 DEF IInv

LEMMA EnvironmentInv == IInv /\ Environment => IInv'
<1> SUFFICES ASSUME IInv, Environment PROVE IInv' OBVIOUS
<1>1. /\ tm \in ServerType /\ kp \in BOOLEAN /\ app.inst \in Insts
      /\ tx \in Nat /\ faults \in Nat /\ acts \in Nat
      /\ rec \in [Recoverers -> RecType]
  BY DEF IInv, TypeOK, AppType
<1>2. UserActs => acts' \in Nat BY <1>1 DEF UserActs
<1>3. ASSUME NEW a \in Agents, AgentExits(a) PROVE IInv'
  <2>1. a \in Panes BY DEF Panes
  <2>2. QED BY <1>1, <1>3, <2>1, KillPaneType, ServerFrame DEF AgentExits
<1>4. ASSUME NEW a \in Agents, UserAttaches(a) PROVE IInv'
  <2> DEFINE e == IF a \in tm.ext THEN tm.ext \ {a} ELSE tm.ext \cup {a}
  <2>1. e \in SUBSET Agents BY <1>1 DEF ServerType
  <2>2. tm' = [tm EXCEPT !.ext = e] BY <1>4 DEF UserAttaches
  <2> HIDE DEF e
  <2>3. tm' \in ServerType BY <1>1, <2>1, <2>2 DEF ServerType
  <2>4. QED BY <1>2, <1>4, <2>3, ServerFrame DEF UserAttaches
<1>5. ASSUME NEW a \in Agents, UserKillsSession(a) PROVE IInv'
  BY <1>1, <1>2, <1>5, KillAgentSessionType, ServerFrame DEF UserKillsSession
<1>6. ASSUME NEW i \in Insts, UserKillsOuter(i) PROVE IInv'
  BY <1>1, <1>2, <1>6, KillSessionsType, ServerFrame DEF UserKillsOuter
<1>7. ASSUME NEW p \in Pads, NestedClientEnds(p) PROVE IInv'
  <2>1. p \in Panes BY DEF Panes
  <2>2. QED BY <1>1, <1>7, <2>1, KillPaneType, ServerFrame DEF NestedClientEnds
<1>8. ASSUME AppKilled PROVE IInv'
  <2>1. tm' \in ServerType BY <1>1, <1>8, KillSessionsType DEF AppKilled
  <2>2. RecInv' BY <1>8 DEF AppKilled, IInv, RecInv
  <2>3. QED BY <1>1, <1>8, <2>1, <2>2, EndInv DEF AppKilled
<1>9. ASSUME NEW r \in Recoverers, RecovererKilled(r) PROVE IInv'
  <2>1. rec' \in [Recoverers -> RecType] /\ RecInv'
    BY <1>9, OffType, RecOne DEF RecovererKilled, RecStLabels
  <2>2. TypeOK' BY <1>2, <1>9, <2>1 DEF IInv, TypeOK, RecovererKilled
  <2>3. SlotsInv' /\ AppInv'
    BY <1>9 DEF IInv, SlotsInv, AppInv, RecovererKilled
  <2>4. QED BY <2>1, <2>2, <2>3 DEF IInv
<1>10. QED
  BY <1>3, <1>4, <1>5, <1>6, <1>7, <1>8, <1>9 DEF Environment

-----------------------------------------------------------------------------
(* The theorems *)

LEMMA RequestInv == IInv /\ Request => IInv'
BY AttachInv, VacateInv, KillInv, LeaveInv DEF Request

LEMMA RefreshInv == IInv /\ Refresh => IInv'
BY ReapDeadInv, ExternalClientInv DEF Refresh

LEMMA AppStepInv == IInv /\ AppStep => IInv'
BY CheckHomeInv, MarkReturningHomeInv, MarkReturningDisplayInv, SwapHomeInv,
   VerifyHomeInv, ClearMarkerInv, AfterHomeInv, AttachStepInv, BlankInv,
   ClosePaneInv, CloseAllInv, ExitDropsKeeperInv, ByeInv, KillSessionInv
DEF AppStep

LEMMA InitInv == Init => IInv
<1> SUFFICES ASSUME Init PROVE IInv OBVIOUS
<1>1. 1 \in Insts BY BoundsAssumption DEF Insts
<1>2. /\ app \in AppType /\ app.at = "idle" /\ app.for = "none"
  BY <1>1, IdleType DEF Init, Idle
<1>3. rec \in [Recoverers -> RecType] /\ \A r \in Recoverers : rec[r].at = "off"
  BY OffType DEF Init
<1>4. slots \in [Slots -> SlotType] /\ \A s \in Slots : slots[s] = EmptySlot
  BY EmptySlotType DEF Init
<1>5. TypeOK BY <1>2, <1>3, <1>4, FreshServerType DEF Init, TypeOK
<1>6. SlotsInv BY <1>4, EmptySlotType, PanesAssumption DEF SlotsInv
<1>7. AppInv BY <1>2 DEF AppInv, StLabels, FreeLabels, AttachLabels
<1>8. RecInv BY <1>3 DEF RecInv, RecStLabels
<1>9. QED BY <1>5, <1>6, <1>7, <1>8 DEF IInv

LEMMA NextInv == IInv /\ [Next]_vars => IInv'
<1> SUFFICES ASSUME IInv, [Next]_vars PROVE IInv' OBVIOUS
<1>1. CASE Next
  BY <1>1, RequestInv, RefreshInv, AppStepInv, RecoverStepInv, EnvironmentInv
  DEF Next
<1>2. CASE UNCHANGED vars
  BY <1>2, ServerFrame DEF vars, IInv, TypeOK
<1>3. QED BY <1>1, <1>2

LEMMA Invariance == Spec => []IInv
BY InitInv, NextInv, PTL DEF Spec

\* Whatever is interleaved, killed or fails, and however many launchers
\* recover at once, every marker read back is a whole record of panes,
\* windows and slots that exist, and every operation holds what its next
\* command needs (the models of the transport's Optional fields, never None
\* where the code dereferences them).
THEOREM TypeCorrect == Spec => []TypeOK
<1>1. IInv => TypeOK BY DEF IInv
<1>2. QED BY <1>1, Invariance, PTL

\* The pane that respawn-pane -k or kill-pane is aimed at is never an agent's,
\* in any state of any number of processes, failures and overlapping
\* recoveries: a slot gives up the agent's pane id before it is reused.
THEOREM DestructionIsSafe == Spec => []NoDestructiveTarget
<1>1. IInv => NoDestructiveTarget
  BY DEF IInv, SlotsInv, AppInv, NoDestructiveTarget, FreeLabels, ToClose
<1>2. QED BY <1>1, Invariance, PTL

-----------------------------------------------------------------------------
(***************************************************************************)
(* Where the agents are, and what knows of it.                             *)
(*                                                                         *)
(* A transaction is known from up to four records: its two markers in      *)
(* window options, the swap_state of a slot (or the local of the operation *)
(* that is about to store it there), and what a launcher has read.  Any of *)
(* them may be stale.  The invariant relates all records of a transaction  *)
(* to each other and to the places of its two panes.                       *)
(*                                                                         *)
(* Its parts are operators of the server t, the newest instance i, what    *)
(* the slots of that instance hold (transactions e, panes q), the records  *)
(* d that operations and launchers work on, and the last transaction x, so *)
(* that one lemma for each command serves every action that runs it.       *)
(***************************************************************************)

Home(a) == {<<a, 1>>, <<a, 2>>}
Displays == {Disp(i) : i \in Insts}

\* The pane of transaction m is alive; it is on display; and the marker in the
\* display window is m's.
Live(t, m) == t.at[m.real] \in Windows
Shown(t, m) == t.at[m.real] = Disp(m.inst)
Marked(t, m) == LET k == t.opt[Disp(m.inst)][m.slot] IN k # None /\ k.tx = m.tx

\* Records of one transaction, and records that could move the same pane.
Twins(m, n) ==
    m.agent = n.agent /\ m.real = n.real /\ m.inst = n.inst /\ m.slot = n.slot
Meets(m, n) == m.agent = n.agent \/ m.real = n.real

\* The markers, what the slots of a live process hold, both, and those of the
\* records d whose process is gone.
Stored(t) == {t.opt[w][s] : w \in Windows, s \in Slots} \ {None}
Held(t, i, e) == IF t.own[i] THEN {e[s] : s \in Slots} \ {None} ELSE {}
Kept(t, i, e) == Stored(t) \cup Held(t, i, e)
Dead(t, d) == {m \in d : ~t.own[m.inst]}

\* An agent is in its home, in a display window or gone, and only the newest
\* instance can still run.
PlacesOK(t, i) ==
    /\ \A a \in Agents : t.at[a] \in Home(a) \cup Displays \cup {Gone}
    /\ \A p \in Panes, j \in Insts : t.at[p] = Disp(j) => j <= i
    /\ \A j \in Insts : t.own[j] => j = i

\* A record is of an agent's pane, or of the pane of a session recreated after
\* its agent had died, and of a placeholder.
RecordOK(t, i, x, m) ==
    /\ m \in SwapState /\ m.home \in Home(m.agent) /\ m.ph \in Pads /\ m.real # m.ph
    /\ m.real = m.agent \/ (m.real \in Pads /\ t.at[m.agent] = Gone)
    /\ t.at[m.real] \in Home(m.agent) \cup Displays \cup {Gone}
    /\ m.tx <= x /\ m.inst <= i
RecordsOK(t, i, e, d, x) == \A m \in Kept(t, i, e) \cup d : RecordOK(t, i, x, m)

\* Records of one transaction differ in phase, home and placeholder at most.
Agree(t, i, e, d) ==
    \A m, n \in Kept(t, i, e) \cup d :
        /\ m.tx = n.tx => Twins(m, n)
        /\ Live(t, m) /\ m.real = n.real => m.agent = n.agent

\* A marker of a display window is of that window's instance, in its slot.
WhereSet(t) ==
    \A i \in Insts, s \in Slots :
        LET k == t.opt[Disp(i)][s] IN k # None => k.inst = i /\ k.slot = s

\* What is on display is found by the marker of its display window.
ShownMarked(t, i, e, d) ==
    \A m \in Kept(t, i, e) \cup Dead(t, d) : Shown(t, m) => Marked(t, m)

\* No two transactions can move one agent: a stale marker is of a dead pane.
One(t, i, e) ==
    \A m, n \in Kept(t, i, e) :
        Live(t, m) /\ (Live(t, n) \/ n \in Held(t, i, e)) /\ Meets(m, n)
            => m.tx = n.tx
OneDead(t, d) ==
    \A m \in Dead(t, d), n \in Dead(t, d) \cup Dead(t, Stored(t)) :
        Live(t, m) /\ Live(t, n) /\ Meets(m, n) => m.tx = n.tx

\* A live process holds every transaction that is in its window.
ShownHeld(t, i, e) ==
    t.own[i] => \A m \in Stored(t) : m.inst = i /\ Shown(t, m)
                   => e[m.slot] # None /\ e[m.slot].tx = m.tx

\* The two properties: who is away is marked, and kept.
AgentsOK(t) ==
    \A a \in Agents, i \in Insts : t.at[a] = Disp(i) =>
        /\ t.keep[i]
        /\ \E s \in Slots : t.opt[Disp(i)][s] # None /\ t.opt[Disp(i)][s].real = a

\* A slot's own pane is a placeholder that no other slot has and no transaction
\* moves as its agent; it is in the display window, or in the agent's home
\* while the slot holds a transaction.
PadOK(t, i, e, q, d, s) ==
    /\ e[s] # None => /\ e[s].inst = i /\ e[s].slot = s /\ q[s] = e[s].ph
                      /\ t.at[q[s]] \in Home(e[s].agent) \cup {Disp(i), Gone}
    /\ e[s] = None /\ q[s] # None => t.at[q[s]] \in {Disp(i), Gone}
    /\ q[s] # None => /\ q[s] \in Pads
                      /\ \A m \in Kept(t, i, e) \cup d : Live(t, m) => m.real # q[s]
                      /\ \A o \in Slots \ {s} : q[o] # q[s]
SlotsOK(t, i, e, q, d) == t.own[i] => \A s \in Slots : PadOK(t, i, e, q, d, s)

Core(t, i, e, q, d, x) ==
    /\ PlacesOK(t, i) /\ RecordsOK(t, i, e, d, x) /\ Agree(t, i, e, d)
    /\ WhereSet(t) /\ ShownMarked(t, i, e, d) /\ One(t, i, e)
    /\ OneDead(t, d) /\ ShownHeld(t, i, e) /\ AgentsOK(t)
    /\ SlotsOK(t, i, e, q, d)

\* Where an operation has a transaction that is not in the slot yet, ends the
\* one of its slot, or is about to begin one.
TxLabels == {"prep1", "prep2", "swapout", "verify", "back", "verifyback",
             "commit1", "commit2"}
ReturnLabels == {"check", "mark1", "mark2", "swaphome", "verifyhome"}
NewLabels == {"place", "inspect", "keeper"}

\* What a slot holds: its swap_state, or the transaction under way for it, and
\* with it its own pane.
Transaction(sl, ap, s) == IF ap.slot = s /\ ap.at \in TxLabels THEN ap.st ELSE sl[s].st
Eff(sl, ap) == [s \in Slots |-> Transaction(sl, ap, s)]
Pad(sl, ap) == [s \in Slots |-> IF Transaction(sl, ap, s) = None THEN sl[s].pane
                                ELSE Transaction(sl, ap, s).ph]

\* The records under way elsewhere: of a clear, and of the launchers.
RowsOf(R) == R.rows \cup (IF R.at \in RecStLabels THEN {R.st} ELSE {})
Clearing(t, ap) == IF t.own[ap.inst] /\ ap.at = "clear" THEN {ap.st} ELSE {}
Rows(t, ap, rc) == Clearing(t, ap) \cup UNION {RowsOf(rc[r]) : r \in Recoverers}

\* No transaction can still move the agent.
Unused(t, e, a) ==
    /\ \A m \in Stored(t) : Live(t, m) => m.agent # a
    /\ \A s \in Slots : e[s] # None => e[s].agent # a

\* Where a transaction of the process has its two panes: swapped, or not.
Out(t, m)  == /\ t.at[m.real] \in {Disp(m.inst), Gone}
              /\ t.at[m.ph] \in Home(m.agent) \cup {Gone}
Back(t, m) == /\ t.at[m.real] \in Home(m.agent) \cup {Gone}
              /\ t.at[m.ph] \in {Disp(m.inst), Gone}

\* What the operation in progress may rely on, at each of its labels.
AppOK(t, sl, ap, x) ==
    LET m == ap.st
        i == ap.inst
    IN t.own[i] =>
    /\ \A s \in Slots : sl[s].st # None => sl[s].st.agent = sl[s].agent
    /\ ap.at \in ReturnLabels => sl[ap.slot].st = m
    /\ ap.at \in {"mark1", "mark2", "swaphome"} => Out(t, m)
    /\ ap.at = "clear" =>
         /\ ~Shown(t, m) /\ m.inst = i /\ m.slot = ap.slot
         /\ ap.for # "reaped" => t.at[m.ph] \in {Disp(i), Gone}
         /\ sl[ap.slot].st = m \/ (sl[ap.slot].st = None /\ sl[ap.slot].pane = m.ph)
    /\ ap.at \in {"keeper"} \cup TxLabels =>
         /\ m.inst = i /\ m.slot = ap.slot /\ m.agent = ap.agent
         /\ sl[ap.slot].pane = m.ph
    /\ ap.at = "keeper" =>
         /\ m.tx = x + 1 /\ t.at[m.real] \in Home(m.agent) \cup {Gone}
         /\ m.home \in Home(m.agent) /\ m.ph \in Pads
         /\ m.real = m.agent \/ (m.real \in Pads /\ t.at[m.agent] = Gone)
    /\ ap.at \in {"prep1", "prep2", "swapout"} => Back(t, m) /\ t.keep[i]
    /\ ap.at \in {"swapout", "verify", "back", "commit1", "commit2"} => Marked(t, m)
    /\ ap.at \in {"verify", "back", "commit1", "commit2"} => Out(t, m)
    /\ ap.at = "verifyback" => Back(t, m)
    /\ ap.at \in ReturnLabels \cup {"clear", "home", "gate"} /\ ap.for = "attach" =>
         \A o \in Slots \ {ap.slot} : sl[o].agent # ap.agent
    /\ ap.at \in NewLabels => Unused(t, Eff(sl, ap), ap.agent)

\* What a launcher at work may rely on: a live process is one it leaves alone,
\* and each agent that a dead one left on display is in a row it still has, or
\* keeps the keeper of that window from being killed.
LauncherOK(t, R) ==
    LET m == R.st IN
    /\ \A i \in Insts : t.own[i] =>
         /\ i \in R.ids /\ t.outer[i] /\ i \notin R.stale
         /\ i \in R.all => i \in R.inuse \/ \E n \in R.rows : n.inst = i
    /\ \A a \in Agents, i \in Insts : ~t.own[i] /\ t.at[a] = Disp(i) =>
         i \in R.inuse \/ \E n \in R.rows : n.real = a /\ n.inst = i
    /\ R.at \in RecStLabels => ~t.own[m.inst] /\ \E n \in R.rows : n.tx = m.tx
    /\ R.at \in {"observe", "mark1", "mark2", "swap"} =>
         /\ t.at[m.real] \in {Disp(m.inst), Gone}
         /\ WindowUp(t, Disp(m.inst)) => Marked(t, m)
    /\ R.at \in {"mark1", "mark2", "swap"} /\ Live(t, m) =>
         t.at[m.ph] \in Home(m.agent) \cup {Gone}
    /\ R.at = "clear" => ~Shown(t, m)
    /\ R.at \in {"keepers", "outers"} => R.rows = {}

\* Launchers work one at a time.
RecOK(t, rc) ==
    \A r \in Recoverers :
        IF rc[r].at = "off" THEN rc[r] = Off
        ELSE /\ LauncherOK(t, rc[r])
             /\ \A o \in Recoverers \ {r} : rc[o].at = "off"

-----------------------------------------------------------------------------
(* Facts about names *)

\* Every place an agent's pane can be in.
Reach(a) == Home(a) \cup Displays \cup {Gone}

LEMMA WindowFacts ==
    /\ \A i \in Insts : Disp(i) \in Windows /\ Disp(i) # Gone /\ Disp(i) # Unborn
    /\ \A i, j \in Insts : Disp(i) = Disp(j) => i = j
    /\ \A a \in Agents : Home(a) \subseteq Windows
    /\ \A a \in Agents, i \in Insts : Disp(i) \notin Home(a)
    /\ \A a, b \in Agents, w \in Windows : w \in Home(a) /\ w \in Home(b) => a = b
    /\ Gone \notin Windows /\ Unborn \notin Windows /\ Gone # Unborn
    /\ \A a \in Agents : Gone \notin Home(a) /\ Unborn \notin Home(a)
<1>1. \A i \in Insts : i \in Nat /\ i # 0 BY DEF Insts
<1>2. QED
  BY <1>1, PanesAssumption DEF Windows, HomeWindows, Disp, Home, Gone, Unborn

LEMMA ReachFacts ==
    ASSUME NEW a \in Agents
    PROVE  /\ Home(a) \subseteq Reach(a) /\ Gone \in Reach(a) /\ Unborn \notin Reach(a)
           /\ \A i \in Insts : Disp(i) \in Reach(a)
           /\ \A w \in Reach(a) : w \in Windows \/ w = Gone
           /\ \A b \in Agents, w \in Reach(a) : w \in Home(b) => a = b
<1>1. Home(a) \subseteq Reach(a) /\ Gone \in Reach(a) BY DEF Reach
<1>2. \A i \in Insts : Disp(i) \in Reach(a) BY DEF Reach, Displays
<1>3. ASSUME NEW w \in Reach(a)
      PROVE  w \in Home(a) \/ w = Gone \/ \E i \in Insts : w = Disp(i)
  BY DEF Reach, Displays
<1>4. QED BY <1>1, <1>2, <1>3, WindowFacts

LEMMA StateFacts ==
    ASSUME NEW m \in SwapState
    PROVE  /\ m.agent \in Agents /\ m.real \in Panes /\ m.inst \in Insts
           /\ m.slot \in Slots /\ m.tx \in Nat /\ m.home \in Windows
           /\ m.ph \in Panes /\ m # None
BY PanesAssumption DEF SwapState

LEMMA ServerFacts ==
    ASSUME NEW t \in ServerType
    PROVE  /\ \A p \in Panes : t.at[p] \in Windows \cup {Gone, Unborn}
           /\ \A w \in Windows, s \in Slots : t.opt[w][s] \in SwapState \cup {None}
           /\ \A i \in Insts : /\ t.own[i] \in BOOLEAN /\ t.keep[i] \in BOOLEAN
                              /\ t.outer[i] \in BOOLEAN
           /\ \A a \in Agents : t.gen[a] \in {1, 2}
BY DEF ServerType

LEMMA StoredFacts ==
    ASSUME NEW t \in ServerType
    PROVE  /\ \A m \in Stored(t) :
                m \in SwapState /\ \E w \in Windows, s \in Slots : t.opt[w][s] = m
           /\ \A w \in Windows, s \in Slots :
                t.opt[w][s] # None => t.opt[w][s] \in Stored(t)
<1>1. \A w \in Windows, s \in Slots : t.opt[w][s] \in SwapState \cup {None}
  BY ServerFacts
<1>2. QED BY <1>1 DEF Stored

\* The marker that is where a marked transaction has one.
MarkerOf(t, m) == t.opt[Disp(m.inst)][m.slot]
LEMMA MarkedFacts ==
    ASSUME NEW t \in ServerType, NEW m \in SwapState, Marked(t, m)
    PROVE  MarkerOf(t, m) \in Stored(t) /\ MarkerOf(t, m).tx = m.tx
BY StateFacts, WindowFacts, StoredFacts DEF Marked, MarkerOf

-----------------------------------------------------------------------------
(* What a command leaves of the core: the commands that end panes *)

LEMMA CoreFacts ==
    ASSUME NEW t \in ServerType, NEW i \in Insts, NEW e, NEW q, NEW d, NEW x,
           Core(t, i, e, q, d, x)
    PROVE  /\ \A m \in Kept(t, i, e) \cup d :
                /\ RecordOK(t, i, x, m) /\ m \in SwapState
                /\ t.at[m.real] \in Reach(m.agent)
           /\ \A m, n \in Kept(t, i, e) \cup d :
                /\ m.tx = n.tx => Twins(m, n)
                /\ Live(t, m) /\ m.real = n.real => m.agent = n.agent
           /\ \A m \in Kept(t, i, e) \cup Dead(t, d) : Shown(t, m) => Marked(t, m)
           /\ Stored(t) \subseteq Kept(t, i, e) /\ Held(t, i, e) \subseteq Kept(t, i, e)
BY DEF Core, RecordsOK, RecordOK, Agree, ShownMarked, Reach, Kept

\* A command that only ends panes, and what ends with them.
Shrinks(t, u) ==
    /\ \A p \in Panes : u.at[p] = t.at[p] \/ u.at[p] = Gone
    /\ \A j \in Insts : u.own[j] => t.own[j]
    /\ \A w \in Windows, s \in Slots : u.opt[w][s] = t.opt[w][s] \/ u.opt[w][s] = None
    /\ \A j \in Insts, s \in Slots :
         u.own[j] \/ (\E p \in Panes : u.at[p] = Disp(j))
            => u.opt[Disp(j)][s] = t.opt[Disp(j)][s]
    /\ \A a \in Agents, j \in Insts : u.at[a] = Disp(j) => u.keep[j]

LEMMA ShrinkSets ==
    ASSUME NEW t \in ServerType, NEW u \in ServerType, Shrinks(t, u), NEW i \in Insts,
           NEW e, NEW d
    PROVE  /\ Stored(u) \subseteq Stored(t) /\ Held(u, i, e) \subseteq Held(t, i, e)
           /\ Kept(u, i, e) \subseteq Kept(t, i, e)
           /\ \A m \in SwapState : /\ Live(u, m) => Live(t, m)
                                   /\ Shown(u, m) => Shown(t, m)
                                   /\ Shown(u, m) /\ Marked(t, m) => Marked(u, m)
                                   /\ Shown(u, m) => Live(u, m)
                                   /\ u.own[m.inst] /\ Marked(t, m) => Marked(u, m)
<1>1. Stored(u) \subseteq Stored(t)
  <2>1. ASSUME NEW m \in Stored(u) PROVE m \in Stored(t)
    <3>1. PICK w \in Windows, s \in Slots : u.opt[w][s] = m BY StoredFacts
    <3>2. m # None BY StoredFacts, StateFacts
    <3>3. t.opt[w][s] = m BY <3>1, <3>2 DEF Shrinks
    <3>4. QED BY <3>2, <3>3, StoredFacts
  <2>2. QED BY <2>1
<1>2. Held(u, i, e) \subseteq Held(t, i, e) BY DEF Held, Shrinks
<1>3. Kept(u, i, e) \subseteq Kept(t, i, e) BY <1>1, <1>2 DEF Kept
<1>4. ASSUME NEW m \in SwapState
      PROVE  /\ Live(u, m) => Live(t, m)
             /\ Shown(u, m) => Shown(t, m)
             /\ Shown(u, m) => Live(u, m)
             /\ Shown(u, m) /\ Marked(t, m) => Marked(u, m)
             /\ u.own[m.inst] /\ Marked(t, m) => Marked(u, m)
  <2>1. m.real \in Panes /\ m.inst \in Insts /\ m.slot \in Slots BY StateFacts
  <2>2. u.at[m.real] = t.at[m.real] \/ u.at[m.real] = Gone BY <2>1 DEF Shrinks
  <2>3. /\ Live(u, m) => Live(t, m)
        /\ Shown(u, m) => Shown(t, m)
        /\ Shown(u, m) => Live(u, m)
    BY <2>1, <2>2, WindowFacts DEF Live, Shown
  <2>4. u.own[m.inst] \/ Shown(u, m) => MarkerOf(u, m) = MarkerOf(t, m)
    BY <2>1 DEF Shrinks, Shown, MarkerOf
  <2>5. QED BY <2>3, <2>4 DEF Marked, MarkerOf
<1>5. QED BY <1>1, <1>2, <1>3, <1>4

LEMMA ShrinkCore ==
    ASSUME NEW t \in ServerType, NEW u \in ServerType, NEW i \in Insts,
           NEW e, NEW q, NEW d, NEW x,
           Core(t, i, e, q, d, x), Shrinks(t, u), d = {} \/ \A j \in Insts : t.own[j] => u.own[j]
    PROVE  Core(u, i, e, q, d, x)
<1>1. /\ Stored(u) \subseteq Stored(t) /\ Held(u, i, e) \subseteq Held(t, i, e)
      /\ Kept(u, i, e) \subseteq Kept(t, i, e)
  BY ShrinkSets
<1>3. \A m \in Kept(t, i, e) \cup d : m \in SwapState BY CoreFacts
<1>2. Dead(u, d) \subseteq Dead(t, d) BY <1>3, StateFacts DEF Dead
<1>4. PlacesOK(u, i)
  BY WindowFacts DEF Core, PlacesOK, Shrinks, Panes
<1>5. RecordsOK(u, i, e, d, x)
  <2>1. ASSUME NEW m \in Kept(u, i, e) \cup d PROVE RecordOK(u, i, x, m)
    <3>1. m \in Kept(t, i, e) \cup d BY <1>1
    <3>2. RecordOK(t, i, x, m) /\ m \in SwapState BY <3>1, CoreFacts
    <3>3. m.real \in Panes /\ m.agent \in Panes BY <3>2, StateFacts DEF Panes
    <3>4. QED BY <3>2, <3>3 DEF RecordOK, Shrinks
  <2>2. QED BY <2>1 DEF RecordsOK
<1>6. Agree(u, i, e, d)
  <2>1. \A m, n \in Kept(t, i, e) \cup d :
           /\ m.tx = n.tx => Twins(m, n)
           /\ Live(t, m) /\ m.real = n.real => m.agent = n.agent
    BY CoreFacts
  <2>2. \A m \in Kept(t, i, e) \cup d : Live(u, m) => Live(t, m) BY <1>3, ShrinkSets
  <2>3. QED BY <1>1, <2>1, <2>2 DEF Agree
<1>7. WhereSet(u)
  <2>1. ASSUME NEW j \in Insts, NEW s \in Slots, u.opt[Disp(j)][s] # None
        PROVE  u.opt[Disp(j)][s].inst = j /\ u.opt[Disp(j)][s].slot = s
    <3>1. u.opt[Disp(j)][s] = t.opt[Disp(j)][s] BY <2>1, WindowFacts DEF Shrinks
    <3>2. QED BY <2>1, <3>1 DEF Core, WhereSet
  <2>2. QED BY <2>1 DEF WhereSet
<1>8. ShownMarked(u, i, e, d)
  <2>1. ASSUME NEW m \in Kept(u, i, e) \cup Dead(u, d), Shown(u, m) PROVE Marked(u, m)
    <3>1. m \in Kept(t, i, e) \cup Dead(t, d) BY <1>1, <1>2
    <3>2. m \in SwapState BY <1>3, <3>1 DEF Dead
    <3>3. QED BY <2>1, <3>1, <3>2, ShrinkSets, CoreFacts
  <2>2. QED BY <2>1 DEF ShownMarked
<1>9. One(u, i, e)
  <2>1. \A m \in Kept(t, i, e) : Live(u, m) => Live(t, m) BY <1>3, ShrinkSets
  <2>2. QED BY <1>1, <2>1 DEF Core, One
<1>10. OneDead(u, d)
  <2>1. \A m \in Kept(t, i, e) \cup d : Live(u, m) => Live(t, m) BY <1>3, ShrinkSets
  <2>2. Stored(t) \subseteq Kept(t, i, e) /\ Dead(t, d) \subseteq d BY DEF Kept, Dead
  <2>3. CASE d = {} BY <2>3 DEF OneDead, Dead
  <2>4. CASE \A j \in Insts : t.own[j] => u.own[j]
    <3>1. Dead(u, Stored(u)) \subseteq Dead(t, Stored(t))
      BY <1>1, <2>4, StoredFacts, StateFacts DEF Dead
    <3>2. \A m \in Dead(t, Stored(t)) : m \in Stored(t) BY DEF Dead
    <3>3. QED BY <1>2, <2>1, <2>2, <3>1, <3>2 DEF Core, OneDead
  <2>5. QED BY <2>3, <2>4
<1>11. ShownHeld(u, i, e)
  <2>1. ASSUME u.own[i], NEW m \in Stored(u), m.inst = i, Shown(u, m)
        PROVE  e[m.slot] # None /\ e[m.slot].tx = m.tx
    <3>1. t.own[i] /\ m \in Stored(t) BY <1>1, <2>1 DEF Shrinks
    <3>2. Shown(t, m) BY <2>1, <3>1, ShrinkSets, StoredFacts
    <3>3. QED BY <2>1, <3>1, <3>2 DEF Core, ShownHeld
  <2>2. QED BY <2>1 DEF ShownHeld
<1>12. AgentsOK(u)
  <2>1. ASSUME NEW a \in Agents, NEW j \in Insts, u.at[a] = Disp(j)
        PROVE  /\ u.keep[j]
               /\ \E s \in Slots : u.opt[Disp(j)][s] # None /\ u.opt[Disp(j)][s].real = a
    <3>1. a \in Panes BY DEF Panes
    <3>2. t.at[a] = Disp(j) BY <2>1, <3>1, WindowFacts DEF Shrinks
    <3>3. \A s \in Slots : u.opt[Disp(j)][s] = t.opt[Disp(j)][s] BY <2>1, <3>1 DEF Shrinks
    <3>4. u.keep[j] BY <2>1 DEF Shrinks
    <3>5. QED BY <3>2, <3>3, <3>4 DEF Core, AgentsOK
  <2>2. QED BY <2>1 DEF AgentsOK
<1>13. SlotsOK(u, i, e, q, d)
  <2>1. ASSUME u.own[i], NEW s \in Slots PROVE PadOK(u, i, e, q, d, s)
    <3>1. PadOK(t, i, e, q, d, s) BY <2>1 DEF Core, SlotsOK, Shrinks
    <3>2. \A m \in Kept(t, i, e) \cup d : Live(u, m) => Live(t, m) BY <1>3, ShrinkSets
    <3>3. q[s] # None => u.at[q[s]] = t.at[q[s]] \/ u.at[q[s]] = Gone
      BY <3>1 DEF PadOK, Shrinks, Panes
    <3>4. e[s] # None => q[s] # None
      <4>1. ASSUME e[s] # None PROVE q[s] # None
        <5>1. e[s] \in Held(t, i, e) BY <2>1, <4>1 DEF Held, Shrinks
        <5>2. e[s] \in SwapState BY <5>1, <1>3 DEF Kept
        <5>3. q[s] \in Pads BY <3>1, <4>1, <5>1, CoreFacts DEF PadOK, RecordOK
        <5>4. QED BY <5>3, PanesAssumption DEF Panes
      <4>2. QED BY <4>1
    <3>5. QED BY <1>1, <3>1, <3>2, <3>3, <3>4 DEF PadOK
  <2>2. QED BY <2>1 DEF SlotsOK
<1>14. QED
  BY <1>4, <1>5, <1>6, <1>7, <1>8, <1>9, <1>10, <1>11, <1>12, <1>13 DEF Core

\* What the commands that end something do before tmux settles.
Cuts(t, v) ==
    /\ \A p \in Panes : v.at[p] = t.at[p] \/ v.at[p] = Gone
    /\ \A j \in Insts : v.own[j] => t.own[j]
    /\ v.opt = t.opt
    /\ \A a \in Agents, j \in Insts : v.at[a] = Disp(j) => v.keep[j]

\* What tmux does when it settles.
Settled(v, u) ==
    /\ \A p \in Panes : u.at[p] = v.at[p] \/ u.at[p] = Gone
    /\ \A j \in Insts : /\ u.own[j] => v.own[j]
                        /\ u.keep[j] => v.keep[j]
                        /\ v.own[j] /\ (v.outer[j] \/ v.keep[j]) =>
                             u.own[j] /\ (u.keep[j] <=> v.keep[j]) /\ (u.outer[j] <=> v.outer[j])
                        /\ u.own[j] => (u.keep[j] <=> v.keep[j])
    /\ \A p \in Panes, j \in Insts : u.at[p] = Disp(j) => (u.keep[j] <=> v.keep[j])
    /\ \A w \in Windows, s \in Slots :
          /\ u.opt[w][s] = v.opt[w][s] \/ u.opt[w][s] = None
          /\ WindowUp(u, w) => u.opt[w][s] = v.opt[w][s]

LEMMA SettleFields ==
    ASSUME NEW v \in ServerType
    PROVE  Settled(v, Settle(v))
<1> DEFINE dead == {i \in Insts : \/ ~v.outer[i] /\ ~v.keep[i]
                                  \/ ~v.own[i] /\ PanesIn(v, Disp(i)) = {}}
           t1 == [v EXCEPT
                 !.at = [p \in Panes |->
                           IF \E i \in dead : v.at[p] = Disp(i)
                           THEN Gone ELSE v.at[p]],
                 !.outer = [i \in Insts |-> v.outer[i] /\ i \notin dead],
                 !.keep  = [i \in Insts |-> v.keep[i] /\ i \notin dead],
                 !.own   = [i \in Insts |-> v.own[i] /\ i \notin dead]]
           u == Settle(v)
<1>0. u = [t1 EXCEPT
           !.opt = [w \in Windows |-> IF WindowUp(t1, w) THEN v.opt[w]
                                      ELSE [s \in Slots |-> None]],
           !.shows = [p \in Pads |-> IF Alive(t1, p) THEN v.shows[p]
                                     ELSE "idle"],
           !.ext = {a \in v.ext : SessionUp(t1, a)}]
  BY DEF Settle
<1>1. /\ t1.at = [p \in Panes |-> IF \E i \in dead : v.at[p] = Disp(i)
                                  THEN Gone ELSE v.at[p]]
      /\ t1.outer = [i \in Insts |-> v.outer[i] /\ i \notin dead]
      /\ t1.keep = [i \in Insts |-> v.keep[i] /\ i \notin dead]
      /\ t1.own = [i \in Insts |-> v.own[i] /\ i \notin dead]
  BY DEF ServerType
<1>2. /\ u.at = t1.at /\ u.outer = t1.outer /\ u.keep = t1.keep /\ u.own = t1.own
      /\ u.opt = [w \in Windows |-> IF WindowUp(t1, w) THEN v.opt[w]
                                    ELSE [s \in Slots |-> None]]
  BY <1>0 DEF ServerType
<1> HIDE DEF u, t1
<1>3. \A w \in Windows : WindowUp(u, w) <=> WindowUp(t1, w)
  BY <1>2 DEF WindowUp, PanesIn
<1>5. \A p \in Panes : u.at[p] = v.at[p] \/ u.at[p] = Gone BY <1>1, <1>2
<1>8. \A j \in Insts : v.own[j] /\ (v.outer[j] \/ v.keep[j]) => j \notin dead
  OBVIOUS
<1> HIDE DEF dead
<1>6. \A j \in Insts : j \notin dead =>
         /\ u.own[j] <=> v.own[j]
         /\ u.keep[j] <=> v.keep[j]
         /\ u.outer[j] <=> v.outer[j]
  BY <1>1, <1>2
<1>7. \A j \in Insts : (u.own[j] => v.own[j] /\ j \notin dead) /\ (u.keep[j] => v.keep[j])
  BY <1>1, <1>2
<1>9. \A p \in Panes, j \in Insts : u.at[p] = Disp(j) => j \notin dead
  BY <1>1, <1>2, WindowFacts
<1>10. \A w \in Windows, s \in Slots :
          /\ u.opt[w][s] = v.opt[w][s] \/ u.opt[w][s] = None
          /\ WindowUp(u, w) => u.opt[w][s] = v.opt[w][s]
  BY <1>2, <1>3
<1>11. QED BY <1>5, <1>6, <1>7, <1>8, <1>9, <1>10 DEF u, Settled

LEMMA SettleShrinks ==
    ASSUME NEW t \in ServerType, NEW v \in ServerType, NEW u, Cuts(t, v), Settled(v, u)
    PROVE  Shrinks(t, u)
<1>1. \A p \in Panes : u.at[p] = t.at[p] \/ u.at[p] = Gone BY DEF Cuts, Settled
<1>2. \A j \in Insts : u.own[j] => t.own[j] BY DEF Cuts, Settled
<1>3. \A w \in Windows, s \in Slots : u.opt[w][s] = t.opt[w][s] \/ u.opt[w][s] = None
  BY DEF Cuts, Settled
<1>4. ASSUME NEW j \in Insts, NEW s \in Slots, u.own[j] \/ (\E p \in Panes : u.at[p] = Disp(j))
      PROVE  u.opt[Disp(j)][s] = t.opt[Disp(j)][s]
  <2>1. WindowUp(u, Disp(j)) /\ Disp(j) \in Windows
    BY <1>4, WindowFacts DEF WindowUp, PanesIn
  <2>2. QED BY <2>1 DEF Cuts, Settled
<1>5. ASSUME NEW a \in Agents, NEW j \in Insts, u.at[a] = Disp(j) PROVE u.keep[j]
  <2>1. a \in Panes BY DEF Panes
  <2>2. u.keep[j] <=> v.keep[j] BY <1>5, <2>1 DEF Settled
  <2>3. v.at[a] = Disp(j) BY <1>5, <2>1, WindowFacts DEF Settled
  <2>4. QED BY <2>2, <2>3 DEF Cuts
<1>6. QED BY <1>1, <1>2, <1>3, <1>4, <1>5 DEF Shrinks

\* A settled command leaves the process of a session alone.
Spares(t, u, j) ==
    /\ t.own[j] /\ t.outer[j] => u.own[j] /\ u.outer[j]
    /\ u.own[j] => (u.keep[j] <=> t.keep[j])

LEMMA SettleSpares ==
    ASSUME NEW t \in ServerType, NEW v \in ServerType, NEW u, NEW j \in Insts,
           v.own[j] = t.own[j], v.outer[j] = t.outer[j], v.keep[j] = t.keep[j],
           Settled(v, u)
    PROVE  Spares(t, u, j)
BY DEF Settled, Spares

LEMMA KillPaneShrinks ==
    ASSUME NEW t \in ServerType, AgentsOK(t), NEW p \in Panes
    PROVE  /\ Shrinks(t, KillPane(t, p))
           /\ \A j \in Insts : Spares(t, KillPane(t, p), j)
<1> DEFINE v == [t EXCEPT !.at[p] = Gone]
           u == KillPane(t, p)
<1>1. v \in ServerType /\ u = Settle(v) BY DEF ServerType, KillPane
<1>2. /\ \A o \in Panes : v.at[o] = IF o = p THEN Gone ELSE t.at[o]
      /\ v.own = t.own /\ v.opt = t.opt /\ v.keep = t.keep /\ v.outer = t.outer
  BY DEF ServerType
<1> HIDE DEF v, u
<1>3. Cuts(t, v) BY <1>2, WindowFacts DEF Cuts, AgentsOK, Panes
<1>4. Settled(v, u) BY <1>1, SettleFields
<1>5. Shrinks(t, u) BY <1>1, <1>3, <1>4, SettleShrinks
<1>6. \A j \in Insts : Spares(t, u, j) BY <1>1, <1>2, <1>4, SettleSpares
<1>7. QED BY <1>5, <1>6 DEF u

LEMMA KillAgentSessionShrinks ==
    ASSUME NEW t \in ServerType, AgentsOK(t), NEW a
    PROVE  /\ Shrinks(t, KillAgentSession(t, a))
           /\ \A j \in Insts : Spares(t, KillAgentSession(t, a), j)
<1> DEFINE v == [t EXCEPT !.at = [p \in Panes |-> IF t.at[p] = HomeWin(t, a)
                                                  THEN Gone ELSE t.at[p]]]
           u == KillAgentSession(t, a)
<1>1. v \in ServerType /\ u = Settle(v) BY DEF ServerType, KillAgentSession
<1>2. /\ \A o \in Panes : v.at[o] = IF t.at[o] = HomeWin(t, a) THEN Gone ELSE t.at[o]
      /\ v.own = t.own /\ v.opt = t.opt /\ v.keep = t.keep /\ v.outer = t.outer
  BY DEF ServerType
<1> HIDE DEF v, u
<1>3. Cuts(t, v) BY <1>2, WindowFacts DEF Cuts, AgentsOK, Panes
<1>4. Settled(v, u) BY <1>1, SettleFields
<1>5. Shrinks(t, u) BY <1>1, <1>3, <1>4, SettleShrinks
<1>6. \A j \in Insts : Spares(t, u, j) BY <1>1, <1>2, <1>4, SettleSpares
<1>7. QED BY <1>5, <1>6 DEF u

LEMMA KillKeeperShrinks ==
    ASSUME NEW t \in ServerType, AgentsOK(t), NEW i \in Insts,
           \A a \in Agents : t.at[a] # Disp(i)
    PROVE  /\ Shrinks(t, KillKeeper(t, i))
           /\ t.own[i] /\ t.outer[i] => KillKeeper(t, i).own[i] /\ KillKeeper(t, i).outer[i]
           /\ \A j \in Insts \ {i} : Spares(t, KillKeeper(t, i), j)
<1> DEFINE v == [t EXCEPT !.keep[i] = FALSE]
           u == KillKeeper(t, i)
<1>1. v \in ServerType /\ u = Settle(v) BY DEF ServerType, KillKeeper
<1>2. /\ \A j \in Insts : j # i => v.keep[j] = t.keep[j]
      /\ v.own = t.own /\ v.opt = t.opt /\ v.at = t.at /\ v.outer = t.outer
  BY DEF ServerType
<1> HIDE DEF v, u
<1>3. Cuts(t, v) BY <1>2, WindowFacts DEF Cuts, AgentsOK, Panes
<1>4. Settled(v, u) BY <1>1, SettleFields
<1>5. Shrinks(t, u) BY <1>1, <1>3, <1>4, SettleShrinks
<1>6. \A j \in Insts \ {i} : Spares(t, u, j) BY <1>1, <1>2, <1>4, SettleSpares
<1>7. t.own[i] /\ t.outer[i] => u.own[i] /\ u.outer[i] BY <1>2, <1>4 DEF Settled
<1>8. QED BY <1>5, <1>6, <1>7 DEF u

LEMMA KillOuterShrinks ==
    ASSUME NEW t \in ServerType, AgentsOK(t), NEW i \in Insts
    PROVE  /\ Shrinks(t, KillOuter(t, i))
           /\ KillOuter(t, i).own[i] => (KillOuter(t, i).keep[i] <=> t.keep[i])
           /\ \A j \in Insts \ {i} : Spares(t, KillOuter(t, i), j)
<1> DEFINE v == [t EXCEPT !.outer[i] = FALSE]
           u == KillOuter(t, i)
<1>1. v \in ServerType /\ u = Settle(v) BY DEF ServerType, KillOuter
<1>2. /\ \A j \in Insts : j # i => v.outer[j] = t.outer[j]
      /\ v.own = t.own /\ v.opt = t.opt /\ v.at = t.at /\ v.keep = t.keep
  BY DEF ServerType
<1> HIDE DEF v, u
<1>3. Cuts(t, v) BY <1>2, WindowFacts DEF Cuts, AgentsOK, Panes
<1>4. Settled(v, u) BY <1>1, SettleFields
<1>5. Shrinks(t, u) BY <1>1, <1>3, <1>4, SettleShrinks
<1>6. \A j \in Insts \ {i} : Spares(t, u, j) BY <1>1, <1>2, <1>4, SettleSpares
<1>7. u.own[i] => (u.keep[i] <=> t.keep[i]) BY <1>2, <1>4 DEF Settled
<1>8. QED BY <1>5, <1>6, <1>7 DEF u

LEMMA OwnerDiesShrinks ==
    ASSUME NEW t \in ServerType, AgentsOK(t), NEW i \in Insts
    PROVE  Shrinks(t, OwnerDies(t, i)) /\ ~OwnerDies(t, i).own[i]
<1> DEFINE v == [t EXCEPT !.own[i] = FALSE]
           u == OwnerDies(t, i)
<1>1. v \in ServerType /\ u = Settle(v) BY DEF ServerType, OwnerDies
<1>2. /\ \A j \in Insts : v.own[j] => j # i /\ t.own[j]
      /\ v.outer = t.outer /\ v.opt = t.opt /\ v.at = t.at /\ v.keep = t.keep
  BY DEF ServerType
<1> HIDE DEF v, u
<1>3. Cuts(t, v) BY <1>2, WindowFacts DEF Cuts, AgentsOK, Panes
<1>4. Settled(v, u) BY <1>1, SettleFields
<1>5. Shrinks(t, u) BY <1>1, <1>3, <1>4, SettleShrinks
<1>6. ~u.own[i] BY <1>2, <1>4 DEF Settled
<1>7. QED BY <1>5, <1>6 DEF u

\* A hard quit ends the outer session and every agent session.
HardQuit(t, i) == Settle([t EXCEPT !.own[i] = FALSE, !.outer[i] = FALSE,
                            !.at = [p \in Panes |-> IF t.at[p] \in HomeWindows
                                                    THEN Gone ELSE t.at[p]]])

LEMMA HardQuitShrinks ==
    ASSUME NEW t \in ServerType, AgentsOK(t), NEW i \in Insts
    PROVE  HardQuit(t, i) \in ServerType /\ Shrinks(t, HardQuit(t, i)) /\ ~HardQuit(t, i).own[i]
<1> DEFINE v == [t EXCEPT !.own[i] = FALSE, !.outer[i] = FALSE,
                          !.at = [p \in Panes |-> IF t.at[p] \in HomeWindows
                                                  THEN Gone ELSE t.at[p]]]
           u == HardQuit(t, i)
<1>1. v \in ServerType /\ u = Settle(v) BY DEF ServerType, HardQuit
<1>2. /\ \A j \in Insts : v.own[j] => j # i /\ t.own[j]
      /\ \A o \in Panes : v.at[o] = t.at[o] \/ v.at[o] = Gone
      /\ v.opt = t.opt /\ v.keep = t.keep
  BY DEF ServerType
<1> HIDE DEF v, u
<1>3. Cuts(t, v) BY <1>2, WindowFacts DEF Cuts, AgentsOK, Panes
<1>4. Settled(v, u) BY <1>1, SettleFields
<1>5. Shrinks(t, u) BY <1>1, <1>3, <1>4, SettleShrinks
<1>6. ~u.own[i] BY <1>2, <1>4 DEF Settled
<1>7. u \in ServerType BY <1>1, SettleType
<1>8. QED BY <1>5, <1>6, <1>7 DEF u

-----------------------------------------------------------------------------
(* ... changes of what the slots hold, and new panes *)

LEMMA HeldFacts ==
    ASSUME NEW t \in ServerType, NEW i \in Insts, NEW e, NEW q, NEW d, NEW x,
           Core(t, i, e, q, d, x)
    PROVE  /\ \A m \in Held(t, i, e) :
                /\ t.own[i] /\ m.inst = i /\ t.own[m.inst]
                /\ m.slot \in Slots /\ e[m.slot] = m /\ m # None /\ q[m.slot] = m.ph
           /\ \A s \in Slots : t.own[i] /\ e[s] # None => e[s] \in Held(t, i, e)
           /\ \A m \in Dead(t, d) : ~t.own[m.inst] /\ m \in d
BY DEF Core, SlotsOK, PadOK, Held, Dead

\* The marker in place of a displayed transaction.
LEMMA MarkerFacts ==
    ASSUME NEW t \in ServerType, NEW i \in Insts, NEW e, NEW q, NEW d, NEW x,
           Core(t, i, e, q, d, x), NEW m \in Kept(t, i, e) \cup d, Marked(t, m)
    PROVE  /\ MarkerOf(t, m) \in Stored(t) /\ MarkerOf(t, m) \in Kept(t, i, e)
           /\ MarkerOf(t, m).tx = m.tx /\ Twins(MarkerOf(t, m), m)
<1>1. m \in SwapState BY CoreFacts
<1>2. MarkerOf(t, m) \in Stored(t) /\ MarkerOf(t, m).tx = m.tx BY <1>1, MarkedFacts
<1>3. QED BY <1>2, CoreFacts DEF Kept

LEMMA RowsCore ==
    ASSUME NEW t \in ServerType, NEW i \in Insts, NEW e, NEW q, NEW d, NEW x, NEW d2,
           Core(t, i, e, q, d, x), d2 \subseteq Kept(t, i, e) \cup d
    PROVE  Core(t, i, e, q, d2, x)
<1>1. RecordsOK(t, i, e, d2, x) BY DEF Core, RecordsOK
<1>2. Agree(t, i, e, d2) BY DEF Core, Agree
<1>3. ShownMarked(t, i, e, d2)
  <2>1. Dead(t, d2) \subseteq Kept(t, i, e) \cup Dead(t, d) BY DEF Dead
  <2>2. QED BY <2>1 DEF Core, ShownMarked
<1>4. OneDead(t, d2)
  <2>1. ASSUME NEW m \in Dead(t, d2), NEW n \in Dead(t, d2) \cup Dead(t, Stored(t)),
               Live(t, m), Live(t, n), Meets(m, n)
        PROVE  m.tx = n.tx
    <3>1. \A k \in Dead(t, d2) \cup Dead(t, Stored(t)) : k \in Dead(t, d) \/ k \in Dead(t, Stored(t))
      BY HeldFacts DEF Dead, Kept
    <3>2. \A k \in Dead(t, Stored(t)) : k \in Kept(t, i, e) BY DEF Dead, Kept
    <3>3. Meets(n, m) BY <2>1 DEF Meets
    <3>4. CASE m \in Dead(t, d) BY <2>1, <3>1, <3>4 DEF Core, OneDead
    <3>5. CASE m \in Dead(t, Stored(t)) /\ n \in Dead(t, d)
      BY <2>1, <3>3, <3>5 DEF Core, OneDead
    <3>6. CASE m \in Dead(t, Stored(t)) /\ n \in Dead(t, Stored(t))
      BY <2>1, <3>2, <3>6 DEF Core, One
    <3>7. QED BY <3>1, <3>4, <3>5, <3>6
  <2>2. QED BY <2>1 DEF OneDead
<1>5. SlotsOK(t, i, e, q, d2) BY DEF Core, SlotsOK, PadOK
<1>6. QED BY <1>1, <1>2, <1>3, <1>4, <1>5 DEF Core

\* The same transaction, in another phase.
Alike(m, n) == /\ m \in SwapState /\ Twins(m, n) /\ m.tx = n.tx
               /\ m.home = n.home /\ m.ph = n.ph

LEMMA AlikeFacts ==
    ASSUME NEW t, NEW m, NEW n, Twins(m, n), m.tx = n.tx
    PROVE  /\ Live(t, m) <=> Live(t, n)
           /\ Shown(t, m) <=> Shown(t, n)
           /\ Marked(t, m) <=> Marked(t, n)
           /\ \A k : (Meets(m, k) <=> Meets(n, k)) /\ (Meets(k, m) <=> Meets(k, n))
           /\ \A k : (Twins(m, k) <=> Twins(n, k)) /\ (Twins(k, m) <=> Twins(k, n))
BY DEF Twins, Live, Shown, Marked, Meets

\* A slot gives up its pane, or a transaction that is not displayed, or goes
\* on to another phase.
SlotStep(t, i, e, q, e2, q2, s) ==
    /\ e2[s] # None => e[s] # None /\ Alike(e2[s], e[s]) /\ q2[s] = e[s].ph
    /\ e2[s] = None => q2[s] = None \/ q2[s] = q[s]
    /\ e2[s] = None /\ e[s] # None =>
         ~Shown(t, e[s]) /\ (q2[s] = None \/ t.at[q2[s]] \in {Disp(i), Gone})

LEMMA SlotsCore ==
    ASSUME NEW t \in ServerType, NEW i \in Insts, NEW e, NEW q, NEW d, NEW x,
           Core(t, i, e, q, d, x), NEW e2, NEW q2,
           t.own[i] => \A s \in Slots : SlotStep(t, i, e, q, e2, q2, s)
    PROVE  Core(t, i, e2, q2, d, x)
<1> DEFINE K == Kept(t, i, e)
           K2 == Kept(t, i, e2)
<1>1. ASSUME NEW m \in Held(t, i, e2)
      PROVE  \E n \in Held(t, i, e) : Alike(m, n)
  <2>1. PICK s \in Slots : m = e2[s] /\ m # None BY DEF Held
  <2>2. e[s] # None /\ Alike(m, e[s]) BY <2>1 DEF SlotStep, Held
  <2>3. e[s] \in Held(t, i, e) BY <2>2, <1>1, HeldFacts DEF Held
  <2>4. QED BY <2>2, <2>3
<1>2. ASSUME NEW m \in K2
      PROVE  m \in Stored(t) \/ \E n \in Held(t, i, e) : Alike(m, n)
  BY <1>1, <1>2 DEF Kept
<1>3. ASSUME NEW m \in K2
      PROVE  \E n \in K : /\ m.tx = n.tx /\ Twins(m, n) /\ m.home = n.home /\ m.ph = n.ph
                          /\ m \in SwapState /\ (m \in Held(t, i, e2) => n \in Held(t, i, e))
  <2>1. CASE m \in Held(t, i, e2) BY <1>1, <2>1 DEF Alike, Kept
  <2>2. CASE m \in Stored(t) /\ m \notin Held(t, i, e2)
    <3>1. m \in K /\ m \in SwapState BY <2>2, CoreFacts DEF Kept
    <3>2. QED BY <2>2, <3>1 DEF Twins
  <2>3. QED BY <2>1, <2>2 DEF Kept
<1>4. ASSUME NEW m \in K2 \cup d
      PROVE  \E n \in K \cup d : /\ m.tx = n.tx /\ Twins(m, n) /\ m.home = n.home /\ m.ph = n.ph
                                 /\ m \in SwapState
  <2>1. CASE m \in K2 BY <1>3, <2>1
  <2>2. CASE m \in d
    <3>1. m \in SwapState BY <2>2, CoreFacts
    <3>2. QED BY <2>2, <3>1 DEF Twins
  <2>3. QED BY <2>1, <2>2
<1> HIDE DEF K2
<1>5. RecordsOK(t, i, e2, d, x)
  <2>1. ASSUME NEW m \in K2 \cup d PROVE RecordOK(t, i, x, m)
    <3>1. PICK n \in K \cup d : /\ m.tx = n.tx /\ Twins(m, n) /\ m.home = n.home
                                /\ m.ph = n.ph /\ m \in SwapState
      BY <1>4
    <3>2. RecordOK(t, i, x, n) BY CoreFacts
    <3>3. QED BY <3>1, <3>2 DEF RecordOK, Twins
  <2>2. QED BY <2>1 DEF RecordsOK, K2
<1>6. Agree(t, i, e2, d)
  <2>1. ASSUME NEW m \in K2 \cup d, NEW n \in K2 \cup d
        PROVE  /\ m.tx = n.tx => Twins(m, n)
               /\ Live(t, m) /\ m.real = n.real => m.agent = n.agent
    <3>1. PICK m1 \in K \cup d : m.tx = m1.tx /\ Twins(m, m1) BY <1>4
    <3>2. PICK n1 \in K \cup d : n.tx = n1.tx /\ Twins(n, n1) BY <1>4
    <3>3. /\ m1.tx = n1.tx => Twins(m1, n1)
          /\ Live(t, m1) /\ m1.real = n1.real => m1.agent = n1.agent
      BY CoreFacts
    <3>4. QED BY <3>1, <3>2, <3>3 DEF Twins, Live
  <2>2. QED BY <2>1 DEF Agree, K2
<1>7. ShownMarked(t, i, e2, d)
  <2>1. ASSUME NEW m \in K2 \cup Dead(t, d), Shown(t, m) PROVE Marked(t, m)
    <3>1. CASE m \in Dead(t, d) BY <2>1, <3>1, CoreFacts
    <3>2. CASE m \in K2
      <4>1. PICK n \in K : m.tx = n.tx /\ Twins(m, n) BY <1>3, <3>2
      <4>2. Shown(t, n) => Marked(t, n) BY CoreFacts
      <4>3. QED BY <2>1, <4>1, <4>2, AlikeFacts
    <3>3. QED BY <2>1, <3>1, <3>2
  <2>2. QED BY <2>1 DEF ShownMarked, K2
<1>8. One(t, i, e2)
  <2>1. ASSUME NEW m \in K2, NEW n \in K2, Live(t, m), Live(t, n) \/ n \in Held(t, i, e2),
               Meets(m, n)
        PROVE  m.tx = n.tx
    <3>1. PICK m1 \in K : m.tx = m1.tx /\ Twins(m, m1) BY <1>3
    <3>2. PICK n1 \in K : /\ n.tx = n1.tx /\ Twins(n, n1)
                          /\ n \in Held(t, i, e2) => n1 \in Held(t, i, e)
      BY <1>3
    <3>3. Live(t, m1) /\ (Live(t, n1) \/ n1 \in Held(t, i, e)) BY <2>1, <3>1, <3>2 DEF Live, Twins
    <3>4. Meets(m1, n1) BY <2>1, <3>1, <3>2 DEF Meets, Twins
    <3>5. m1.tx = n1.tx BY <3>3, <3>4 DEF Core, One
    <3>6. QED BY <3>1, <3>2, <3>5
  <2>2. QED BY <2>1 DEF One, K2
<1>9. ShownHeld(t, i, e2)
  <2>1. ASSUME t.own[i], NEW m \in Stored(t), m.inst = i, Shown(t, m)
        PROVE  e2[m.slot] # None /\ e2[m.slot].tx = m.tx
    <3>1. m.slot \in Slots BY StoredFacts, StateFacts
    <3>2. e[m.slot] # None /\ e[m.slot].tx = m.tx BY <2>1 DEF Core, ShownHeld
    <3>3. e[m.slot] \in K /\ m \in K BY <2>1, <3>1, <3>2, HeldFacts DEF Kept
    <3>4. Twins(m, e[m.slot]) BY <3>2, <3>3, CoreFacts
    <3>5. Shown(t, e[m.slot]) BY <2>1, <3>4 DEF Shown, Twins
    <3>6. SlotStep(t, i, e, q, e2, q2, m.slot) BY <2>1, <3>1
    <3>7. e2[m.slot] # None BY <3>2, <3>5, <3>6 DEF SlotStep
    <3>8. QED BY <3>2, <3>6, <3>7 DEF SlotStep, Alike
  <2>2. QED BY <2>1 DEF ShownHeld
<1>10. SlotsOK(t, i, e2, q2, d)
  <2>1. ASSUME t.own[i], NEW s \in Slots PROVE PadOK(t, i, e2, q2, d, s)
    <3>1. \A o \in Slots : PadOK(t, i, e, q, d, o) /\ SlotStep(t, i, e, q, e2, q2, o)
      BY <2>1 DEF Core, SlotsOK
    <3>2. \A o \in Slots : q2[o] = None \/ q2[o] = q[o]
      BY <3>1 DEF PadOK, SlotStep
    <3>3. e2[s] # None => /\ e2[s].inst = i /\ e2[s].slot = s /\ q2[s] = e2[s].ph
                          /\ t.at[q2[s]] \in Home(e2[s].agent) \cup {Disp(i), Gone}
      BY <3>1 DEF PadOK, SlotStep, Alike, Twins
    <3>4. e2[s] = None /\ q2[s] # None => t.at[q2[s]] \in {Disp(i), Gone}
      BY <3>1 DEF PadOK, SlotStep
    <3>5. ASSUME q2[s] # None, NEW m \in K2 \cup d, Live(t, m) PROVE m.real # q2[s]
      <4>1. PICK n \in K \cup d : m.tx = n.tx /\ Twins(m, n) BY <1>4
      <4>2. q2[s] = q[s] BY <3>2, <3>5
      <4>3. Live(t, n) BY <3>5, <4>1 DEF Live, Twins
      <4>4. n.real # q[s] BY <3>1, <3>5, <4>2, <4>3 DEF PadOK
      <4>5. QED BY <4>1, <4>2, <4>4 DEF Twins
    <3>6. q2[s] # None => q2[s] \in Pads /\ \A o \in Slots \ {s} : q2[o] # q2[s]
      BY <3>1, <3>2 DEF PadOK
    <3>7. QED BY <3>3, <3>4, <3>5, <3>6 DEF PadOK, K2
  <2>2. QED BY <2>1 DEF SlotsOK
<1>11. QED BY <1>5, <1>6, <1>7, <1>8, <1>9, <1>10 DEF Core

\* A command that makes panes or clients, or lets a window be kept.
Adds(t, u, i) ==
    /\ \A p \in Panes : u.at[p] = t.at[p] \/ (p \in Pads /\ t.at[p] = Unborn)
    /\ \A p \in Panes, j \in Insts : u.at[p] = Disp(j) => j <= i
    /\ u.own = t.own /\ u.opt = t.opt
    /\ \A j \in Insts : t.keep[j] => u.keep[j]

LEMMA AddsCore ==
    ASSUME NEW t \in ServerType, NEW u \in ServerType, NEW i \in Insts, NEW e, NEW q, NEW d, NEW x,
           Core(t, i, e, q, d, x), Adds(t, u, i)
    PROVE  Core(u, i, e, q, d, x)
<1>0. /\ \A p \in Panes : t.at[p] # Unborn => u.at[p] = t.at[p]
      /\ u.own = t.own /\ u.opt = t.opt
      /\ Agree(t, i, e, d) /\ WhereSet(t) /\ ShownMarked(t, i, e, d) /\ One(t, i, e)
      /\ OneDead(t, d) /\ ShownHeld(t, i, e)
  BY DEF Core, Adds
<1>1. /\ Stored(u) = Stored(t) /\ Held(u, i, e) = Held(t, i, e) /\ Kept(u, i, e) = Kept(t, i, e)
      /\ Dead(u, d) = Dead(t, d) /\ Dead(u, Stored(u)) = Dead(t, Stored(t))
  BY DEF Adds, Stored, Held, Kept, Dead
<1>2. \A a \in Agents : a \in Panes /\ a \notin Pads /\ u.at[a] = t.at[a]
  BY PanesAssumption DEF Adds, Panes
<1>3. \A m \in Kept(t, i, e) \cup d : /\ m \in SwapState /\ u.at[m.real] = t.at[m.real]
                                     /\ u.at[m.agent] = t.at[m.agent]
  <2>1. ASSUME NEW m \in Kept(t, i, e) \cup d
        PROVE  m \in SwapState /\ u.at[m.real] = t.at[m.real] /\ u.at[m.agent] = t.at[m.agent]
    <3>1. m \in SwapState /\ t.at[m.real] \in Reach(m.agent) BY CoreFacts
    <3>2. m.real \in Panes /\ m.agent \in Agents BY <3>1, StateFacts
    <3>3. t.at[m.real] # Unborn BY <3>1, <3>2, ReachFacts
    <3>4. QED BY <1>2, <3>1, <3>2, <3>3 DEF Adds
  <2>2. QED BY <2>1
<1>4. ASSUME NEW m \in Kept(t, i, e) \cup d
      PROVE  /\ Live(u, m) <=> Live(t, m)
             /\ Shown(u, m) <=> Shown(t, m)
             /\ Marked(u, m) <=> Marked(t, m)
  BY <1>0, <1>3 DEF Live, Shown, Marked
<1>5. PlacesOK(u, i) BY <1>2 DEF Core, PlacesOK, Adds
<1>6. RecordsOK(u, i, e, d, x)
  <2>1. ASSUME NEW m \in Kept(t, i, e) \cup d PROVE RecordOK(u, i, x, m)
    <3>1. RecordOK(t, i, x, m) BY CoreFacts
    <3>2. QED BY <1>3, <3>1 DEF RecordOK
  <2>2. QED BY <1>1, <2>1 DEF RecordsOK
<1>7. Agree(u, i, e, d) BY <1>0, <1>1, <1>4 DEF Agree
<1>8. WhereSet(u) BY <1>0 DEF WhereSet
<1>9. ShownMarked(u, i, e, d)
  <2>1. Dead(t, d) \subseteq d BY DEF Dead
  <2>2. QED BY <1>0, <1>1, <1>4, <2>1 DEF ShownMarked
<1>10. One(u, i, e) BY <1>0, <1>1, <1>4 DEF One
<1>11. OneDead(u, d)
  <2>1. Dead(t, d) \subseteq d /\ Dead(t, Stored(t)) \subseteq Kept(t, i, e) BY DEF Dead, Kept
  <2>2. QED BY <1>0, <1>1, <1>4, <2>1 DEF OneDead
<1>12. ShownHeld(u, i, e)
  <2>1. Stored(t) \subseteq Kept(t, i, e) BY DEF Kept
  <2>2. QED BY <1>0, <1>1, <1>4, <2>1 DEF ShownHeld
<1>13. AgentsOK(u) BY <1>2 DEF Core, AgentsOK, Adds
<1>14. SlotsOK(u, i, e, q, d)
  <2>1. ASSUME u.own[i], NEW s \in Slots PROVE PadOK(u, i, e, q, d, s)
    <3>1. PadOK(t, i, e, q, d, s) BY <2>1 DEF Core, SlotsOK, Adds
    <3>2. ASSUME e[s] # None PROVE q[s] # None
      <4>1. e[s] \in Kept(t, i, e) BY <2>1, <3>2 DEF Held, Kept, Adds
      <4>2. q[s] \in Pads BY <3>1, <3>2, <4>1, CoreFacts DEF PadOK, RecordOK
      <4>3. QED BY <4>2, PanesAssumption DEF Panes
    <3>3. ASSUME q[s] # None PROVE u.at[q[s]] = t.at[q[s]]
      <4>1. q[s] \in Panes BY <3>1, <3>3 DEF PadOK, Panes
      <4>2. CASE e[s] = None BY <3>1, <3>3, <4>1, <4>2, WindowFacts DEF PadOK, Adds
      <4>3. CASE e[s] # None
        <5>1. e[s] \in Kept(t, i, e) BY <2>1, <4>3 DEF Held, Kept, Adds
        <5>2. e[s].agent \in Agents BY <5>1, CoreFacts, StateFacts
        <5>3. t.at[q[s]] # Unborn BY <3>1, <4>3, <5>2, WindowFacts DEF PadOK
        <5>4. QED BY <1>0, <4>1, <5>3
      <4>4. QED BY <4>2, <4>3
    <3>4. QED BY <1>1, <1>4, <3>1, <3>2, <3>3 DEF PadOK
  <2>2. QED BY <2>1 DEF SlotsOK
<1>15. QED
  BY <1>5, <1>6, <1>7, <1>8, <1>9, <1>10, <1>11, <1>12, <1>13, <1>14 DEF Core

\* A slot takes a new placeholder.
LEMMA PadCore ==
    ASSUME NEW t \in ServerType, NEW i \in Insts, NEW e, NEW q, NEW d, NEW x,
           Core(t, i, e, q, d, x), NEW u \in ServerType, NEW p \in Pads, t.at[p] = Unborn,
           NEW s \in Slots, e[s] = None, NEW q2,
           u.at[p] = Disp(i), Adds(t, u, i), \A o \in Slots \ {s} : q2[o] = q[o], q2[s] = p
    PROVE  Core(u, i, e, q2, d, x)
<1>1. Core(u, i, e, q, d, x) BY AddsCore
<1>2. Kept(u, i, e) = Kept(t, i, e) BY DEF Adds, Kept, Stored, Held
<1>3. p \in Panes BY DEF Panes
<1>4. \A m \in Kept(t, i, e) \cup d : m.real # p
  BY <1>3, CoreFacts, StateFacts, ReachFacts
<1>5. ASSUME u.own[i], NEW o \in Slots \ {s} PROVE q[o] # p
  <2>1. PadOK(t, i, e, q, d, o) BY <1>5 DEF Core, SlotsOK, Adds
  <2>2. CASE e[o] = None BY <2>1, <2>2, WindowFacts, PanesAssumption, <1>3 DEF PadOK
  <2>3. CASE e[o] # None
    <3>1. e[o] \in Kept(t, i, e) BY <1>5, <2>3, HeldFacts DEF Kept, Adds
    <3>2. e[o].agent \in Agents BY <3>1, CoreFacts, StateFacts
    <3>3. QED BY <2>1, <2>3, <3>2, WindowFacts DEF PadOK
  <2>4. QED BY <2>2, <2>3
<1>6. SlotsOK(u, i, e, q2, d)
  <2>1. ASSUME u.own[i], NEW o \in Slots PROVE PadOK(u, i, e, q2, d, o)
    <3>1. PadOK(u, i, e, q, d, o) BY <1>1, <2>1 DEF Core, SlotsOK
    <3>2. CASE o = s
      <4>1. \A m \in Kept(u, i, e) \cup d : m.real # p BY <1>2, <1>4
      <4>2. \A r \in Slots \ {s} : q2[r] # p BY <1>5, <2>1
      <4>3. QED BY <3>2, <4>1, <4>2 DEF PadOK
    <3>3. CASE o # s
      <4>1. q2[o] = q[o] /\ q[o] # p BY <1>5, <2>1, <3>3
      <4>2. \A r \in Slots \ {o} : q2[r] = q[r] \/ q2[r] = p OBVIOUS
      <4>3. QED BY <3>1, <4>1, <4>2 DEF PadOK
    <3>4. QED BY <3>2, <3>3
  <2>2. QED BY <2>1 DEF SlotsOK
<1>7. QED BY <1>1, <1>6 DEF Core

\* The record a launcher makes of a home session it recreated.
LEMMA RecreatedCore ==
    ASSUME NEW t \in ServerType, NEW i \in Insts, NEW e, NEW q, NEW d, NEW x,
           Core(t, i, e, q, d, x), NEW k \in Dead(t, d), NEW m \in SwapState,
           Twins(m, k), m.tx = k.tx, RecordOK(t, i, x, m)
    PROVE  Core(t, i, e, q, d \cup {m}, x)
<1>1. k \in d /\ ~t.own[m.inst] BY DEF Dead, Twins
<1>2. Dead(t, d \cup {m}) = Dead(t, d) \cup {m} BY <1>1 DEF Dead
<1>3. \A n \in Kept(t, i, e) \cup d \cup {m} :
        \E n1 \in Kept(t, i, e) \cup d : /\ n.tx = n1.tx /\ Twins(n, n1)
                                         /\ n # m => n1 = n
                                         /\ n = m => n1 = k
  BY <1>1 DEF Twins
<1>4. RecordsOK(t, i, e, d \cup {m}, x) BY DEF Core, RecordsOK
<1>5. Agree(t, i, e, d \cup {m})
  <2>1. ASSUME NEW m1 \in Kept(t, i, e) \cup d \cup {m}, NEW n1 \in Kept(t, i, e) \cup d \cup {m}
        PROVE  /\ m1.tx = n1.tx => Twins(m1, n1)
               /\ Live(t, m1) /\ m1.real = n1.real => m1.agent = n1.agent
    <3>1. PICK m2 \in Kept(t, i, e) \cup d : m1.tx = m2.tx /\ Twins(m1, m2) BY <1>3
    <3>2. PICK n2 \in Kept(t, i, e) \cup d : n1.tx = n2.tx /\ Twins(n1, n2) BY <1>3
    <3>3. /\ m2.tx = n2.tx => Twins(m2, n2)
          /\ Live(t, m2) /\ m2.real = n2.real => m2.agent = n2.agent
      BY CoreFacts
    <3>4. QED BY <3>1, <3>2, <3>3 DEF Twins, Live
  <2>2. QED BY <2>1 DEF Agree
<1>6. ShownMarked(t, i, e, d \cup {m})
  <2>1. Shown(t, m) => Marked(t, m) BY CoreFacts, AlikeFacts
  <2>2. QED BY <1>2, <2>1 DEF Core, ShownMarked
<1>7. OneDead(t, d \cup {m})
  <2>1. ASSUME NEW m1 \in Dead(t, d) \cup {m},
               NEW n1 \in Dead(t, d) \cup {m} \cup Dead(t, Stored(t)),
               Live(t, m1), Live(t, n1), Meets(m1, n1)
        PROVE  m1.tx = n1.tx
    <3>1. PICK m2 \in Dead(t, d) : m1.tx = m2.tx /\ Twins(m1, m2) BY DEF Twins
    <3>2. PICK n2 \in Dead(t, d) \cup Dead(t, Stored(t)) : n1.tx = n2.tx /\ Twins(n1, n2)
      BY DEF Twins
    <3>3. Live(t, m2) /\ Live(t, n2) /\ Meets(m2, n2)
      BY <2>1, <3>1, <3>2 DEF Twins, Live, Meets
    <3>4. m2.tx = n2.tx BY <3>3 DEF Core, OneDead
    <3>5. QED BY <3>1, <3>2, <3>4
  <2>2. QED BY <1>2, <2>1 DEF OneDead
<1>8. SlotsOK(t, i, e, q, d \cup {m})
  <2>1. ASSUME t.own[i], NEW s \in Slots PROVE PadOK(t, i, e, q, d \cup {m}, s)
    <3>1. PadOK(t, i, e, q, d, s) BY <2>1 DEF Core, SlotsOK
    <3>2. Live(t, m) /\ q[s] # None => m.real # q[s]
      BY <1>1, <3>1, AlikeFacts DEF PadOK, Twins
    <3>3. QED BY <3>1, <3>2 DEF PadOK
  <2>2. QED BY <2>1 DEF SlotsOK
<1>9. QED BY <1>4, <1>5, <1>6, <1>7, <1>8 DEF Core

\* The next Railmux process starts in an outer session of its own.
LEMMA LaunchCore ==
    ASSUME NEW t \in ServerType, NEW i \in Insts, NEW e, NEW q, NEW x, NEW d,
           Core(t, i, e, q, d, x), ~t.own[i], i + 1 \in Insts, NEW u \in ServerType,
           u.at = t.at, u.opt = t.opt, u.keep = t.keep,
           \A j \in Insts : u.own[j] => j = i + 1 \/ t.own[j]
    PROVE  Core(u, i + 1, [s \in Slots |-> None], [s \in Slots |-> None], {}, x)
<1> DEFINE e2 == [s \in Slots |-> None]
<1>1. i \in Nat /\ MaxInst \in Nat BY BoundsAssumption DEF Insts
<1>2. \A j \in Insts : j \in Nat /\ (j <= i => j <= i + 1 /\ j # i + 1) BY <1>1 DEF Insts
<1>3. /\ Stored(u) = Stored(t) /\ Held(u, i + 1, e2) = {} /\ Kept(u, i + 1, e2) = Stored(t)
      /\ Held(t, i, e) = {} /\ Kept(t, i, e) = Stored(t)
  BY DEF Stored, Held, Kept
<1>4. PlacesOK(u, i + 1)
  BY <1>2 DEF Core, PlacesOK
<1>5. RecordsOK(u, i + 1, e2, {}, x)
  <2>1. ASSUME NEW m \in Stored(t) PROVE RecordOK(u, i + 1, x, m)
    <3>1. RecordOK(t, i, x, m) /\ m.inst \in Insts BY <1>3, CoreFacts, StateFacts
    <3>2. m.inst <= i + 1 BY <1>2, <3>1 DEF RecordOK
    <3>3. QED BY <3>1, <3>2 DEF RecordOK
  <2>2. QED BY <1>3, <2>1 DEF RecordsOK
<1>6. Agree(u, i + 1, e2, {}) BY <1>3 DEF Core, Agree, Live
<1>7. WhereSet(u) BY DEF Core, WhereSet
<1>8. ShownMarked(u, i + 1, e2, {}) BY <1>3 DEF Core, ShownMarked, Dead, Shown, Marked
<1>9. One(u, i + 1, e2) BY <1>3 DEF Core, One, Live
<1>10. OneDead(u, {}) BY DEF OneDead, Dead
<1>11. ShownHeld(u, i + 1, e2)
  <2>1. ASSUME NEW m \in Stored(t) PROVE m.inst # i + 1
    BY <1>2, <1>3, CoreFacts, StateFacts DEF RecordOK
  <2>2. QED BY <1>3, <2>1 DEF ShownHeld
<1>12. AgentsOK(u) BY DEF Core, AgentsOK
<1>13. SlotsOK(u, i + 1, e2, e2, {}) BY DEF SlotsOK, PadOK
<1>14. QED
  BY <1>4, <1>5, <1>6, <1>7, <1>8, <1>9, <1>10, <1>11, <1>12, <1>13 DEF Core

\* A transaction begins: the slot holds it, and nothing else moves its agent.
LEMMA NewCore ==
    ASSUME NEW t \in ServerType, NEW i \in Insts, NEW e, NEW q, NEW d, NEW x \in Nat,
           Core(t, i, e, q, d, x), t.own[i], NEW m \in SwapState, m.inst = i,
           m.tx = x + 1, m.home \in Home(m.agent), m.ph \in Pads,
           t.at[m.real] \in Home(m.agent) \cup {Gone},
           m.real = m.agent \/ (m.real \in Pads /\ t.at[m.agent] = Gone),
           Unused(t, e, m.agent), e[m.slot] = None, q[m.slot] = m.ph, t.at[m.ph] = Disp(i),
           NEW e2, \A o \in Slots \ {m.slot} : e2[o] = e[o], e2[m.slot] = m
    PROVE  Core(t, i, e2, q, d, x + 1)
<1> DEFINE K == Kept(t, i, e)
           K2 == Kept(t, i, e2)
<1>1. /\ m.slot \in Slots /\ m.agent \in Agents /\ m.real \in Panes /\ m # None
      /\ i \in Nat /\ m.ph \in Panes
  BY StateFacts DEF Insts
<1>2. Held(t, i, e2) = Held(t, i, e) \cup {m} /\ K2 = K \cup {m}
  <2>1. {e2[s] : s \in Slots} \ {None} = ({e[s] : s \in Slots} \ {None}) \cup {m}
    BY <1>1
  <2>2. QED BY <2>1 DEF Held, Kept
<1> HIDE DEF K, K2
<1>3. /\ t.at[m.real] \in Reach(m.agent) /\ m.real # m.ph
      /\ ~Shown(t, m)
  BY <1>1, ReachFacts, WindowFacts DEF Shown
<1>4. \A n \in K \cup d : /\ RecordOK(t, i, x, n) /\ n \in SwapState /\ n.tx # m.tx
                         /\ t.at[n.real] \in Reach(n.agent)
  BY CoreFacts, StateFacts DEF RecordOK, K
<1>5. ASSUME NEW n \in K \cup d, Live(t, m) \/ Live(t, n), m.real = n.real
      PROVE  m.agent = n.agent /\ Live(t, m) /\ Live(t, n)
  <2>1. Live(t, m) /\ Live(t, n) BY <1>5 DEF Live
  <2>2. t.at[m.real] \in Home(m.agent) BY <2>1, WindowFacts DEF Live
  <2>3. n.agent \in Agents /\ t.at[n.real] \in Reach(n.agent) BY <1>4, StateFacts
  <2>4. QED BY <1>1, <1>5, <2>1, <2>2, <2>3, ReachFacts
<1>6. ASSUME NEW n \in K, Live(t, n) \/ n \in Held(t, i, e) PROVE n.agent # m.agent
  BY <1>6, HeldFacts DEF K, Kept, Unused
<1>7. RecordsOK(t, i, e2, d, x + 1)
  <2>1. RecordOK(t, i, x + 1, m) BY <1>1, <1>3 DEF RecordOK
  <2>2. ASSUME NEW n \in K \cup d PROVE RecordOK(t, i, x + 1, n)
    <3>1. n.tx \in Nat BY <1>4, StateFacts
    <3>2. n.tx <= x + 1 BY <1>4, <3>1 DEF RecordOK
    <3>3. QED BY <1>4, <3>2 DEF RecordOK
  <2>3. QED BY <1>2, <2>1, <2>2 DEF RecordsOK, K2
<1>8. Agree(t, i, e2, d)
  <2>1. ASSUME NEW m1 \in K \cup d \cup {m}, NEW n1 \in K \cup d \cup {m}
        PROVE  /\ m1.tx = n1.tx => Twins(m1, n1)
               /\ Live(t, m1) /\ m1.real = n1.real => m1.agent = n1.agent
    <3>1. CASE m1 \in K \cup d /\ n1 \in K \cup d BY <3>1, CoreFacts DEF K
    <3>2. CASE m1 = m /\ n1 = m BY <3>2 DEF Twins
    <3>3. CASE m1 = m /\ n1 \in K \cup d BY <1>4, <1>5, <3>3
    <3>4. CASE m1 \in K \cup d /\ n1 = m BY <1>4, <1>5, <3>4
    <3>5. QED BY <3>1, <3>2, <3>3, <3>4
  <2>2. QED BY <1>2, <2>1 DEF Agree, K2
<1>9. ShownMarked(t, i, e2, d) BY <1>2, <1>3 DEF Core, ShownMarked, K, K2
<1>10. One(t, i, e2)
  <2>1. ASSUME NEW m1 \in K2, NEW n1 \in K2, Live(t, m1), Live(t, n1) \/ n1 \in Held(t, i, e2),
               Meets(m1, n1)
        PROVE  m1.tx = n1.tx
    <3>1. CASE m1 \in K /\ n1 \in K /\ n1 # m BY <1>2, <2>1, <3>1 DEF Core, One, K
    <3>2. CASE m1 = m /\ n1 = m BY <3>2
    <3>3. CASE m1 = m /\ n1 \in K /\ n1 # m
      BY <1>2, <1>5, <1>6, <2>1, <3>3 DEF Meets
    <3>4. CASE m1 \in K /\ n1 = m
      BY <1>5, <1>6, <2>1, <3>4 DEF Meets
    <3>5. QED BY <1>2, <3>1, <3>2, <3>3, <3>4
  <2>2. QED BY <2>1 DEF One, K2
<1>11. ShownHeld(t, i, e2)
  <2>1. ASSUME NEW n \in Stored(t), n.inst = i, Shown(t, n)
        PROVE  e2[n.slot] # None /\ e2[n.slot].tx = n.tx
    <3>1. e[n.slot] # None /\ e[n.slot].tx = n.tx BY <2>1 DEF Core, ShownHeld
    <3>2. n.slot \in Slots BY StoredFacts, StateFacts
    <3>3. QED BY <3>1, <3>2
  <2>2. QED BY <2>1 DEF ShownHeld
<1>12. SlotsOK(t, i, e2, q, d)
  <2>1. ASSUME NEW s \in Slots PROVE PadOK(t, i, e2, q, d, s)
    <3>1. PadOK(t, i, e, q, d, s) BY DEF Core, SlotsOK
    <3>2. /\ e2[s] # None => /\ e2[s].inst = i /\ e2[s].slot = s /\ q[s] = e2[s].ph
                             /\ t.at[q[s]] \in Home(e2[s].agent) \cup {Disp(i), Gone}
          /\ e2[s] = None => e[s] = None
      <4>1. CASE s = m.slot BY <1>1, <4>1
      <4>2. CASE s # m.slot BY <3>1, <4>2 DEF PadOK
      <4>3. QED BY <4>1, <4>2
    <3>3. ASSUME q[s] # None, Live(t, m) PROVE m.real # q[s]
      <4>1. t.at[m.real] \in Home(m.agent) BY <3>3, WindowFacts DEF Live
      <4>2. CASE e[s] = None BY <1>1, <3>1, <3>3, <4>1, <4>2, WindowFacts DEF PadOK
      <4>3. CASE e[s] # None
        <5>1. e[s] \in K BY <4>3, HeldFacts DEF Kept, K
        <5>2. e[s].agent \in Agents /\ e[s].agent # m.agent
          BY <1>4, <4>3, <5>1, StateFacts DEF Unused
        <5>3. t.at[q[s]] \in Home(e[s].agent) \cup {Disp(i), Gone} BY <3>1, <4>3 DEF PadOK
        <5>4. QED BY <1>1, <4>1, <5>2, <5>3, WindowFacts
      <4>4. QED BY <4>2, <4>3
    <3>4. QED BY <1>2, <3>1, <3>2, <3>3 DEF PadOK, K2, K
  <2>2. QED BY <2>1 DEF SlotsOK
<1>13. PlacesOK(t, i) /\ WhereSet(t) /\ OneDead(t, d) /\ AgentsOK(t) BY DEF Core
<1>14. QED BY <1>7, <1>8, <1>9, <1>10, <1>11, <1>12, <1>13 DEF Core

-----------------------------------------------------------------------------
(* ... writes and clears of markers *)

\* Writing the marker of a transaction k: over a marker of the display window
\* only when no other displayed transaction is found by it.
Overwrites(t, K, m, w) ==
    w = Disp(m.inst) =>
       \A n \in K : Shown(t, n) /\ n.inst = m.inst /\ n.slot = m.slot => n.tx = m.tx

LEMMA WriteCore ==
    ASSUME NEW t \in ServerType, NEW i \in Insts, NEW e, NEW q, NEW d, NEW x,
           Core(t, i, e, q, d, x), NEW m \in SwapState, RecordOK(t, i, x, m),
           NEW k \in Kept(t, i, e) \cup Dead(t, d), m.tx = k.tx, Twins(m, k),
           Live(t, m) => k \in Kept(t, i, e),
           NEW w \in {m.home, Disp(m.inst)},
           Overwrites(t, Kept(t, i, e) \cup Dead(t, d), m, w),
           NEW u \in ServerType, u = SetOption(t, w, m.slot, m), WindowUp(t, w)
    PROVE  Core(u, i, e, q, d, x)
<1> DEFINE K == Kept(t, i, e)
           K2 == Kept(u, i, e)
<1>1. /\ m.slot \in Slots /\ m.agent \in Agents /\ m.real \in Panes /\ m # None
      /\ m.inst \in Insts /\ w \in Windows /\ m.home \in Home(m.agent)
  BY StateFacts, WindowFacts DEF RecordOK
<1>2. /\ u.at = t.at /\ u.own = t.own /\ u.keep = t.keep
      /\ \A v \in Windows, s \in Slots :
           u.opt[v][s] = IF v = w /\ s = m.slot THEN m ELSE t.opt[v][s]
  <2>1. u = [t EXCEPT !.opt[w][m.slot] = m] BY DEF SetOption
  <2>2. QED BY <1>1, <2>1 DEF ServerType
<1>3. Stored(u) \subseteq Stored(t) \cup {m}
  <2>1. ASSUME NEW n \in Stored(u), n # m PROVE n \in Stored(t)
    <3>1. PICK v \in Windows, s \in Slots : u.opt[v][s] = n BY StoredFacts
    <3>2. n # None BY StoredFacts, StateFacts
    <3>3. t.opt[v][s] = n BY <1>2, <2>1, <3>1
    <3>4. QED BY <3>2, <3>3, StoredFacts
  <2>2. QED BY <2>1
<1>4. Held(u, i, e) = Held(t, i, e) /\ K2 \subseteq K \cup {m} /\ Dead(u, d) = Dead(t, d)
  BY <1>2, <1>3 DEF Held, Kept, Dead
<1>5. k \in K \cup d /\ k \in SwapState BY CoreFacts DEF Dead
<1>6. \A n : (Live(u, n) <=> Live(t, n)) /\ (Shown(u, n) <=> Shown(t, n))
  BY <1>2 DEF Live, Shown
<1>7. ASSUME NEW n \in K2 \cup d
      PROVE  \E n1 \in K \cup d : /\ n.tx = n1.tx /\ Twins(n, n1)
                                  /\ n # m => n1 = n
                                  /\ n = m => n1 = k
  <2>1. CASE n = m BY <1>5, <2>1
  <2>2. CASE n # m BY <1>4, <2>2 DEF Twins
  <2>3. QED BY <2>1, <2>2
<1>8. /\ Live(t, m) <=> Live(t, k)
      /\ Shown(t, m) <=> Shown(t, k)
  BY AlikeFacts
<1>9. k \in Held(t, i, e) \/ k \in Stored(t) \/ k \in Dead(t, d)
  BY DEF Kept
<1> HIDE DEF K, K2
<1>10. PlacesOK(u, i) BY <1>2 DEF Core, PlacesOK
<1>11. RecordsOK(u, i, e, d, x)
  <2>1. ASSUME NEW n \in K2 \cup d PROVE RecordOK(u, i, x, n)
    <3>1. RecordOK(t, i, x, n) BY <1>4, CoreFacts DEF K
    <3>2. QED BY <1>2, <3>1 DEF RecordOK
  <2>2. QED BY <2>1 DEF RecordsOK, K2
<1>12. Agree(u, i, e, d)
  <2>1. ASSUME NEW m1 \in K2 \cup d, NEW n1 \in K2 \cup d
        PROVE  /\ m1.tx = n1.tx => Twins(m1, n1)
               /\ Live(u, m1) /\ m1.real = n1.real => m1.agent = n1.agent
    <3>1. PICK m2 \in K \cup d : m1.tx = m2.tx /\ Twins(m1, m2) BY <1>7
    <3>2. PICK n2 \in K \cup d : n1.tx = n2.tx /\ Twins(n1, n2) BY <1>7
    <3>3. /\ m2.tx = n2.tx => Twins(m2, n2)
          /\ Live(t, m2) /\ m2.real = n2.real => m2.agent = n2.agent
      BY CoreFacts DEF K
    <3>4. QED BY <1>6, <3>1, <3>2, <3>3 DEF Twins, Live
  <2>2. QED BY <2>1 DEF Agree, K2
<1>13. WhereSet(u)
  <2>1. ASSUME NEW j \in Insts, NEW s \in Slots, u.opt[Disp(j)][s] # None
        PROVE  u.opt[Disp(j)][s].inst = j /\ u.opt[Disp(j)][s].slot = s
    <3>1. CASE Disp(j) = w /\ s = m.slot
      <4>1. w = Disp(m.inst) BY <1>1, <3>1, WindowFacts
      <4>2. j = m.inst BY <1>1, <3>1, <4>1, WindowFacts
      <4>3. QED BY <1>2, <3>1, <4>2, WindowFacts
    <3>2. CASE ~(Disp(j) = w /\ s = m.slot)
      <4>1. u.opt[Disp(j)][s] = t.opt[Disp(j)][s] BY <1>2, <3>2, WindowFacts
      <4>2. QED BY <2>1, <4>1 DEF Core, WhereSet
    <3>3. QED BY <3>1, <3>2
  <2>2. QED BY <2>1 DEF WhereSet
<1>13a. w = Disp(m.inst) =>
          \A n \in K \cup Dead(t, d) :
             Shown(t, n) /\ n.inst = m.inst /\ n.slot = m.slot => n.tx = m.tx
  BY DEF Overwrites, K
<1>14. ASSUME NEW n \in K \cup Dead(t, d), Shown(t, n) PROVE Marked(u, n)
  <2>1. Marked(t, n) /\ n \in SwapState BY <1>14, CoreFacts DEF K, Dead
  <2>2. n.slot \in Slots /\ n.inst \in Insts /\ Disp(n.inst) \in Windows
    BY <2>1, StateFacts, WindowFacts
  <2>3. CASE Disp(n.inst) = w /\ n.slot = m.slot
    <3>1. w = Disp(m.inst) BY <1>1, <2>2, <2>3, WindowFacts
    <3>2. n.inst = m.inst BY <1>1, <2>2, <2>3, <3>1, WindowFacts
    <3>3. n.tx = m.tx BY <1>13a, <1>14, <2>3, <3>1, <3>2
    <3>4. QED BY <1>1, <1>2, <2>2, <2>3, <3>3 DEF Marked
  <2>4. CASE ~(Disp(n.inst) = w /\ n.slot = m.slot)
    <3>1. u.opt[Disp(n.inst)][n.slot] = t.opt[Disp(n.inst)][n.slot] BY <1>2, <2>2, <2>4
    <3>2. QED BY <2>1, <3>1 DEF Marked
  <2>5. QED BY <2>3, <2>4
<1>15. ShownMarked(u, i, e, d)
  <2>1. ASSUME NEW n \in K2 \cup Dead(t, d), Shown(t, n) PROVE Marked(u, n)
    <3>1. CASE n = m
      <4>1. Marked(u, k) BY <1>8, <1>14, <2>1, <3>1 DEF K
      <4>2. QED BY <3>1, <4>1, AlikeFacts
    <3>2. CASE n # m BY <1>4, <1>14, <2>1, <3>2
    <3>3. QED BY <3>1, <3>2
  <2>2. QED BY <1>4, <1>6, <2>1 DEF ShownMarked, K2
<1>16. One(u, i, e)
  <2>1. ASSUME NEW m1 \in K2, NEW n1 \in K2, Live(t, m1), Live(t, n1) \/ n1 \in Held(t, i, e),
               Meets(m1, n1)
        PROVE  m1.tx = n1.tx
    <3>1. \E m2 \in K : m1.tx = m2.tx /\ Twins(m1, m2)
      BY <1>4, <2>1 DEF K, Twins
    <3>2. \E n2 \in K : /\ n1.tx = n2.tx /\ Twins(n1, n2)
                        /\ n1 \in Held(t, i, e) => n2 \in Held(t, i, e)
      <4>1. CASE n1 \in Held(t, i, e) BY <4>1 DEF K, Twins, Kept
      <4>2. CASE n1 \notin Held(t, i, e) BY <1>4, <2>1, <4>2 DEF K, Twins
      <4>3. QED BY <4>1, <4>2
    <3>3. PICK m2 \in K : m1.tx = m2.tx /\ Twins(m1, m2) BY <3>1
    <3>4. PICK n2 \in K : /\ n1.tx = n2.tx /\ Twins(n1, n2)
                          /\ n1 \in Held(t, i, e) => n2 \in Held(t, i, e)
      BY <3>2
    <3>5. Live(t, m2) /\ (Live(t, n2) \/ n2 \in Held(t, i, e)) /\ Meets(m2, n2)
      BY <2>1, <3>3, <3>4 DEF Live, Meets, Twins
    <3>6. m2.tx = n2.tx BY <3>5 DEF Core, One, K
    <3>7. QED BY <3>3, <3>4, <3>6
  <2>2. QED BY <1>4, <1>6, <2>1 DEF One, K2
<1>17. OneDead(u, d)
  <2>1. Dead(u, Stored(u)) \subseteq Dead(t, Stored(t)) \cup (IF t.own[m.inst] THEN {} ELSE {m})
    BY <1>2, <1>3 DEF Dead
  <2>2. ASSUME NEW m1 \in Dead(t, d), NEW n1 \in Dead(t, d) \cup Dead(u, Stored(u)),
               Live(t, m1), Live(t, n1), Meets(m1, n1)
        PROVE  m1.tx = n1.tx
    <3>1. CASE n1 \in Dead(t, d) \cup Dead(t, Stored(t)) BY <2>2, <3>1 DEF Core, OneDead
    <3>2. CASE n1 = m /\ ~t.own[m.inst]
      <4>1. ~t.own[k.inst] BY <3>2 DEF Twins
      <4>2. k \in Dead(t, d) \cup Dead(t, Stored(t)) BY <1>9, <4>1, HeldFacts DEF Dead
      <4>3. Live(t, k) /\ Meets(m1, k) BY <2>2, <3>2, <1>8, AlikeFacts
      <4>4. m1.tx = k.tx BY <2>2, <4>2, <4>3 DEF Core, OneDead
      <4>5. QED BY <3>2, <4>4
    <3>3. QED BY <2>1, <2>2, <3>1, <3>2
  <2>3. QED BY <1>4, <1>6, <2>2 DEF OneDead
<1>18. ShownHeld(u, i, e)
  <2>1. ASSUME t.own[i], NEW n \in Stored(t) \cup {m}, n.inst = i, Shown(t, n)
        PROVE  e[n.slot] # None /\ e[n.slot].tx = n.tx
    <3>1. CASE n \in Stored(t) BY <2>1, <3>1 DEF Core, ShownHeld
    <3>2. CASE n = m
      <4>1. k.inst = i /\ Shown(t, k) /\ k.slot = n.slot BY <1>8, <2>1, <3>2 DEF Twins
      <4>2. CASE k \in Held(t, i, e) BY <3>2, <4>1, <4>2, HeldFacts
      <4>3. CASE k \in Stored(t) BY <2>1, <3>2, <4>1, <4>3 DEF Core, ShownHeld
      <4>4. CASE k \in Dead(t, d) BY <2>1, <4>1, <4>4 DEF Dead
      <4>5. QED BY <1>9, <4>2, <4>3, <4>4
    <3>3. QED BY <2>1, <3>1, <3>2
  <2>2. QED BY <1>2, <1>3, <1>6, <2>1 DEF ShownHeld
<1>19. AgentsOK(u)
  <2>1. ASSUME NEW a \in Agents, NEW j \in Insts, t.at[a] = Disp(j)
        PROVE  /\ t.keep[j]
               /\ \E s \in Slots : u.opt[Disp(j)][s] # None /\ u.opt[Disp(j)][s].real = a
    <3>1. PICK s \in Slots : t.opt[Disp(j)][s] # None /\ t.opt[Disp(j)][s].real = a
      BY <2>1 DEF Core, AgentsOK
    <3>2. t.keep[j] BY <2>1 DEF Core, AgentsOK
    <3>3. CASE ~(Disp(j) = w /\ s = m.slot)
      <4>1. u.opt[Disp(j)][s] = t.opt[Disp(j)][s] BY <1>2, <3>3, WindowFacts
      <4>2. QED BY <3>1, <3>2, <4>1
    <3>4. CASE Disp(j) = w /\ s = m.slot
      <4> DEFINE n == t.opt[Disp(j)][s]
      <4>1. n \in Stored(t) /\ n \in K BY <3>1, WindowFacts, StoredFacts DEF K, Kept
      <4>2. n.inst = j /\ n.slot = s BY <3>1 DEF Core, WhereSet
      <4>3. Shown(t, n) BY <2>1, <3>1, <4>2 DEF Shown
      <4>4. w = Disp(m.inst) BY <1>1, <3>4, WindowFacts
      <4>5. j = m.inst BY <1>1, <3>4, <4>4, WindowFacts
      <4>6. n.tx = m.tx BY <1>13a, <3>4, <4>1, <4>2, <4>3, <4>4, <4>5
      <4>7. Twins(n, k) BY <1>5, <4>1, <4>6, CoreFacts DEF K
      <4>8. m.real = a BY <3>1, <4>7 DEF Twins
      <4>9. u.opt[Disp(j)][s] = m BY <1>2, <3>4, WindowFacts
      <4>10. QED BY <1>1, <3>2, <4>8, <4>9
    <3>5. QED BY <3>3, <3>4
  <2>2. QED BY <1>2, <2>1 DEF AgentsOK
<1>20. SlotsOK(u, i, e, q, d)
  <2>1. ASSUME t.own[i], NEW s \in Slots PROVE PadOK(u, i, e, q, d, s)
    <3>1. PadOK(t, i, e, q, d, s) BY <2>1 DEF Core, SlotsOK
    <3>2. ASSUME q[s] # None, NEW n \in K2 \cup d, Live(u, n) PROVE n.real # q[s]
      <4>1. PICK n1 \in K \cup d : Twins(n, n1) BY <1>7
      <4>2. Live(t, n1) BY <1>6, <3>2, <4>1 DEF Live, Twins
      <4>3. n1.real # q[s] BY <3>1, <3>2, <4>2 DEF PadOK, K
      <4>4. QED BY <4>1, <4>3 DEF Twins
    <3>3. QED BY <1>2, <3>1, <3>2 DEF PadOK, K2
  <2>2. QED BY <1>2, <2>1 DEF SlotsOK
<1>21. QED
  BY <1>10, <1>11, <1>12, <1>13, <1>15, <1>16, <1>17, <1>18, <1>19, <1>20 DEF Core

\* Clearing the markers of a transaction that is not displayed.
LEMMA ClearCore ==
    ASSUME NEW t \in ServerType, NEW i \in Insts, NEW e, NEW q, NEW d, NEW x,
           Core(t, i, e, q, d, x), NEW m \in Kept(t, i, e) \cup d,
           NEW w \in Windows, w \in Displays => ~Shown(t, m),
           NEW u \in ServerType, u = ClearMatching(t, w, m.slot, m.tx)
    PROVE  Core(u, i, e, q, d, x)
<1> DEFINE K == Kept(t, i, e)
           K2 == Kept(u, i, e)
<1>1. /\ m.slot \in Slots /\ m.agent \in Agents /\ m.real \in Panes /\ m # None
      /\ m.inst \in Insts
  BY CoreFacts, StateFacts
<1>2. /\ u.at = t.at /\ u.own = t.own /\ u.keep = t.keep
      /\ \A v \in Windows, s \in Slots :
           \/ u.opt[v][s] = t.opt[v][s]
           \/ /\ v = w /\ s = m.slot /\ u.opt[v][s] = None
              /\ t.opt[w][s] # None /\ t.opt[w][s].tx = m.tx
  BY <1>1 DEF ServerType, ClearMatching
<1>3. Stored(u) \subseteq Stored(t)
  <2>1. ASSUME NEW n \in Stored(u) PROVE n \in Stored(t)
    <3>1. PICK v \in Windows, s \in Slots : u.opt[v][s] = n BY StoredFacts
    <3>2. n # None BY StoredFacts, StateFacts
    <3>3. t.opt[v][s] = n BY <1>2, <3>1, <3>2
    <3>4. QED BY <3>2, <3>3, StoredFacts
  <2>2. QED BY <2>1
<1>4. Held(u, i, e) = Held(t, i, e) /\ K2 \subseteq K /\ Dead(u, d) = Dead(t, d)
      /\ Dead(u, Stored(u)) \subseteq Dead(t, Stored(t))
  BY <1>2, <1>3 DEF Held, Kept, Dead
<1>5. \A n : (Live(u, n) <=> Live(t, n)) /\ (Shown(u, n) <=> Shown(t, n))
  BY <1>2 DEF Live, Shown
<1> HIDE DEF K, K2
\* What is cleared at a display window is the marker of no displayed agent.
<1>6. ASSUME NEW j \in Insts, NEW s \in Slots, u.opt[Disp(j)][s] # t.opt[Disp(j)][s]
      PROVE  /\ t.opt[Disp(j)][s] # None /\ t.opt[Disp(j)][s].tx = m.tx
             /\ Twins(t.opt[Disp(j)][s], m) /\ ~Shown(t, t.opt[Disp(j)][s])
             /\ ~Shown(t, m)
  <2> DEFINE n == t.opt[Disp(j)][s]
  <2>1. n # None /\ n.tx = m.tx /\ Disp(j) = w BY <1>2, <1>6, WindowFacts
  <2>2. n \in K BY <2>1, WindowFacts, StoredFacts DEF K, Kept
  <2>3. Twins(n, m) BY <2>1, <2>2, CoreFacts DEF K
  <2>4. ~Shown(t, m) BY <2>1 DEF Displays
  <2>5. QED BY <2>1, <2>3, <2>4, AlikeFacts
<1>7. PlacesOK(u, i) BY <1>2 DEF Core, PlacesOK
<1>8. RecordsOK(u, i, e, d, x) BY <1>2, <1>4 DEF Core, RecordsOK, RecordOK, K, K2
<1>9. Agree(u, i, e, d) BY <1>4, <1>5 DEF Core, Agree, K, K2
<1>10. WhereSet(u)
  <2>1. ASSUME NEW j \in Insts, NEW s \in Slots, u.opt[Disp(j)][s] # None
        PROVE  u.opt[Disp(j)][s].inst = j /\ u.opt[Disp(j)][s].slot = s
    <3>1. u.opt[Disp(j)][s] = t.opt[Disp(j)][s] BY <1>2, <2>1, WindowFacts
    <3>2. QED BY <2>1, <3>1 DEF Core, WhereSet
  <2>2. QED BY <2>1 DEF WhereSet
<1>11. ShownMarked(u, i, e, d)
  <2>1. ASSUME NEW n \in K2 \cup Dead(t, d), Shown(t, n) PROVE Marked(u, n)
    <3>1. Marked(t, n) /\ n \in SwapState /\ n \in K \cup d
      BY <1>4, <2>1, CoreFacts DEF K, Dead
    <3>2. n.inst \in Insts /\ n.slot \in Slots BY <3>1, StateFacts
    <3>3. CASE u.opt[Disp(n.inst)][n.slot] = t.opt[Disp(n.inst)][n.slot]
      BY <3>1, <3>3 DEF Marked
    <3>4. CASE u.opt[Disp(n.inst)][n.slot] # t.opt[Disp(n.inst)][n.slot]
      <4>1. n.tx = m.tx /\ ~Shown(t, m) BY <1>6, <3>1, <3>2, <3>4 DEF Marked
      <4>2. Twins(n, m) BY <3>1, <4>1, CoreFacts DEF K
      <4>3. QED BY <2>1, <4>1, <4>2, AlikeFacts
    <3>5. QED BY <3>3, <3>4
  <2>2. QED BY <1>4, <1>5, <2>1 DEF ShownMarked, K2
<1>12. One(u, i, e) BY <1>4, <1>5 DEF Core, One, K, K2
<1>13. OneDead(u, d) BY <1>4, <1>5 DEF Core, OneDead
<1>14. ShownHeld(u, i, e) BY <1>2, <1>3, <1>5 DEF Core, ShownHeld
<1>15. AgentsOK(u)
  <2>1. ASSUME NEW a \in Agents, NEW j \in Insts, t.at[a] = Disp(j)
        PROVE  /\ t.keep[j]
               /\ \E s \in Slots : u.opt[Disp(j)][s] # None /\ u.opt[Disp(j)][s].real = a
    <3>1. PICK s \in Slots : t.opt[Disp(j)][s] # None /\ t.opt[Disp(j)][s].real = a
      BY <2>1 DEF Core, AgentsOK
    <3>2. t.opt[Disp(j)][s].inst = j BY <3>1 DEF Core, WhereSet
    <3>3. Shown(t, t.opt[Disp(j)][s]) BY <2>1, <3>1, <3>2 DEF Shown
    <3>4. u.opt[Disp(j)][s] = t.opt[Disp(j)][s] BY <1>6, <3>3
    <3>5. t.keep[j] BY <2>1 DEF Core, AgentsOK
    <3>6. QED BY <3>1, <3>4, <3>5
  <2>2. QED BY <1>2, <2>1 DEF AgentsOK
<1>16. SlotsOK(u, i, e, q, d) BY <1>2, <1>4, <1>5 DEF Core, SlotsOK, PadOK, K, K2
<1>17. QED
  BY <1>7, <1>8, <1>9, <1>10, <1>11, <1>12, <1>13, <1>14, <1>15, <1>16 DEF Core

\* The two directions of a swap: out of the home window, or back into it.
Leaves(t, i, e, k) == /\ k \in Held(t, i, e) /\ t.at[k.real] \in Home(k.agent)
                      /\ t.at[k.ph] = Disp(k.inst) /\ Marked(t, k) /\ t.keep[i]
Returns(t, k) == Shown(t, k) /\ t.at[k.ph] \in Home(k.agent)

\* The placeholder of a transaction that is swapped is the pane of no other.
PadApart(t, i, e, q, d, k) ==
    /\ \A n \in Kept(t, i, e) \cup Dead(t, d) : Live(t, n) => n.real # k.ph
    /\ t.own[i] => \A s \in Slots : (q[s] # None => q[s] # k.real) /\ (q[s] = k.ph => e[s] = k)
    /\ k \in Held(t, i, e) => \A n \in d : Live(t, n) => n.real # k.ph

LEMMA HeldApart ==
    ASSUME NEW t \in ServerType, NEW i \in Insts, NEW e, NEW q, NEW d, NEW x,
           Core(t, i, e, q, d, x), NEW k \in Held(t, i, e), Live(t, k)
    PROVE  PadApart(t, i, e, q, d, k)
<1>1. /\ t.own[i] /\ k.slot \in Slots /\ e[k.slot] = k /\ q[k.slot] = k.ph /\ k # None
      /\ k \in Kept(t, i, e)
  BY HeldFacts DEF Kept
<1>2. \A s \in Slots : PadOK(t, i, e, q, d, s) BY <1>1 DEF Core, SlotsOK
<1>3. k.ph \in Pads /\ k.ph # None
  BY <1>1, CoreFacts, PanesAssumption DEF RecordOK, Panes
<1>4. \A n \in Kept(t, i, e) \cup d : Live(t, n) => n.real # k.ph
  BY <1>1, <1>2, <1>3 DEF PadOK
<1>5. \A s \in Slots : q[s] # None => q[s] # k.real BY <1>1, <1>2 DEF PadOK
<1>6. \A s \in Slots : q[s] = k.ph => e[s] = k BY <1>1, <1>2, <1>3 DEF PadOK
<1>7. QED BY <1>4, <1>5, <1>6, HeldFacts DEF PadApart

LEMMA DeadApart ==
    ASSUME NEW t \in ServerType, NEW i \in Insts, NEW e, NEW q, NEW d, NEW x,
           Core(t, i, e, q, d, x), NEW k \in Dead(t, d), Returns(t, k)
    PROVE  /\ PadApart(t, i, e, q, d, k)
           /\ \A n \in Held(t, i, e) : n.agent # k.agent /\ n.real # k.real
<1>1. /\ k \in d /\ ~t.own[k.inst] /\ k \in SwapState /\ Marked(t, k) /\ RecordOK(t, i, x, k)
  BY HeldFacts, CoreFacts DEF Returns
<1>2. k.inst \in Insts /\ k.agent \in Agents BY <1>1, StateFacts
<1>3. Live(t, k) BY <1>2, WindowFacts DEF Live, Returns, Shown
<1>4. PICK o \in Stored(t) : o.tx = k.tx /\ Twins(o, k) BY <1>1, MarkerFacts
<1>5. o \in Kept(t, i, e) /\ Live(t, o) BY <1>3, <1>4 DEF Kept, Live, Twins
\* A live transaction, or one the process holds, that meets k is k's.
<1>6. ASSUME NEW n \in Kept(t, i, e) \cup Dead(t, d), Live(t, n) \/ n \in Held(t, i, e),
             Meets(k, n)
      PROVE  Twins(n, k)
  <2>1. Meets(o, n) BY <1>4, <1>6, AlikeFacts
  <2>2. CASE n \in Kept(t, i, e)
    <3>1. o.tx = n.tx BY <1>5, <1>6, <2>1, <2>2 DEF Core, One
    <3>2. n.tx = k.tx /\ n \in Kept(t, i, e) \cup d /\ k \in Kept(t, i, e) \cup d
      BY <1>1, <1>4, <2>2, <3>1
    <3>3. QED BY <3>2, CoreFacts
  <2>3. CASE n \in Dead(t, d) /\ n \notin Kept(t, i, e)
    <3>1. Live(t, n) BY <1>6, <2>3 DEF Kept
    <3>2. k.tx = n.tx BY <1>3, <1>6, <2>3, <3>1 DEF Core, OneDead
    <3>3. n \in d BY <2>3, HeldFacts
    <3>4. QED BY <1>1, <3>2, <3>3, CoreFacts
  <2>4. QED BY <1>6, <2>2, <2>3
<1>7. \A n \in Held(t, i, e) : n.agent # k.agent /\ n.real # k.real
  <2>1. ASSUME NEW n \in Held(t, i, e), n.agent = k.agent \/ n.real = k.real PROVE FALSE
    <3>1. Twins(n, k) BY <1>6, <2>1 DEF Meets, Kept
    <3>2. t.own[n.inst] BY HeldFacts
    <3>3. QED BY <1>1, <3>1, <3>2 DEF Twins
  <2>2. QED BY <2>1
<1>8. ASSUME NEW n \in Kept(t, i, e) \cup Dead(t, d), Live(t, n), n.real = k.ph PROVE FALSE
  <2>1. n \in SwapState /\ t.at[n.real] \in Reach(n.agent) BY CoreFacts DEF Dead
  <2>2. n.agent \in Agents BY <2>1, StateFacts
  <2>3. n.agent = k.agent BY <1>2, <1>8, <2>1, <2>2, ReachFacts DEF Returns
  <2>4. Twins(n, k) BY <1>6, <1>8, <2>3 DEF Meets
  <2>5. QED BY <1>1, <1>8, <2>4 DEF Twins, RecordOK
<1>9. ASSUME t.own[i], NEW s \in Slots
      PROVE  (q[s] # None => q[s] # k.real) /\ q[s] # k.ph
  <2>1. PadOK(t, i, e, q, d, s) BY <1>9 DEF Core, SlotsOK
  <2>2. q[s] # None => q[s] # k.real BY <1>1, <1>3, <2>1 DEF PadOK
  <2>3. ASSUME q[s] = k.ph PROVE FALSE
    <3>1. q[s] # None BY <1>1, <2>3, PanesAssumption DEF RecordOK, Panes
    <3>2. CASE e[s] = None BY <1>2, <2>1, <2>3, <3>1, <3>2, WindowFacts DEF PadOK, Returns
    <3>3. CASE e[s] # None
      <4>1. e[s] \in Held(t, i, e) BY <1>9, <3>3, HeldFacts
      <4>2. e[s].agent \in Agents BY <4>1, CoreFacts, StateFacts
      <4>3. e[s].agent # k.agent BY <1>7, <4>1
      <4>4. QED BY <1>2, <2>1, <2>3, <3>3, <4>2, <4>3, WindowFacts DEF PadOK, Returns
    <3>4. QED BY <3>2, <3>3
  <2>4. QED BY <2>2, <2>3
<1>10. k \notin Held(t, i, e) BY <1>7
<1>11. QED BY <1>7, <1>8, <1>9, <1>10 DEF PadApart

LEMMA SwapCore ==
    ASSUME NEW t \in ServerType, NEW i \in Insts, NEW e, NEW q, NEW d, NEW x,
           Core(t, i, e, q, d, x), NEW k \in Kept(t, i, e) \cup d, PadApart(t, i, e, q, d, k),
           Leaves(t, i, e, k) \/ Returns(t, k),
           NEW u \in ServerType, u = SwapPanes(t, k.real, k.ph)
    PROVE  Core(u, i, e, q, d, x)
<1> DEFINE K == Kept(t, i, e)
<1>1. /\ k.slot \in Slots /\ k.agent \in Agents /\ k.real \in Panes /\ k # None
      /\ k.inst \in Insts /\ k.ph \in Panes /\ k.ph \in Pads /\ k.real # k.ph
      /\ k.inst <= i /\ RecordOK(t, i, x, k)
  BY CoreFacts, StateFacts DEF RecordOK
<1>2. /\ u.opt = t.opt /\ u.own = t.own /\ u.keep = t.keep
      /\ u.at[k.real] = t.at[k.ph] /\ u.at[k.ph] = t.at[k.real]
      /\ \A p \in Panes : p # k.real /\ p # k.ph => u.at[p] = t.at[p]
  BY <1>1 DEF ServerType, SwapPanes
<1>3. /\ t.at[k.real] \in Home(k.agent) \cup Displays /\ t.at[k.ph] \in Home(k.agent) \cup Displays
      /\ t.at[k.real] \in Windows /\ t.at[k.ph] \in Windows
  BY <1>1, WindowFacts DEF Leaves, Returns, Shown, Displays
<1>4. /\ Stored(u) = Stored(t) /\ Held(u, i, e) = Held(t, i, e) /\ Kept(u, i, e) = K
      /\ Dead(u, d) = Dead(t, d) /\ Dead(u, Stored(u)) = Dead(t, Stored(t))
  BY <1>2 DEF Stored, Held, Kept, Dead
<1>5. \A n \in K \cup d : n \in SwapState /\ n.real \in Panes /\ n.agent \in Agents
                          /\ n.inst \in Insts /\ RecordOK(t, i, x, n)
  BY CoreFacts, StateFacts
<1>6. \A n : Marked(u, n) <=> Marked(t, n) BY <1>2 DEF Marked
<1>7. ASSUME NEW n \in K \cup d PROVE Live(u, n) <=> Live(t, n)
  BY <1>2, <1>3, <1>5 DEF Live
<1>8. \A a \in Agents : /\ a \in Panes /\ a # k.ph /\ (t.at[a] = Gone => u.at[a] = Gone)
                        /\ a # k.real => u.at[a] = t.at[a]
  BY <1>1, <1>2, <1>3, WindowFacts, PanesAssumption DEF Panes
<1>9. k.real \in Agents => k.real = k.agent
  BY <1>1, PanesAssumption DEF RecordOK
<1> HIDE DEF K
\* What the swap moves into a display window: the transaction it is made for.
<1>10. ASSUME NEW n \in K \cup Dead(t, d), Shown(u, n)
       PROVE  \/ Shown(t, n)
              \/ Leaves(t, i, e, k) /\ n.tx = k.tx /\ Twins(n, k)
  <2>1. n \in K \cup d BY DEF Dead
  <2>2. n.inst \in Insts /\ Disp(n.inst) \in Windows BY <1>5, <2>1, WindowFacts
  <2>3. Live(t, n) BY <1>7, <1>10, <2>1, <2>2 DEF Live, Shown
  <2>4. n.real # k.ph BY <2>3 DEF PadApart, K
  <2>5. CASE n.real # k.real BY <1>2, <1>5, <1>10, <2>1, <2>4, <2>5 DEF Shown
  <2>6. CASE n.real = k.real /\ Returns(t, k)
    BY <1>1, <1>2, <1>10, <2>2, <2>6, WindowFacts DEF Returns, Shown
  <2>7. CASE n.real = k.real /\ Leaves(t, i, e, k)
    <3>1. n.inst = k.inst BY <1>1, <1>2, <1>10, <2>2, <2>7, WindowFacts DEF Leaves, Shown
    <3>2. t.own[k.inst] /\ k \in K BY <2>7, HeldFacts DEF Leaves, K, Kept
    <3>3. n \in K BY <3>1, <3>2 DEF Dead
    <3>4. Meets(n, k) BY <2>7 DEF Meets
    <3>5. n.tx = k.tx BY <2>3, <2>7, <3>2, <3>3, <3>4 DEF Core, One, Leaves, K
    <3>6. Twins(n, k) BY <3>2, <3>3, <3>5, CoreFacts DEF K
    <3>7. QED BY <2>7, <3>5, <3>6
  <2>8. QED BY <2>5, <2>6, <2>7
<1>11. PlacesOK(u, i)
  <2>1. ASSUME NEW a \in Agents PROVE u.at[a] \in Home(a) \cup Displays \cup {Gone}
    <3>1. CASE a = k.real BY <1>2, <1>3, <1>9, <3>1
    <3>2. CASE a # k.real BY <1>8, <3>2 DEF Core, PlacesOK
    <3>3. QED BY <3>1, <3>2
  <2>2. \A p \in Panes, j \in Insts : u.at[p] = Disp(j) => j <= i
    BY <1>1, <1>2 DEF Core, PlacesOK
  <2>3. QED BY <1>2, <2>1, <2>2 DEF Core, PlacesOK
<1>12. RecordsOK(u, i, e, d, x)
  <2>1. ASSUME NEW n \in K \cup d PROVE RecordOK(u, i, x, n)
    <3>1. RecordOK(t, i, x, n) /\ n.real \in Panes /\ n.agent \in Agents BY <1>5
    <3>2. n.real = n.agent \/ (n.real \in Pads /\ u.at[n.agent] = Gone)
      BY <1>8, <3>1 DEF RecordOK
    <3>3. u.at[n.real] \in Home(n.agent) \cup Displays \cup {Gone}
      <4>1. CASE n.real # k.real /\ n.real # k.ph BY <1>2, <3>1, <4>1 DEF RecordOK
      <4>2. CASE n.real = k.real
        <5>1. Live(t, n) BY <1>3, <4>2 DEF Live
        <5>2. n.agent = k.agent BY <4>2, <5>1, CoreFacts DEF K
        <5>3. QED BY <1>2, <1>3, <4>2, <5>2
      <4>3. CASE n.real = k.ph
        <5>1. Live(t, n) BY <1>3, <4>3 DEF Live
        <5>2. k \notin Held(t, i, e) /\ n \in d BY <5>1, <4>3 DEF PadApart, K
        <5>3. Returns(t, k) BY <5>2 DEF Leaves
        <5>4. u.at[n.real] = Disp(k.inst) BY <1>2, <4>3, <5>3 DEF Returns, Shown
        <5>5. QED BY <1>1, <5>4 DEF Displays
      <4>4. QED BY <4>1, <4>2, <4>3
    <3>4. QED BY <3>1, <3>2, <3>3 DEF RecordOK
  <2>2. QED BY <1>4, <2>1 DEF RecordsOK
<1>13. Agree(u, i, e, d) BY <1>4, <1>7 DEF Core, Agree, K
<1>14. WhereSet(u) BY <1>2 DEF Core, WhereSet
<1>15. ShownMarked(u, i, e, d)
  <2>1. ASSUME NEW n \in K \cup Dead(t, d), Shown(u, n) PROVE Marked(t, n)
    <3>1. CASE Shown(t, n) BY <3>1, CoreFacts DEF K
    <3>2. CASE Leaves(t, i, e, k) /\ n.tx = k.tx /\ Twins(n, k)
      BY <3>2, AlikeFacts DEF Leaves
    <3>3. QED BY <1>10, <2>1, <3>1, <3>2
  <2>2. QED BY <1>4, <1>6, <2>1 DEF ShownMarked
<1>16. One(u, i, e) BY <1>4, <1>7 DEF Core, One, K
<1>17. OneDead(u, d)
  <2>1. Dead(t, d) \subseteq d /\ Dead(t, Stored(t)) \subseteq K BY DEF Dead, Kept, K
  <2>2. QED BY <1>4, <1>7, <2>1 DEF Core, OneDead
<1>18. ShownHeld(u, i, e)
  <2>1. ASSUME t.own[i], NEW n \in Stored(t), n.inst = i, Shown(u, n)
        PROVE  e[n.slot] # None /\ e[n.slot].tx = n.tx
    <3>1. n \in K BY DEF K, Kept
    <3>2. CASE Shown(t, n) BY <2>1, <3>2 DEF Core, ShownHeld
    <3>3. CASE Leaves(t, i, e, k) /\ n.tx = k.tx /\ Twins(n, k)
      <4>1. e[k.slot] = k /\ k # None BY <3>3, HeldFacts DEF Leaves
      <4>2. n.slot = k.slot BY <3>3 DEF Twins
      <4>3. QED BY <3>3, <4>1, <4>2
    <3>4. QED BY <1>10, <2>1, <3>1, <3>2, <3>3
  <2>2. QED BY <1>2, <1>4, <2>1 DEF ShownHeld
<1>19. AgentsOK(u)
  <2>1. ASSUME NEW a \in Agents, NEW j \in Insts, u.at[a] = Disp(j)
        PROVE  /\ t.keep[j]
               /\ \E s \in Slots : t.opt[Disp(j)][s] # None /\ t.opt[Disp(j)][s].real = a
    <3>1. CASE a # k.real BY <1>8, <2>1, <3>1 DEF Core, AgentsOK
    <3>2. CASE a = k.real
      <4>1. ~Returns(t, k) BY <1>1, <1>2, <2>1, <3>2, WindowFacts DEF Returns
      <4>2. Leaves(t, i, e, k) BY <4>1
      <4>3. j = k.inst BY <1>1, <1>2, <2>1, <3>2, <4>2, WindowFacts DEF Leaves
      <4>4. k.inst = i BY <4>2, HeldFacts DEF Leaves
      <4>5. Twins(MarkerOf(t, k), k) BY <4>2, MarkerFacts DEF Leaves
      <4>6. QED BY <1>1, <3>2, <4>2, <4>3, <4>4, <4>5 DEF Leaves, Marked, MarkerOf, Twins
    <3>3. QED BY <3>1, <3>2
  <2>2. QED BY <1>2, <2>1 DEF AgentsOK
<1>20. SlotsOK(u, i, e, q, d)
  <2>1. ASSUME t.own[i], NEW s \in Slots PROVE PadOK(u, i, e, q, d, s)
    <3>1. PadOK(t, i, e, q, d, s) BY <2>1 DEF Core, SlotsOK
    <3>2. CASE q[s] # k.ph
      <4>1. ASSUME q[s] # None PROVE u.at[q[s]] = t.at[q[s]]
        <5>1. q[s] \in Panes BY <3>1, <4>1 DEF PadOK, Panes
        <5>2. q[s] # k.real BY <2>1, <4>1 DEF PadApart
        <5>3. QED BY <1>2, <3>2, <5>1, <5>2
      <4>2. ASSUME e[s] # None PROVE q[s] # None
        <5>1. e[s] \in K BY <2>1, <4>2, HeldFacts DEF Kept, K
        <5>2. q[s] \in Pads BY <3>1, <4>2, <5>1, <1>5 DEF PadOK, RecordOK
        <5>3. QED BY <5>2, PanesAssumption DEF Panes
      <4>3. \A n \in K \cup d : Live(u, n) => Live(t, n) BY <1>7
      <4>4. e[s] # None => u.at[q[s]] = t.at[q[s]] BY <4>1, <4>2
      <4>5. Kept(u, i, e) = Kept(t, i, e) BY <1>4 DEF K
      <4>6. \A n \in Kept(t, i, e) \cup d : Live(u, n) => Live(t, n) BY <4>3 DEF K
      <4>7. QED BY <3>1, <4>1, <4>4, <4>5, <4>6 DEF PadOK
    <3>3. CASE q[s] = k.ph
      <4>1. e[s] = k BY <2>1, <3>3 DEF PadApart
      <4>2. u.at[q[s]] = t.at[k.real] BY <1>2, <3>3
      <4>3. e[s].inst = i BY <1>1, <3>1, <4>1 DEF PadOK
      <4>4. t.at[k.real] \in Home(k.agent) \cup {Disp(i)}
        BY <4>1, <4>3 DEF Leaves, Returns, Shown
      <4>5. \A n \in K \cup d : Live(u, n) => Live(t, n) BY <1>7
      <4>6. QED BY <1>1, <1>4, <3>1, <4>1, <4>2, <4>4, <4>5 DEF PadOK, K
    <3>4. QED BY <3>2, <3>3
  <2>2. QED BY <1>2, <2>1 DEF SlotsOK
<1>21. QED
  BY <1>11, <1>12, <1>13, <1>14, <1>15, <1>16, <1>17, <1>18, <1>19, <1>20 DEF Core

-----------------------------------------------------------------------------
(* What the steps of others leave of a launcher at work. *)
LEMMA LauncherFrame ==
    ASSUME NEW t \in ServerType, NEW u \in ServerType, NEW R, LauncherOK(t, R),
           R.at \in RecStLabels => R.st \in SwapState,
           \A j \in Insts : u.own[j] <=> t.own[j],
           \A j \in Insts : t.own[j] /\ t.outer[j] => u.outer[j],
           \A a \in Agents, j \in Insts : ~t.own[j] /\ u.at[a] = Disp(j) => t.at[a] = Disp(j),
           R.at \in {"observe", "mark1", "mark2", "swap"} =>
              \A j \in Insts : ~t.own[j] /\ WindowUp(u, Disp(j)) =>
                 WindowUp(t, Disp(j)) /\ \A s \in Slots : u.opt[Disp(j)][s] = t.opt[Disp(j)][s],
           R.at \in RecStLabels /\ Shown(u, R.st) => Shown(t, R.st),
           R.at \in {"observe", "mark1", "mark2", "swap"} =>
              /\ u.at[R.st.real] = t.at[R.st.real] \/ u.at[R.st.real] = Gone
              /\ Live(u, R.st) => Live(t, R.st),
           R.at \in {"mark1", "mark2", "swap"} /\ Live(u, R.st) =>
              u.at[R.st.ph] = t.at[R.st.ph] \/ u.at[R.st.ph] = Gone
    PROVE  LauncherOK(u, R)
<1> DEFINE m == R.st
<1>1. R.at \in RecStLabels => m.inst \in Insts /\ m.slot \in Slots BY StateFacts
<1>2. {"observe", "mark1", "mark2", "swap", "clear"} \subseteq RecStLabels BY DEF RecStLabels
<1> HIDE DEF m
<1>3. /\ \A i \in Insts : u.own[i] =>
           /\ i \in R.ids /\ u.outer[i] /\ i \notin R.stale
           /\ i \in R.all => i \in R.inuse \/ \E n \in R.rows : n.inst = i
      /\ \A a \in Agents, i \in Insts : ~u.own[i] /\ u.at[a] = Disp(i) =>
           i \in R.inuse \/ \E n \in R.rows : n.real = a /\ n.inst = i
  BY DEF LauncherOK
<1>4. R.at \in RecStLabels => ~u.own[m.inst] /\ \E n \in R.rows : n.tx = m.tx
  BY <1>1 DEF LauncherOK, m
<1>5. ASSUME R.at \in {"observe", "mark1", "mark2", "swap"}
      PROVE  /\ u.at[m.real] \in {Disp(m.inst), Gone}
             /\ WindowUp(u, Disp(m.inst)) => Marked(u, m)
  <2>1. m.inst \in Insts /\ m.slot \in Slots /\ ~t.own[m.inst]
    BY <1>1, <1>2, <1>5 DEF LauncherOK, m
  <2>2. u.at[m.real] \in {Disp(m.inst), Gone} BY <1>5 DEF LauncherOK, m
  <2>3. ASSUME WindowUp(u, Disp(m.inst)) PROVE Marked(u, m)
    <3>1. WindowUp(t, Disp(m.inst)) /\ u.opt[Disp(m.inst)][m.slot] = t.opt[Disp(m.inst)][m.slot]
      BY <1>5, <2>1, <2>3 DEF m
    <3>2. Marked(t, m) BY <1>5, <3>1 DEF LauncherOK, m
    <3>3. QED BY <3>1, <3>2 DEF Marked
  <2>4. QED BY <2>2, <2>3
<1>6. R.at \in {"mark1", "mark2", "swap"} /\ Live(u, m) => u.at[m.ph] \in Home(m.agent) \cup {Gone}
  BY DEF LauncherOK, m
<1>7. /\ R.at = "clear" => ~Shown(u, m)
      /\ R.at \in {"keepers", "outers"} => R.rows = {}
  BY <1>2 DEF LauncherOK, m
<1>8. QED BY <1>3, <1>4, <1>5, <1>6, <1>7 DEF LauncherOK, m

-----------------------------------------------------------------------------
(* What the steps of others leave of the process's own operation. *)
LEMMA AppFrameOK ==
    ASSUME NEW t \in ServerType, NEW u \in ServerType, NEW sl, NEW ap, NEW x,
           AppOK(t, sl, ap, x), ap.inst \in Insts,
           ap.at \in StLabels => ap.st \in SwapState,
           u.own[ap.inst] =>
             /\ t.own[ap.inst]
             /\ ap.at \in {"mark1", "mark2", "swaphome", "keeper"} \cup TxLabels =>
                  u.at[ap.st.real] = t.at[ap.st.real] \/ u.at[ap.st.real] = Gone
             /\ (\/ ap.at \in {"mark1", "mark2", "swaphome"} \cup TxLabels
                 \/ ap.at = "clear" /\ ap.for # "reaped") =>
                  u.at[ap.st.ph] = t.at[ap.st.ph] \/ u.at[ap.st.ph] = Gone
             /\ ap.at = "clear" /\ Shown(u, ap.st) => Shown(t, ap.st)
             /\ \A a \in Agents : t.at[a] = Gone => u.at[a] = Gone
             /\ t.keep[ap.inst] => u.keep[ap.inst]
             /\ \A s \in Slots : u.opt[Disp(ap.inst)][s] = t.opt[Disp(ap.inst)][s]
             /\ \A n \in Stored(u) : Live(u, n) =>
                  \E k \in Stored(t) : Live(t, k) /\ k.agent = n.agent
    PROVE  AppOK(u, sl, ap, x)
<1> SUFFICES ASSUME u.own[ap.inst] PROVE AppOK(u, sl, ap, x) BY DEF AppOK
<1> DEFINE m == ap.st
           i == ap.inst
<1>1. AppOK(t, sl, ap, x) /\ t.own[i] OBVIOUS
<1>2. {"mark1", "mark2", "swaphome", "keeper", "clear"} \cup TxLabels \subseteq StLabels
  BY DEF StLabels, TxLabels
<1>3. ap.at \in StLabels => m.slot \in Slots /\ m.agent \in Agents BY StateFacts
<1>4. ap.at \in {"mark1", "mark2", "swaphome"} \cup TxLabels =>
        (Out(t, m) => Out(u, m)) /\ (Back(t, m) => Back(u, m))
  BY DEF Out, Back
<1>5. ap.at \in TxLabels /\ m.inst = i /\ Marked(t, m) => Marked(u, m)
  BY <1>2, <1>3 DEF Marked
<1>6. \A a : Unused(t, Eff(sl, ap), a) => Unused(u, Eff(sl, ap), a) BY DEF Unused
<1>7. /\ \A s \in Slots : sl[s].st # None => sl[s].st.agent = sl[s].agent
      /\ ap.at \in ReturnLabels => sl[ap.slot].st = m
      /\ ap.at \in ReturnLabels \cup {"clear", "home", "gate"} /\ ap.for = "attach" =>
           \A o \in Slots \ {ap.slot} : sl[o].agent # ap.agent
      /\ ap.at \in {"keeper"} \cup TxLabels =>
           /\ m.inst = i /\ m.slot = ap.slot /\ m.agent = ap.agent
           /\ sl[ap.slot].pane = m.ph
  BY <1>1 DEF AppOK
<1>8. ap.at \in {"mark1", "mark2", "swaphome"} => Out(u, m) BY <1>1, <1>4 DEF AppOK
<1>9. ap.at = "clear" =>
         /\ ~Shown(u, m) /\ m.inst = i /\ m.slot = ap.slot
         /\ ap.for # "reaped" => u.at[m.ph] \in {Disp(i), Gone}
         /\ sl[ap.slot].st = m \/ (sl[ap.slot].st = None /\ sl[ap.slot].pane = m.ph)
  BY <1>1 DEF AppOK
<1>10. ap.at = "keeper" =>
         /\ m.tx = x + 1 /\ u.at[m.real] \in Home(m.agent) \cup {Gone}
         /\ m.home \in Home(m.agent) /\ m.ph \in Pads
         /\ m.real = m.agent \/ (m.real \in Pads /\ u.at[m.agent] = Gone)
  BY <1>1, <1>2, <1>3 DEF AppOK
<1>11. /\ ap.at \in {"prep1", "prep2", "swapout"} => Back(u, m) /\ u.keep[i]
       /\ ap.at \in {"verify", "back", "commit1", "commit2"} => Out(u, m)
       /\ ap.at = "verifyback" => Back(u, m)
  BY <1>1, <1>4 DEF AppOK, TxLabels
<1>12. ap.at \in {"swapout", "verify", "back", "commit1", "commit2"} => Marked(u, m)
  BY <1>1, <1>5, <1>7 DEF AppOK, TxLabels
<1>13. ap.at \in NewLabels => Unused(u, Eff(sl, ap), ap.agent)
  BY <1>1, <1>6 DEF AppOK
<1>14. QED BY <1>7, <1>8, <1>9, <1>10, <1>11, <1>12, <1>13 DEF AppOK

\* A change of the markers only.
LEMMA OptLauncher ==
    ASSUME NEW t \in ServerType, NEW u \in ServerType, NEW R, LauncherOK(t, R),
           R.at \in RecStLabels => R.st \in SwapState,
           u.at = t.at, u.own = t.own, u.outer = t.outer,
           R.at \in {"observe", "mark1", "mark2", "swap"} =>
              \A j \in Insts, s \in Slots : ~t.own[j] => u.opt[Disp(j)][s] = t.opt[Disp(j)][s]
    PROVE  LauncherOK(u, R)
<1>1. \A j \in Insts : WindowUp(u, Disp(j)) => WindowUp(t, Disp(j))
  BY DEF WindowUp, PanesIn
<1>2. /\ Shown(u, R.st) => Shown(t, R.st)
      /\ Live(u, R.st) => Live(t, R.st)
  BY DEF Shown, Live
<1>3. QED BY <1>1, <1>2, LauncherFrame

LEMMA OptApp ==
    ASSUME NEW t \in ServerType, NEW u \in ServerType, NEW sl, NEW ap, NEW x,
           AppOK(t, sl, ap, x), ap.inst \in Insts,
           ap.at \in StLabels => ap.st \in SwapState,
           u.at = t.at, u.own = t.own, u.keep = t.keep,
           t.own[ap.inst] =>
             \A s \in Slots : u.opt[Disp(ap.inst)][s] = t.opt[Disp(ap.inst)][s],
           \A n \in Stored(u) : Live(t, n) =>
              \E k \in Stored(t) : Live(t, k) /\ k.agent = n.agent
    PROVE  AppOK(u, sl, ap, x)
BY AppFrameOK DEF Shown, Live

-----------------------------------------------------------------------------
(* Steps that only end panes, of agents and users *)

LEMMA ShrinkLauncher ==
    ASSUME NEW t \in ServerType, NEW u \in ServerType, NEW R, LauncherOK(t, R),
           R.at \in RecStLabels => R.st \in SwapState, Shrinks(t, u),
           \A j \in Insts : t.own[j] /\ t.outer[j] => u.own[j] /\ u.outer[j]
    PROVE  LauncherOK(u, R)
<1>1. \A j \in Insts : t.own[j] => t.outer[j] BY DEF LauncherOK
<1>2. \A j \in Insts : u.own[j] <=> t.own[j] BY <1>1 DEF Shrinks
<1>3. \A a \in Agents, j \in Insts : u.at[a] = Disp(j) => t.at[a] = Disp(j)
  BY WindowFacts DEF Shrinks, Panes
<1>4. ASSUME NEW j \in Insts, WindowUp(u, Disp(j))
      PROVE  WindowUp(t, Disp(j)) /\ \A s \in Slots : u.opt[Disp(j)][s] = t.opt[Disp(j)][s]
  <2>1. CASE \E p \in Panes : u.at[p] = Disp(j)
    BY <2>1, WindowFacts DEF WindowUp, PanesIn, Shrinks
  <2>2. CASE u.own[j] BY <2>2 DEF WindowUp, Shrinks
  <2>3. QED BY <1>4, <2>1, <2>2, WindowFacts DEF WindowUp, PanesIn
<1>5. ASSUME R.at \in RecStLabels
      PROVE  /\ Shown(u, R.st) => Shown(t, R.st)
             /\ Live(u, R.st) => Live(t, R.st)
             /\ u.at[R.st.real] = t.at[R.st.real] \/ u.at[R.st.real] = Gone
             /\ u.at[R.st.ph] = t.at[R.st.ph] \/ u.at[R.st.ph] = Gone
  <2>1. R.st.real \in Panes /\ R.st.ph \in Panes /\ R.st.inst \in Insts
    BY <1>5, StateFacts
  <2>2. QED BY <2>1, WindowFacts DEF Shrinks, Shown, Live
<1>6. {"observe", "mark1", "mark2", "swap", "clear"} \subseteq RecStLabels BY DEF RecStLabels
<1>7. QED BY <1>1, <1>2, <1>3, <1>4, <1>5, <1>6, LauncherFrame

LEMMA ShrinkApp ==
    ASSUME NEW t \in ServerType, NEW u \in ServerType, NEW sl, NEW ap, NEW x,
           AppOK(t, sl, ap, x), ap.inst \in Insts,
           ap.at \in StLabels => ap.st \in SwapState, Shrinks(t, u),
           u.own[ap.inst] /\ t.keep[ap.inst] => u.keep[ap.inst]
    PROVE  AppOK(u, sl, ap, x)
<1>1. ap.at \in StLabels => ap.st.real \in Panes /\ ap.st.ph \in Panes BY StateFacts
<1>2. {"mark1", "mark2", "swaphome", "keeper", "clear"} \cup TxLabels \subseteq StLabels
  BY DEF StLabels, TxLabels
<1>3. ASSUME ap.at \in StLabels
      PROVE  /\ u.at[ap.st.real] = t.at[ap.st.real] \/ u.at[ap.st.real] = Gone
             /\ u.at[ap.st.ph] = t.at[ap.st.ph] \/ u.at[ap.st.ph] = Gone
             /\ Shown(u, ap.st) => Shown(t, ap.st)
  BY <1>1, <1>3, ShrinkSets DEF Shrinks
<1>4. \A a \in Agents : t.at[a] = Gone => u.at[a] = Gone BY DEF Shrinks, Panes
<1>5. u.own[ap.inst] => /\ t.own[ap.inst]
                        /\ \A s \in Slots : u.opt[Disp(ap.inst)][s] = t.opt[Disp(ap.inst)][s]
  BY DEF Shrinks
<1>6. ASSUME NEW n \in Stored(u), Live(u, n)
      PROVE  \E k \in Stored(t) : Live(t, k) /\ k.agent = n.agent
  <2>1. n \in Stored(t) /\ n \in SwapState BY ShrinkSets, StoredFacts
  <2>2. QED BY <1>6, <2>1, ShrinkSets
<1>7. QED BY <1>2, <1>3, <1>4, <1>5, <1>6, AppFrameOK

-----------------------------------------------------------------------------
\* The invariant, at the state's own values.
Away == /\ Core(tm, app.inst, Eff(slots, app), Pad(slots, app), Rows(tm, app, rec), tx)
        /\ AppOK(tm, slots, app, tx)
        /\ RecOK(tm, rec)

LEMMA StateTypes ==
    ASSUME IInv
    PROVE  /\ tm \in ServerType /\ app.inst \in Insts /\ tx \in Nat
           /\ app \in AppType /\ slots \in [Slots -> SlotType] /\ rec \in [Recoverers -> RecType]
           /\ app.at \in StLabels => app.st \in SwapState
           /\ \A r \in Recoverers : rec[r].at \in RecStLabels => rec[r].st \in SwapState
BY DEF IInv, TypeOK, AppType, AppInv, RecInv

LEMMA CoreParts ==
    ASSUME NEW t, NEW i, NEW e, NEW q, NEW d, NEW x, Core(t, i, e, q, d, x)
    PROVE  /\ AgentsOK(t) /\ PlacesOK(t, i) /\ WhereSet(t)
           /\ \A j \in Insts : t.own[j] => j = i
BY DEF Core, PlacesOK

\* A launcher works only where every process has its outer session.
LEMMA OuterStands ==
    ASSUME NEW t, RecOK(t, rec), ~NoRecovery
    PROVE  \A j \in Insts : t.own[j] => t.outer[j]
BY DEF RecOK, LauncherOK, NoRecovery

LEMMA RowsOff ==
    ASSUME NEW t, NEW u, RecOK(t, rec), NoRecovery
    PROVE  /\ UNION {RowsOf(rec[r]) : r \in Recoverers} = {}
           /\ Rows(u, app, rec) = Clearing(u, app)
           /\ RecOK(u, rec)
<1>1. \A r \in Recoverers : rec[r] = Off BY DEF RecOK, NoRecovery
<1>2. RowsOf(Off) = {} BY DEF RowsOf, Off, RecStLabels
<1>3. UNION {RowsOf(rec[r]) : r \in Recoverers} = {} BY <1>1, <1>2
<1>4. Rows(u, app, rec) = Clearing(u, app) BY <1>3 DEF Rows
<1>5. RecOK(u, rec) BY <1>1 DEF RecOK, NoRecovery
<1>6. QED BY <1>3, <1>4, <1>5

\* A command that only ends panes and sessions, while nothing else changes.
LEMMA ShrinkAway ==
    ASSUME IInv, Away, tm' \in ServerType, Shrinks(tm, tm'),
           UNCHANGED <<slots, app, rec, tx>>,
           \/ NoRecovery
           \/ \A j \in Insts : tm.own[j] /\ tm.outer[j] => tm'.own[j] /\ tm'.outer[j],
           tm'.own[app.inst] /\ tm.keep[app.inst] => tm'.keep[app.inst]
    PROVE  Away'
<1> DEFINE i == app.inst
           e == Eff(slots, app)
           q == Pad(slots, app)
<1>1. /\ tm \in ServerType /\ i \in Insts
      /\ app.at \in StLabels => app.st \in SwapState
      /\ \A r \in Recoverers : rec[r].at \in RecStLabels => rec[r].st \in SwapState
  BY StateTypes
<1>2. Core(tm, i, e, q, Rows(tm, app, rec), tx) /\ AppOK(tm, slots, app, tx) /\ RecOK(tm, rec)
  BY DEF Away
<1> HIDE DEF e, q
<1>3. AppOK(tm', slots, app, tx) BY <1>1, <1>2, ShrinkApp
<1>4. RecOK(tm', rec)
  <2>1. CASE NoRecovery BY <1>2, <2>1, RowsOff
  <2>2. CASE ~NoRecovery
    <3>1. ASSUME NEW r \in Recoverers, rec[r].at # "off" PROVE LauncherOK(tm', rec[r])
      BY <1>1, <1>2, <2>2, <3>1, ShrinkLauncher DEF RecOK
    <3>2. QED BY <1>2, <3>1 DEF RecOK
  <2>3. QED BY <2>1, <2>2
<1>5. Rows(tm', app, rec) \subseteq Rows(tm, app, rec)
  BY <1>1 DEF Rows, Clearing, Shrinks
<1>6. Core(tm, i, e, q, Rows(tm', app, rec), tx) BY <1>1, <1>2, <1>5, RowsCore
<1>7. Rows(tm', app, rec) = {} \/ \A j \in Insts : tm.own[j] => tm'.own[j]
  <2>1. \A j \in Insts : tm.own[j] => j = i BY <1>2, CoreParts
  <2>2. CASE tm'.own[i] BY <2>1, <2>2
  <2>3. CASE ~tm'.own[i] /\ NoRecovery
    <3>1. Rows(tm', app, rec) = Clearing(tm', app) BY <1>2, <2>3, RowsOff
    <3>2. QED BY <2>3, <3>1 DEF Clearing
  <2>4. CASE ~tm'.own[i] /\ ~NoRecovery BY <1>2, <2>1, <2>4, OuterStands
  <2>5. QED BY <2>2, <2>3, <2>4
<1>8. Core(tm', i, e, q, Rows(tm', app, rec), tx) BY <1>1, <1>6, <1>7, ShrinkCore
<1>9. QED BY <1>3, <1>4, <1>8 DEF Away, e, q

LEMMA AgentExitsAway ==
    ASSUME IInv, IInv', Away, NEW a \in Agents, AgentExits(a) PROVE Away'
<1>1. tm' \in ServerType /\ tm \in ServerType /\ AgentsOK(tm) /\ app.inst \in Insts /\ a \in Panes
  BY StateTypes, CoreParts DEF IInv, TypeOK, Away, Panes
<1>2. Shrinks(tm, tm') /\ \A j \in Insts : Spares(tm, tm', j)
  BY <1>1, KillPaneShrinks DEF AgentExits
<1>3. QED BY <1>1, <1>2, ShrinkAway DEF AgentExits, Spares

LEMMA NestedClientEndsAway ==
    ASSUME IInv, IInv', Away, NEW p \in Pads, NestedClientEnds(p) PROVE Away'
<1>1. tm' \in ServerType /\ tm \in ServerType /\ AgentsOK(tm) /\ app.inst \in Insts /\ p \in Panes
  BY StateTypes, CoreParts DEF IInv, TypeOK, Away, Panes
<1>2. Shrinks(tm, tm') /\ \A j \in Insts : Spares(tm, tm', j)
  BY <1>1, KillPaneShrinks DEF NestedClientEnds
<1>3. QED BY <1>1, <1>2, ShrinkAway DEF NestedClientEnds, Spares

LEMMA UserKillsSessionAway ==
    ASSUME IInv, IInv', Away, NEW a \in Agents, UserKillsSession(a) PROVE Away'
<1>1. tm' \in ServerType /\ tm \in ServerType /\ AgentsOK(tm) /\ app.inst \in Insts
  BY StateTypes, CoreParts DEF IInv, TypeOK, Away
<1>2. Shrinks(tm, tm') /\ \A j \in Insts : Spares(tm, tm', j)
  BY <1>1, KillAgentSessionShrinks DEF UserKillsSession
<1>3. QED BY <1>1, <1>2, ShrinkAway DEF UserKillsSession, Spares

LEMMA UserKillsOuterAway ==
    ASSUME IInv, IInv', Away, ~Overlap, NEW i \in Insts, UserKillsOuter(i) PROVE Away'
<1>1. tm' \in ServerType /\ tm \in ServerType /\ AgentsOK(tm) /\ app.inst \in Insts
  BY StateTypes, CoreParts DEF IInv, TypeOK, Away
<1>2. Shrinks(tm, tm') /\ \A j \in Insts : tm'.own[j] => (tm'.keep[j] <=> tm.keep[j])
  BY <1>1, KillOuterShrinks DEF UserKillsOuter, Spares
<1>3. QED BY <1>1, <1>2, ShrinkAway DEF UserKillsOuter

-----------------------------------------------------------------------------
(* Steps that only add panes, and the end of a process *)

LEMMA AddsLauncher ==
    ASSUME NEW t \in ServerType, NEW u \in ServerType, NEW R, LauncherOK(t, R),
           R.at \in RecStLabels => R.st \in SwapState, NEW i, Adds(t, u, i),
           \A p \in Panes, j \in Insts : ~t.own[j] /\ u.at[p] = Disp(j) => t.at[p] = Disp(j),
           \A j \in Insts : t.own[j] /\ t.outer[j] => u.outer[j]
    PROVE  LauncherOK(u, R)
<1>1. u.own = t.own /\ u.opt = t.opt BY DEF Adds
<1>2. ASSUME NEW j \in Insts, ~t.own[j], WindowUp(u, Disp(j))
      PROVE  WindowUp(t, Disp(j)) /\ \A s \in Slots : u.opt[Disp(j)][s] = t.opt[Disp(j)][s]
  BY <1>1, <1>2, WindowFacts DEF WindowUp, PanesIn
<1>3. R.at \in RecStLabels =>
        R.st.real \in Panes /\ R.st.ph \in Panes /\ R.st.inst \in Insts /\ R.st.agent \in Agents
  BY StateFacts
<1>4. {"observe", "mark1", "mark2", "swap", "clear"} \subseteq RecStLabels BY DEF RecStLabels
<1>5. R.at \in RecStLabels /\ Shown(u, R.st) => Shown(t, R.st)
  BY <1>3 DEF Shown, LauncherOK
<1>6. R.at \in {"observe", "mark1", "mark2", "swap"} =>
        u.at[R.st.real] = t.at[R.st.real] /\ (Live(u, R.st) => Live(t, R.st))
  BY <1>3, <1>4, WindowFacts DEF LauncherOK, Adds, Live
<1>7. R.at \in {"mark1", "mark2", "swap"} /\ Live(u, R.st) => u.at[R.st.ph] = t.at[R.st.ph]
  BY <1>3, <1>4, <1>6, WindowFacts DEF LauncherOK, Adds
<1>8. \A a \in Agents, j \in Insts : ~t.own[j] /\ u.at[a] = Disp(j) => t.at[a] = Disp(j)
  BY DEF Panes
<1>9. QED BY <1>1, <1>2, <1>5, <1>6, <1>7, <1>8, LauncherFrame

LEMMA AddsApp ==
    ASSUME NEW t \in ServerType, NEW u \in ServerType, NEW sl, NEW ap, NEW x,
           AppOK(t, sl, ap, x), ap.inst \in Insts,
           ap.at \in StLabels => ap.st \in SwapState, NEW i, Adds(t, u, i),
           t.own[ap.inst] /\ ap.at = "clear" => t.at[ap.st.real] # Unborn,
           \A n \in Stored(t) : t.at[n.real] # Unborn
    PROVE  AppOK(u, sl, ap, x)
<1>1. /\ u.own = t.own /\ u.opt = t.opt /\ (t.keep[ap.inst] => u.keep[ap.inst])
      /\ \A p \in Panes : t.at[p] # Unborn => u.at[p] = t.at[p]
      /\ \A a \in Agents : u.at[a] = t.at[a]
  BY PanesAssumption DEF Adds, Panes
<1>2. ap.at \in StLabels => /\ ap.st.real \in Panes /\ ap.st.ph \in Panes
                            /\ ap.st.agent \in Agents /\ ap.st.inst \in Insts
  BY StateFacts
<1>3. {"mark1", "mark2", "swaphome", "keeper", "clear"} \cup TxLabels \subseteq StLabels
  BY DEF StLabels, TxLabels
<1>4. ASSUME t.own[ap.inst], ap.at \in {"mark1", "mark2", "swaphome"} \cup TxLabels
      PROVE  u.at[ap.st.real] = t.at[ap.st.real] /\ u.at[ap.st.ph] = t.at[ap.st.ph]
  <2>1. Out(t, ap.st) \/ Back(t, ap.st) BY <1>4 DEF AppOK, TxLabels
  <2>2. t.at[ap.st.real] # Unborn /\ t.at[ap.st.ph] # Unborn
    BY <1>2, <1>3, <1>4, <2>1, WindowFacts DEF Out, Back
  <2>3. QED BY <1>1, <1>2, <1>3, <1>4, <2>2
<1>5. t.own[ap.inst] /\ ap.at = "keeper" => u.at[ap.st.real] = t.at[ap.st.real]
  BY <1>1, <1>2, <1>3, WindowFacts DEF AppOK
<1>6. t.own[ap.inst] /\ ap.at = "clear" => u.at[ap.st.real] = t.at[ap.st.real]
  BY <1>1, <1>2, <1>3
<1>7. t.own[ap.inst] /\ ap.at = "clear" /\ ap.for # "reaped" => u.at[ap.st.ph] = t.at[ap.st.ph]
  BY <1>1, <1>2, <1>3, WindowFacts DEF AppOK
<1>8. ASSUME NEW n \in Stored(u), Live(u, n), t.own[ap.inst]
      PROVE  \E k \in Stored(t) : Live(t, k) /\ k.agent = n.agent
  <2>1. n \in Stored(t) /\ n.real \in Panes BY <1>1, StoredFacts, StateFacts DEF Stored
  <2>2. QED BY <1>1, <1>8, <2>1 DEF Live
<1>9. QED BY <1>1, <1>4, <1>5, <1>6, <1>7, <1>8, AppFrameOK DEF Shown

LEMMA NotUnborn ==
    ASSUME NEW t \in ServerType, NEW i \in Insts, NEW e, NEW q, NEW d, NEW x,
           Core(t, i, e, q, d, x)
    PROVE  /\ \A m \in Kept(t, i, e) \cup d : t.at[m.real] # Unborn
           /\ \A m \in Stored(t) : t.at[m.real] # Unborn
           /\ t.own[i] => \A s \in Slots : q[s] # None => t.at[q[s]] # Unborn
<1>1. \A m \in Kept(t, i, e) \cup d : t.at[m.real] # Unborn
  BY CoreFacts, StateFacts, ReachFacts
<1>2. ASSUME t.own[i], NEW s \in Slots, q[s] # None PROVE t.at[q[s]] # Unborn
  <2>1. PadOK(t, i, e, q, d, s) BY <1>2 DEF Core, SlotsOK
  <2>2. CASE e[s] = None BY <1>2, <2>1, <2>2, WindowFacts DEF PadOK
  <2>3. CASE e[s] # None
    <3>1. e[s] \in Kept(t, i, e) BY <1>2, <2>3, HeldFacts DEF Kept
    <3>2. e[s].agent \in Agents BY <3>1, CoreFacts, StateFacts
    <3>3. QED BY <2>1, <2>3, <3>2, WindowFacts DEF PadOK
  <2>4. QED BY <2>2, <2>3
<1>3. QED BY <1>1, <1>2 DEF Kept

\* A command that only adds panes or clients, outside every display window.
LEMMA AddsAway ==
    ASSUME IInv, Away, tm' \in ServerType, Adds(tm, tm', app.inst),
           UNCHANGED <<slots, app, rec, tx>>,
           \A p \in Panes, j \in Insts : tm'.at[p] = Disp(j) => tm.at[p] = Disp(j),
           \A j \in Insts : tm.outer[j] => tm'.outer[j]
    PROVE  Away'
<1> DEFINE e == Eff(slots, app)
           q == Pad(slots, app)
<1>1. /\ tm \in ServerType /\ app.inst \in Insts
      /\ app.at \in StLabels => app.st \in SwapState
      /\ \A r \in Recoverers : rec[r].at \in RecStLabels => rec[r].st \in SwapState
  BY StateTypes
<1>2. /\ Core(tm, app.inst, e, q, Rows(tm, app, rec), tx)
      /\ AppOK(tm, slots, app, tx) /\ RecOK(tm, rec)
  BY DEF Away
<1> HIDE DEF e, q
<1>3. Core(tm', app.inst, e, q, Rows(tm, app, rec), tx) BY <1>1, <1>2, AddsCore
<1>4. Rows(tm', app, rec) = Rows(tm, app, rec) BY DEF Rows, Clearing, Adds
<1>5. tm.own[app.inst] /\ app.at = "clear" => app.st \in Rows(tm, app, rec)
  BY DEF Rows, Clearing
<1>6. AppOK(tm', slots, app, tx) BY <1>1, <1>2, <1>5, NotUnborn, AddsApp
<1>7. RecOK(tm', rec)
  <2>1. ASSUME NEW r \in Recoverers, rec[r].at # "off" PROVE LauncherOK(tm', rec[r])
    BY <1>1, <1>2, <2>1, AddsLauncher DEF RecOK
  <2>2. QED BY <1>2, <2>1 DEF RecOK
<1>8. QED BY <1>3, <1>4, <1>6, <1>7 DEF Away, e, q

LEMMA UserAttachesAway ==
    ASSUME IInv, IInv', Away, NEW a \in Agents, UserAttaches(a) PROVE Away'
<1>1. tm' \in ServerType /\ tm \in ServerType BY DEF IInv, TypeOK
<1>2. /\ tm'.at = tm.at /\ tm'.own = tm.own /\ tm'.opt = tm.opt /\ tm'.keep = tm.keep
      /\ tm'.outer = tm.outer
  BY <1>1 DEF UserAttaches, ServerType
<1>3. \A p \in Panes, j \in Insts : tm.at[p] = Disp(j) => j <= app.inst
  BY DEF Away, Core, PlacesOK
<1>4. Adds(tm, tm', app.inst) BY <1>2, <1>3 DEF Adds
<1>5. QED BY <1>1, <1>2, <1>4, AddsAway DEF UserAttaches

\* The process ends, and with it what its slots held.
LEMMA EndAway ==
    ASSUME IInv, Away, tm' \in ServerType, Shrinks(tm, tm'), ~tm'.own[app.inst], NoRecovery,
           app' = Idle(app.inst), UNCHANGED <<rec, tx>>
    PROVE  Away'
<1>1. tm \in ServerType /\ app.inst \in Insts BY StateTypes
<1>2. /\ Core(tm, app.inst, Eff(slots, app), Pad(slots, app), Rows(tm, app, rec), tx)
      /\ RecOK(tm, rec)
  BY DEF Away
<1>3. app'.inst = app.inst BY DEF Idle
<1>4. RecOK(tm', rec') /\ Rows(tm', app', rec') = {}
  <2>1. UNION {RowsOf(rec'[r]) : r \in Recoverers} = {} /\ RecOK(tm', rec') BY <1>2, RowsOff
  <2>2. Clearing(tm', app') = {} BY <1>3 DEF Clearing
  <2>3. QED BY <2>1, <2>2 DEF Rows
<1>5. Core(tm, app.inst, Eff(slots, app), Pad(slots, app), {}, tx)
  BY <1>1, <1>2, RowsCore
<1>6. Core(tm', app.inst, Eff(slots, app), Pad(slots, app), {}, tx)
  BY <1>1, <1>5, ShrinkCore
<1>7. Core(tm', app.inst, Eff(slots', app'), Pad(slots', app'), {}, tx)
  BY <1>1, <1>6, SlotsCore
<1>8. AppOK(tm', slots', app', tx') BY <1>3 DEF AppOK
<1>9. QED BY <1>3, <1>4, <1>7, <1>8 DEF Away

LEMMA AppKilledAway ==
    ASSUME IInv, IInv', Away, ~Overlap, AppKilled PROVE Away'
<1>1. tm' \in ServerType /\ tm \in ServerType /\ AgentsOK(tm) /\ app.inst \in Insts
  BY StateTypes, CoreParts DEF IInv, TypeOK, Away
<1>2. Shrinks(tm, tm') /\ ~tm'.own[app.inst] BY <1>1, OwnerDiesShrinks DEF AppKilled
<1>3. QED BY <1>1, <1>2, EndAway DEF AppKilled

LEMMA ByeAway ==
    ASSUME IInv, IInv', Away, ~Overlap, Bye PROVE Away'
<1>1. tm' \in ServerType /\ tm \in ServerType /\ AgentsOK(tm) /\ app.inst \in Insts
  BY StateTypes, CoreParts DEF IInv, TypeOK, Away
<1>2. tm' = HardQuit(tm, app.inst) \/ tm' = OwnerDies(tm, app.inst) BY DEF Bye, HardQuit
<1>3. Shrinks(tm, tm') /\ ~tm'.own[app.inst]
  BY <1>1, <1>2, OwnerDiesShrinks, HardQuitShrinks
<1>4. QED BY <1>1, <1>3, EndAway DEF Bye

-----------------------------------------------------------------------------
(* The records of a launcher at work *)

LEMMA RunFacts ==
    ASSUME IInv, Away, NEW r \in Recoverers, rec[r].at # "off"
    PROVE  /\ LauncherOK(tm, rec[r]) /\ rec[r] \in RecType
           /\ \A o \in Recoverers \ {r} : rec[o].at = "off"
           /\ \A j \in Insts : tm.own[j] => tm.outer[j] /\ j = app.inst
           /\ rec[r].rows \subseteq Rows(tm, app, rec)
           /\ \A n \in rec[r].rows : ~tm.own[n.inst] => n \in Dead(tm, Rows(tm, app, rec))
           /\ rec[r].at \in RecStLabels =>
                /\ rec[r].st \in Rows(tm, app, rec) /\ rec[r].st \in SwapState
                /\ rec[r].st \in Dead(tm, Rows(tm, app, rec))
           /\ \A m, n \in Rows(tm, app, rec) : m.tx = n.tx => Twins(m, n)
<1>1. /\ LauncherOK(tm, rec[r]) /\ \A o \in Recoverers \ {r} : rec[o].at = "off"
  BY DEF Away, RecOK
<1>2. /\ rec[r] \in RecType
      /\ rec[r].at \in RecStLabels => rec[r].st \in SwapState
      /\ tm \in ServerType /\ app.inst \in Insts
  BY StateTypes
<1>3. RowsOf(rec[r]) \subseteq Rows(tm, app, rec) BY DEF Rows
<1>4. /\ rec[r].rows \subseteq Rows(tm, app, rec)
      /\ rec[r].at \in RecStLabels => rec[r].st \in Rows(tm, app, rec)
  BY <1>3 DEF RowsOf
<1>5. rec[r].at \in RecStLabels => rec[r].st \in Dead(tm, Rows(tm, app, rec))
  BY <1>1, <1>4 DEF LauncherOK, Dead
<1>6. Core(tm, app.inst, Eff(slots, app), Pad(slots, app), Rows(tm, app, rec), tx) BY DEF Away
<1>7. \A j \in Insts : tm.own[j] => tm.outer[j] /\ j = app.inst
  BY <1>1, <1>6, CoreParts DEF LauncherOK
<1>8. \A m, n \in Rows(tm, app, rec) : m.tx = n.tx => Twins(m, n) BY <1>2, <1>6, CoreFacts
<1>9. \A n \in rec[r].rows : ~tm.own[n.inst] => n \in Dead(tm, Rows(tm, app, rec))
  BY <1>4 DEF Dead
<1>10. QED BY <1>1, <1>2, <1>4, <1>5, <1>7, <1>8, <1>9

\* What a step of a launcher has to show.
LEMMA RecAway ==
    ASSUME IInv, IInv', Away, NEW r \in Recoverers, UNCHANGED <<slots, app, tx>>,
           NEW R, rec' = [rec EXCEPT ![r] = R],
           \A o \in Recoverers \ {r} : rec[o].at = "off",
           NEW d, Core(tm', app.inst, Eff(slots, app), Pad(slots, app), d, tx),
           Rows(tm, app, rec) \subseteq d, tm'.own[app.inst] => tm.own[app.inst],
           RowsOf(R) \subseteq d \cup Kept(tm', app.inst, Eff(slots, app)),
           AppOK(tm', slots, app, tx),
           R = Off \/ (R.at # "off" /\ LauncherOK(tm', R))
    PROVE  Away'
<1>1. rec \in [Recoverers -> RecType] /\ app.inst \in Insts /\ tm' \in ServerType
  BY StateTypes DEF IInv, TypeOK
<1>2. rec'[r] = R /\ \A o \in Recoverers \ {r} : rec'[o] = rec[o] BY <1>1
<1>3. Rows(tm', app, rec') \subseteq d \cup Kept(tm', app.inst, Eff(slots, app))
  <2>1. Clearing(tm', app) \subseteq d BY DEF Clearing, Rows
  <2>2. ASSUME NEW o \in Recoverers \ {r} PROVE RowsOf(rec'[o]) \subseteq d
    BY <1>2 DEF Rows
  <2>3. QED BY <1>2, <2>1, <2>2 DEF Rows
<1>4. Core(tm', app.inst, Eff(slots, app), Pad(slots, app), Rows(tm', app, rec'), tx)
  BY <1>1, <1>3, RowsCore
<1>5. RecOK(tm', rec')
  <2>1. \A o \in Recoverers \ {r} : rec'[o].at = "off" /\ rec'[o] = Off
    BY <1>2 DEF Away, RecOK
  <2>2. CASE R = Off BY <1>2, <2>1, <2>2, OffType DEF RecOK
  <2>3. CASE R.at # "off" /\ LauncherOK(tm', R) BY <1>2, <2>1, <2>3 DEF RecOK
  <2>4. QED BY <2>2, <2>3
<1>6. QED BY <1>4, <1>5 DEF Away

\* The records a launcher goes on with.
Left(R, m) == [R EXCEPT !.at = "each", !.inuse = @ \cup {m.inst},
                        !.rows = {n \in @ : n.tx # m.tx}]
Repaired(R, m) == [R EXCEPT !.at = "clear", !.st = m, !.todo = BothWindows(m)]
Going(R, l, m) == [R EXCEPT !.at = l, !.st = m]
Done(R) == [R EXCEPT !.at = "each", !.todo = {}, !.stale = @ \cup {R.st.inst},
                     !.rows = {n \in @ : n.tx # R.st.tx}]

LEMMA LeftOK ==
    ASSUME NEW t, NEW R \in RecType, LauncherOK(t, R), NEW m,
           \A n \in R.rows : n.tx = m.tx => n.inst = m.inst
    PROVE  /\ LauncherOK(t, Left(R, m)) /\ Left(R, m).at # "off"
           /\ RowsOf(Left(R, m)) \subseteq RowsOf(R)
<1> DEFINE R2 == Left(R, m)
<1>1. /\ R2.at = "each" /\ R2.ids = R.ids /\ R2.stale = R.stale /\ R2.all = R.all
      /\ R2.inuse = R.inuse \cup {m.inst} /\ R2.rows = {n \in R.rows : n.tx # m.tx}
  BY DEF RecType, Left
<1> HIDE DEF R2
<1>2. LauncherOK(t, R2) BY <1>1 DEF LauncherOK, RecStLabels
<1>3. RowsOf(R2) \subseteq RowsOf(R) BY <1>1 DEF RowsOf, RecStLabels
<1>4. QED BY <1>1, <1>2, <1>3 DEF R2

LEMMA RepairedOK ==
    ASSUME NEW t, NEW R \in RecType, LauncherOK(t, R), NEW m, ~t.own[m.inst], ~Shown(t, m),
           \E n \in R.rows : n.tx = m.tx
    PROVE  /\ LauncherOK(t, Repaired(R, m)) /\ Repaired(R, m).at # "off"
           /\ RowsOf(Repaired(R, m)) \subseteq RowsOf(R) \cup {m}
<1> DEFINE R2 == Repaired(R, m)
<1>1. /\ R2.at = "clear" /\ R2.ids = R.ids /\ R2.stale = R.stale /\ R2.all = R.all
      /\ R2.inuse = R.inuse /\ R2.rows = R.rows /\ R2.st = m
  BY DEF RecType, Repaired
<1> HIDE DEF R2
<1>2. LauncherOK(t, R2) BY <1>1 DEF LauncherOK
<1>3. RowsOf(R2) \subseteq RowsOf(R) \cup {m} BY <1>1 DEF RowsOf
<1>4. QED BY <1>1, <1>2, <1>3 DEF R2

LEMMA GoingOK ==
    ASSUME NEW t, NEW R \in RecType, LauncherOK(t, R), NEW m, ~t.own[m.inst],
           \E n \in R.rows : n.tx = m.tx,
           NEW l \in {"observe", "mark1", "mark2", "swap", "verify"},
           l # "verify" => /\ t.at[m.real] \in {Disp(m.inst), Gone}
                           /\ WindowUp(t, Disp(m.inst)) => Marked(t, m),
           l \in {"mark1", "mark2", "swap"} /\ Live(t, m) =>
              t.at[m.ph] \in Home(m.agent) \cup {Gone}
    PROVE  /\ LauncherOK(t, Going(R, l, m)) /\ Going(R, l, m).at # "off"
           /\ RowsOf(Going(R, l, m)) \subseteq RowsOf(R) \cup {m}
<1> DEFINE R2 == Going(R, l, m)
<1>1. /\ R2.at = l /\ R2.ids = R.ids /\ R2.stale = R.stale /\ R2.all = R.all
      /\ R2.inuse = R.inuse /\ R2.rows = R.rows /\ R2.st = m
  BY DEF RecType, Going
<1> HIDE DEF R2
<1>2. LauncherOK(t, R2) BY <1>1 DEF LauncherOK
<1>3. RowsOf(R2) \subseteq RowsOf(R) \cup {m} BY <1>1 DEF RowsOf
<1>4. QED BY <1>1, <1>2, <1>3 DEF R2

LEMMA DoneOK ==
    ASSUME NEW t, NEW R \in RecType, LauncherOK(t, R), R.at = "clear", NEW u,
           LauncherOK(u, R),
           \A n \in R.rows : n.tx = R.st.tx => Twins(n, R.st)
    PROVE  /\ LauncherOK(u, Done(R)) /\ Done(R).at # "off"
           /\ RowsOf(Done(R)) \subseteq RowsOf(R)
<1> DEFINE R2 == Done(R)
           m == R.st
<1>1. /\ R2.at = "each" /\ R2.ids = R.ids /\ R2.stale = R.stale \cup {m.inst} /\ R2.all = R.all
      /\ R2.inuse = R.inuse /\ R2.rows = {n \in R.rows : n.tx # m.tx}
  BY DEF RecType, Done
<1> HIDE DEF R2
<1>2. ~u.own[m.inst] /\ ~Shown(u, m) BY DEF LauncherOK, RecStLabels
<1>3. /\ \A i \in Insts : u.own[i] =>
           /\ i \in R2.ids /\ u.outer[i] /\ i \notin R2.stale
           /\ i \in R2.all => i \in R2.inuse \/ \E n \in R2.rows : n.inst = i
  BY <1>1, <1>2 DEF LauncherOK, Twins
<1>4. \A a \in Agents, i \in Insts : ~u.own[i] /\ u.at[a] = Disp(i) =>
         i \in R2.inuse \/ \E n \in R2.rows : n.real = a /\ n.inst = i
  BY <1>1, <1>2 DEF LauncherOK, Twins, Shown
<1>5. LauncherOK(u, R2) BY <1>1, <1>3, <1>4 DEF LauncherOK, RecStLabels
<1>6. RowsOf(R2) \subseteq RowsOf(R) BY <1>1 DEF RowsOf, RecStLabels
<1>7. QED BY <1>1, <1>5, <1>6 DEF R2

\* How the steps write these records.
LEMMA RecSteps ==
    ASSUME IInv, NEW r \in Recoverers
    PROVE  /\ \A m : Unresolved(r, m) => rec' = [rec EXCEPT ![r] = Left(rec[r], m)]
           /\ \A m : Fixed(r, m) => rec' = [rec EXCEPT ![r] = Repaired(rec[r], m)]
           /\ \A l : RecTo(r, l) => rec' = [rec EXCEPT ![r] = Going(rec[r], l, rec[r].st)]
           /\ \A l, m : rec' = [rec EXCEPT ![r].at = l, ![r].st = m] =>
                           rec' = [rec EXCEPT ![r] = Going(rec[r], l, m)]
<1>1. rec \in [Recoverers -> RecType] /\ rec[r] \in RecType BY DEF IInv, TypeOK
<1>2. \A l : [rec[r] EXCEPT !.at = l] = Going(rec[r], l, rec[r].st)
  BY <1>1 DEF Going, RecType
<1>3. QED BY <1>1, <1>2 DEF Unresolved, Fixed, RecTo, Left, Repaired, Going

\* What a step of a launcher leaves to the process and to the other records.
Undisturbed ==
    /\ Core(tm', app.inst, Eff(slots, app), Pad(slots, app), Rows(tm, app, rec), tx)
    /\ AppOK(tm', slots, app, tx)
    /\ tm'.own[app.inst] => tm.own[app.inst]
    /\ UNCHANGED <<slots, app, tx>>

LEMMA UndisturbedSame ==
    ASSUME Away, UNCHANGED <<tm, slots, app, tx>>
    PROVE  Undisturbed
BY DEF Away, Undisturbed

LEMMA UndisturbedShrink ==
    ASSUME IInv, IInv', Away, NEW r \in Recoverers, rec[r].at # "off",
           UNCHANGED <<slots, app, tx>>, Shrinks(tm, tm'),
           \A j \in Insts : tm.own[j] /\ tm.outer[j] => tm'.own[j] /\ tm'.outer[j],
           tm'.own[app.inst] /\ tm.keep[app.inst] => tm'.keep[app.inst]
    PROVE  Undisturbed /\ LauncherOK(tm', rec[r])
<1>1. /\ tm \in ServerType /\ app.inst \in Insts /\ tm' \in ServerType
      /\ app.at \in StLabels => app.st \in SwapState
      /\ rec[r].at \in RecStLabels => rec[r].st \in SwapState
  BY StateTypes DEF IInv, TypeOK
<1>2. /\ Core(tm, app.inst, Eff(slots, app), Pad(slots, app), Rows(tm, app, rec), tx)
      /\ AppOK(tm, slots, app, tx)
  BY DEF Away
<1>3. LauncherOK(tm, rec[r]) /\ \A j \in Insts : tm.own[j] => tm.outer[j] /\ j = app.inst
  BY RunFacts
<1>4. Core(tm', app.inst, Eff(slots, app), Pad(slots, app), Rows(tm, app, rec), tx)
  BY <1>1, <1>2, <1>3, ShrinkCore
<1>5. AppOK(tm', slots, app, tx) BY <1>1, <1>2, ShrinkApp
<1>6. LauncherOK(tm', rec[r]) BY <1>1, <1>3, ShrinkLauncher
<1>7. tm'.own[app.inst] => tm.own[app.inst] BY <1>1 DEF Shrinks
<1>8. QED BY <1>4, <1>5, <1>6, <1>7 DEF Undisturbed

LEMMA LauncherGoes ==
    ASSUME IInv, IInv', Away, Undisturbed, NEW r \in Recoverers, rec[r].at # "off",
           NEW R, rec' = [rec EXCEPT ![r] = R], RowsOf(R) \subseteq Rows(tm, app, rec),
           R = Off \/ (R.at # "off" /\ LauncherOK(tm', R))
    PROVE  Away'
<1>1. \A o \in Recoverers \ {r} : rec[o].at = "off" BY RunFacts
<1>2. QED BY <1>1, RecAway DEF Undisturbed

LEMMA RowsOfHere ==
    ASSUME NEW r \in Recoverers
    PROVE  RowsOf(rec[r]) \subseteq Rows(tm, app, rec)
BY DEF Rows

LEMMA LeftAway ==
    ASSUME IInv, IInv', Away, Undisturbed, NEW r \in Recoverers, rec[r].at # "off",
           LauncherOK(tm', rec[r]), NEW m \in Rows(tm, app, rec), Unresolved(r, m)
    PROVE  Away'
<1>1. rec' = [rec EXCEPT ![r] = Left(rec[r], m)] BY RecSteps
<1>2. rec[r] \in RecType /\ \A n \in rec[r].rows : n.tx = m.tx => n.inst = m.inst
  BY RunFacts DEF Twins
<1>3. /\ LauncherOK(tm', Left(rec[r], m)) /\ Left(rec[r], m).at # "off"
      /\ RowsOf(Left(rec[r], m)) \subseteq RowsOf(rec[r])
  BY <1>2, LeftOK
<1>4. QED BY <1>1, <1>3, RowsOfHere, LauncherGoes

LEMMA FixedAway ==
    ASSUME IInv, IInv', Away, Undisturbed, NEW r \in Recoverers, rec[r].at # "off",
           LauncherOK(tm', rec[r]), NEW m \in Rows(tm, app, rec), Fixed(r, m),
           ~tm'.own[m.inst], ~Shown(tm', m), \E n \in rec[r].rows : n.tx = m.tx
    PROVE  Away'
<1>1. rec' = [rec EXCEPT ![r] = Repaired(rec[r], m)] BY RecSteps
<1>2. rec[r] \in RecType BY RunFacts
<1>3. /\ LauncherOK(tm', Repaired(rec[r], m)) /\ Repaired(rec[r], m).at # "off"
      /\ RowsOf(Repaired(rec[r], m)) \subseteq RowsOf(rec[r]) \cup {m}
  BY <1>2, RepairedOK
<1>4. QED BY <1>1, <1>3, RowsOfHere, LauncherGoes

\* A launcher's record, as it is between two transactions.
Base(R) == [R EXCEPT !.at = "each"]

LEMMA BaseOK ==
    ASSUME NEW R \in RecType, NEW t, LauncherOK(t, R)
    PROVE  /\ LauncherOK(t, Base(R)) /\ Base(R) \in RecType /\ Base(R).at = "each"
           /\ RowsOf(Base(R)) \subseteq RowsOf(R) /\ Base(R).rows = R.rows
           /\ \A l, m : Going(Base(R), l, m) = Going(R, l, m)
<1> DEFINE R2 == Base(R)
<1>1. /\ R2.at = "each" /\ R2.ids = R.ids /\ R2.stale = R.stale /\ R2.all = R.all
      /\ R2.inuse = R.inuse /\ R2.rows = R.rows /\ R2.st = R.st /\ R2 \in RecType
      /\ \A l, m : Going(R2, l, m) = Going(R, l, m)
  BY DEF RecType, Base, RecLabels, Going
<1> HIDE DEF R2
<1>2. LauncherOK(t, R2) BY <1>1 DEF LauncherOK, RecStLabels
<1>3. RowsOf(R2) \subseteq RowsOf(R) BY <1>1 DEF RowsOf, RecStLabels
<1>4. QED BY <1>1, <1>2, <1>3 DEF R2

LEMMA GoingAway ==
    ASSUME IInv, IInv', Away, Undisturbed, NEW r \in Recoverers, rec[r].at # "off",
           LauncherOK(tm', Base(rec[r])), NEW m \in Rows(tm, app, rec),
           NEW l \in {"observe", "mark1", "mark2", "swap", "verify"},
           rec' = [rec EXCEPT ![r] = Going(rec[r], l, m)],
           ~tm'.own[m.inst], \E n \in rec[r].rows : n.tx = m.tx,
           l # "verify" => /\ tm'.at[m.real] \in {Disp(m.inst), Gone}
                           /\ WindowUp(tm', Disp(m.inst)) => Marked(tm', m),
           l \in {"mark1", "mark2", "swap"} /\ Live(tm', m) =>
              tm'.at[m.ph] \in Home(m.agent) \cup {Gone}
    PROVE  Away'
<1> DEFINE R == Base(rec[r])
<1>1. /\ R \in RecType /\ R.rows = rec[r].rows /\ RowsOf(R) \subseteq RowsOf(rec[r])
      /\ Going(R, l, m) = Going(rec[r], l, m)
  BY RunFacts, BaseOK
<1> HIDE DEF R
<1>2. /\ LauncherOK(tm', Going(R, l, m)) /\ Going(R, l, m).at # "off"
      /\ RowsOf(Going(R, l, m)) \subseteq RowsOf(R) \cup {m}
  BY <1>1, GoingOK DEF R
<1>3. QED BY <1>1, <1>2, RowsOfHere, LauncherGoes

LEMMA RecovererKilledAway ==
    ASSUME IInv, IInv', Away, NEW r \in Recoverers, RecovererKilled(r) PROVE Away'
<1>1. RowsOf(Off) = {} BY DEF RowsOf, Off, RecStLabels
<1>2. Undisturbed BY UndisturbedSame DEF RecovererKilled
<1>3. QED BY <1>1, <1>2, LauncherGoes DEF RecovererKilled

LEMMA RecoverListAway ==
    ASSUME IInv, IInv', Away, ~Overlap, NEW r \in Recoverers, RecoverList(r) PROVE Away'
<1> DEFINE d == Rows(tm, app, rec)
           e == Eff(slots, app)
<1>1. PICK g \in Groupings, ids \in SUBSET Insts :
        /\ rec' = [rec EXCEPT ![r] = [Off EXCEPT !.at = "each", !.rows = g,
                     !.ids = ids, !.all = {m.inst : m \in g}]]
        /\ ids = {i \in Insts : tm.outer[i]} \/ ids = Insts
  BY DEF RecoverList
<1> DEFINE R == [Off EXCEPT !.at = "each", !.rows = g, !.ids = ids,
                            !.all = {m.inst : m \in g}]
<1>2. /\ R.at = "each" /\ R.rows = g /\ R.ids = ids /\ R.all = {m.inst : m \in g}
      /\ R.stale = {} /\ R.inuse = {}
  BY DEF Off
<1>3. rec' = [rec EXCEPT ![r] = R] BY <1>1
<1> HIDE DEF R, d, e
<1>4. /\ g \subseteq Stored(tm)
      /\ \A m \in Stored(tm) : \E n \in g : n.tx = m.tx
  BY DEF Groupings, Markers, Stored
<1>5. /\ \A o \in Recoverers : rec[o].at = "off"
      /\ \A i \in Insts : tm.own[i] => tm.outer[i]
  BY DEF RecoverList, Serial, NoRecovery
<1>6. UNCHANGED <<tm, slots, app, tx>> BY DEF RecoverList
<1>7. /\ tm \in ServerType /\ app.inst \in Insts
      /\ Core(tm, app.inst, e, Pad(slots, app), d, tx) /\ AppOK(tm, slots, app, tx)
  BY StateTypes DEF Away, d, e
<1>8. RowsOf(R) \subseteq Kept(tm, app.inst, e)
  BY <1>2, <1>4 DEF RowsOf, RecStLabels, Kept
<1>9. ASSUME NEW a \in Agents, NEW i \in Insts, tm.at[a] = Disp(i)
      PROVE  \E n \in g : n.real = a /\ n.inst = i
  <2>1. PICK s \in Slots : tm.opt[Disp(i)][s] # None /\ tm.opt[Disp(i)][s].real = a
    BY <1>7, <1>9 DEF Core, AgentsOK
  <2> DEFINE m == tm.opt[Disp(i)][s]
  <2>2. m.inst = i /\ m \in Stored(tm) BY <1>7, <2>1, WindowFacts, StoredFacts DEF Core, WhereSet
  <2>3. PICK n \in g : n.tx = m.tx BY <1>4, <2>2
  <2>4. m \in Kept(tm, app.inst, e) /\ n \in Kept(tm, app.inst, e)
    BY <1>4, <2>2 DEF Kept
  <2>5. Twins(n, m) BY <1>7, <2>3, <2>4, CoreFacts
  <2>6. QED BY <2>1, <2>2, <2>5 DEF Twins
<1>10. LauncherOK(tm', R)
  <2>1. \A i \in Insts : tm.own[i] => i \in ids BY <1>1, <1>5
  <2>2. QED BY <1>2, <1>5, <1>6, <1>9, <2>1 DEF LauncherOK, RecStLabels
<1>11. QED BY <1>2, <1>3, <1>5, <1>6, <1>7, <1>8, <1>10, RecAway DEF d, e

LEMMA RecoverKeepersAway ==
    ASSUME IInv, IInv', Away, NEW r \in Recoverers, RecoverKeepers(r) PROVE Away'
<1> DEFINE S == rec[r]
<1>1. /\ LauncherOK(tm, S) /\ S \in RecType /\ tm \in ServerType /\ AgentsOK(tm)
      /\ app.inst \in Insts /\ S.at # "off" /\ rec \in [Recoverers -> RecType]
      /\ S.at \in {"each", "keepers"} /\ S.rows = {}
  BY RunFacts, StateTypes, CoreParts DEF Away, RecoverKeepers
<1> HIDE DEF S
<1>2. ASSUME NEW i \in S.all \ S.inuse,
             rec' = [rec EXCEPT ![r].at = "keepers", ![r].inuse = @ \cup {i}],
             tm' = KillKeeper(tm, i) \/ UNCHANGED tm
      PROVE  Away'
  <2>1. i \in Insts BY <1>1 DEF RecType
  <2>2. ~tm.own[i] /\ \A a \in Agents : tm.at[a] # Disp(i) BY <1>1, <1>2, <2>1 DEF LauncherOK
  <2>3. Undisturbed /\ LauncherOK(tm', S)
    <3>1. CASE UNCHANGED tm BY <1>1, <3>1, UndisturbedSame DEF RecoverKeepers
    <3>2. CASE tm' = KillKeeper(tm, i)
      <4>1. /\ Shrinks(tm, tm')
            /\ \A j \in Insts \ {i} : Spares(tm, tm', j)
        BY <1>1, <2>1, <2>2, <3>2, KillKeeperShrinks
      <4>2. \A j \in Insts : tm'.own[j] => tm.own[j] BY <4>1 DEF Shrinks
      <4>3. /\ \A j \in Insts : tm.own[j] /\ tm.outer[j] => tm'.own[j] /\ tm'.outer[j]
            /\ tm'.own[app.inst] /\ tm.keep[app.inst] => tm'.keep[app.inst]
        BY <1>1, <2>2, <4>1, <4>2 DEF Spares
      <4>4. QED BY <1>1, <4>1, <4>3, UndisturbedShrink DEF RecoverKeepers, S
    <3>3. QED BY <1>2, <3>1, <3>2
  <2> DEFINE R == [S EXCEPT !.at = "keepers", !.inuse = @ \cup {i}]
  <2>4. rec' = [rec EXCEPT ![r] = R] BY <1>1, <1>2 DEF S
  <2>5. /\ R.at = "keepers" /\ R.rows = {} /\ R.ids = S.ids /\ R.all = S.all
        /\ R.stale = S.stale /\ R.inuse = S.inuse \cup {i}
    BY <1>1 DEF RecType
  <2> HIDE DEF R
  <2>6. LauncherOK(tm', R) BY <1>1, <2>3, <2>5 DEF LauncherOK, RecStLabels
  <2>7. RowsOf(R) = {} BY <2>5 DEF RowsOf, RecStLabels
  <2>8. QED BY <1>1, <2>3, <2>4, <2>5, <2>6, <2>7, LauncherGoes DEF S
<1>3. ASSUME rec' = [rec EXCEPT ![r].at = "outers"], UNCHANGED tm PROVE Away'
  <2>1. Undisturbed BY <1>3, UndisturbedSame DEF RecoverKeepers
  <2> DEFINE R == [S EXCEPT !.at = "outers"]
  <2>2. rec' = [rec EXCEPT ![r] = R] BY <1>1, <1>3 DEF S
  <2>3. /\ R.at = "outers" /\ R.rows = {} /\ R.ids = S.ids /\ R.all = S.all
        /\ R.stale = S.stale /\ R.inuse = S.inuse
    BY <1>1 DEF RecType
  <2> HIDE DEF R
  <2>4. LauncherOK(tm', R) BY <1>1, <1>3, <2>3 DEF LauncherOK, RecStLabels
  <2>5. RowsOf(R) = {} BY <2>3 DEF RowsOf, RecStLabels
  <2>6. QED BY <1>1, <2>1, <2>2, <2>3, <2>4, <2>5, LauncherGoes DEF S
<1>4. QED BY <1>2, <1>3 DEF RecoverKeepers, S

LEMMA RecoverOutersAway ==
    ASSUME IInv, IInv', Away, NEW r \in Recoverers, RecoverOuters(r) PROVE Away'
<1> DEFINE S == rec[r]
<1>1. /\ LauncherOK(tm, S) /\ S \in RecType /\ tm \in ServerType /\ AgentsOK(tm)
      /\ app.inst \in Insts /\ S.at = "outers" /\ rec \in [Recoverers -> RecType]
  BY RunFacts, StateTypes, CoreParts DEF Away, RecoverOuters
<1>2. PICK i \in S.stale :
        /\ rec' = [rec EXCEPT ![r].stale = @ \ {i}]
        /\ tm' = KillOuter(tm, i) \/ UNCHANGED tm
  BY DEF RecoverOuters
<1> HIDE DEF S
<1>3. i \in Insts BY <1>1 DEF RecType
<1>4. ~tm.own[i] BY <1>1, <1>3 DEF LauncherOK
<1>5. Undisturbed /\ LauncherOK(tm', S)
  <2>1. CASE UNCHANGED tm BY <1>1, <2>1, UndisturbedSame DEF RecoverOuters
  <2>2. CASE tm' = KillOuter(tm, i)
    <3>1. Shrinks(tm, tm') /\ \A j \in Insts \ {i} : Spares(tm, tm', j)
      BY <1>1, <1>3, <2>2, KillOuterShrinks
    <3>2. \A j \in Insts : tm'.own[j] => tm.own[j] BY <3>1 DEF Shrinks
    <3>3. /\ \A j \in Insts : tm.own[j] /\ tm.outer[j] => tm'.own[j] /\ tm'.outer[j]
          /\ tm'.own[app.inst] /\ tm.keep[app.inst] => tm'.keep[app.inst]
      BY <1>1, <1>4, <3>1, <3>2 DEF Spares
    <3>4. QED BY <1>1, <3>1, <3>3, UndisturbedShrink DEF RecoverOuters, S
  <2>3. QED BY <1>2, <2>1, <2>2
<1> DEFINE R == [S EXCEPT !.stale = @ \ {i}]
<1>6. rec' = [rec EXCEPT ![r] = R] BY <1>1, <1>2 DEF S
<1>7. /\ R.at = "outers" /\ R.rows = S.rows /\ R.ids = S.ids /\ R.all = S.all
      /\ R.stale = S.stale \ {i} /\ R.inuse = S.inuse
  BY <1>1 DEF RecType
<1> HIDE DEF R
<1>8. LauncherOK(tm', R) BY <1>1, <1>5, <1>7 DEF LauncherOK, RecStLabels
<1>9. RowsOf(R) \subseteq RowsOf(S) BY <1>7 DEF RowsOf, RecStLabels
<1>10. QED BY <1>1, <1>5, <1>6, <1>7, <1>8, <1>9, RowsOfHere, LauncherGoes DEF S

-----------------------------------------------------------------------------
(* The steps of a launcher *)

\* What a launcher knows of the transaction it works on.
LEMMA RunRecord ==
    ASSUME IInv, Away, NEW r \in Recoverers, rec[r].at \in RecStLabels
    PROVE  LET m == rec[r].st IN
           /\ m \in SwapState /\ m \in Rows(tm, app, rec) /\ m \in Dead(tm, Rows(tm, app, rec))
           /\ ~tm.own[m.inst] /\ \E n \in rec[r].rows : n.tx = m.tx
           /\ rec[r].at # "off" /\ LauncherOK(tm, rec[r])
           /\ RecordOK(tm, app.inst, tx, m)
           /\ \A n \in rec[r].rows : n.tx = m.tx => Twins(n, m)
<1> DEFINE m == rec[r].st
<1>1. rec[r].at # "off" BY DEF RecStLabels
<1>2. /\ LauncherOK(tm, rec[r]) /\ m \in SwapState /\ m \in Rows(tm, app, rec)
      /\ m \in Dead(tm, Rows(tm, app, rec)) /\ rec[r].rows \subseteq Rows(tm, app, rec)
      /\ \A k, n \in Rows(tm, app, rec) : k.tx = n.tx => Twins(k, n)
  BY <1>1, RunFacts
<1>3. ~tm.own[m.inst] /\ \E n \in rec[r].rows : n.tx = m.tx BY <1>2 DEF LauncherOK
<1>4. RecordOK(tm, app.inst, tx, m) BY <1>2, StateTypes, CoreFacts DEF Away
<1>5. QED BY <1>1, <1>2, <1>3, <1>4

LEMMA RecoverVerifyAway ==
    ASSUME IInv, IInv', Away, NEW r \in Recoverers, RecoverVerify(r) PROVE Away'
<1> DEFINE m == rec[r].st
<1>1. /\ m \in SwapState /\ m \in Rows(tm, app, rec) /\ ~tm.own[m.inst]
      /\ \E n \in rec[r].rows : n.tx = m.tx
      /\ rec[r].at # "off" /\ LauncherOK(tm, rec[r]) /\ RecordOK(tm, app.inst, tx, m)
  BY RunRecord DEF RecoverVerify, RecStLabels
<1>2. PICK v \in BOOLEAN :
        /\ Verdict(VerifiedHome(tm, m), v)
        /\ IF v THEN Fixed(r, m) ELSE Unresolved(r, m)
  BY DEF RecoverVerify
<1> HIDE DEF m
<1>3. Undisturbed /\ UNCHANGED tm BY UndisturbedSame DEF RecoverVerify
<1>4. LauncherOK(tm', rec[r]) BY <1>1, <1>3
<1>5. CASE ~v
  <2>1. Unresolved(r, m) BY <1>2, <1>5
  <2>2. QED BY <1>1, <1>3, <1>4, <2>1, LeftAway
<1>6. CASE v
  <2>1. Fixed(r, m) /\ tm.at[m.real] = m.home BY <1>2, <1>6 DEF Verdict, VerifiedHome
  <2>2. ~Shown(tm, m) BY <1>1, <2>1, StateFacts, WindowFacts DEF RecordOK, Shown
  <2>3. ~Shown(tm', m) /\ ~tm'.own[m.inst] BY <1>1, <1>3, <2>2 DEF Shown
  <2>4. QED BY <1>1, <1>3, <1>4, <2>1, <2>3, FixedAway
<1>7. QED BY <1>5, <1>6

LEMMA RecoverSwapAway ==
    ASSUME IInv, IInv', Away, NEW r \in Recoverers, RecoverSwap(r) PROVE Away'
<1> DEFINE m == rec[r].st
           d == Rows(tm, app, rec)
           e == Eff(slots, app)
           q == Pad(slots, app)
<1>1. /\ m \in SwapState /\ m \in d /\ m \in Dead(tm, d) /\ ~tm.own[m.inst]
      /\ \E n \in rec[r].rows : n.tx = m.tx
      /\ rec[r].at # "off" /\ rec[r].at = "swap" /\ LauncherOK(tm, rec[r])
      /\ RecordOK(tm, app.inst, tx, m)
  BY RunRecord DEF RecoverSwap, RecStLabels
<1>2. /\ tm \in ServerType /\ tm' \in ServerType /\ app.inst \in Insts
      /\ Core(tm, app.inst, e, q, d, tx) /\ AppOK(tm, slots, app, tx)
      /\ app.at \in StLabels => app.st \in SwapState /\ app.st.ph \in Pads
      /\ app.at \in StLabels => app.slot \in Slots
      /\ rec[r] \in RecType
  BY StateTypes DEF IInv, TypeOK, Away, AppInv
<1>3. m.real \in Panes /\ m.ph \in Pads /\ m.ph \in Panes /\ m.inst \in Insts /\ m.agent \in Agents
      /\ m.slot \in Slots
  BY <1>1, StateFacts DEF RecordOK
<1>4. UNCHANGED <<slots, app, tx>> BY DEF RecoverSwap
<1>5. \/ CanSwap(tm, m.real, m.ph) /\ tm' = SwapPanes(tm, m.real, m.ph) /\ RecTo(r, "verify")
      \/ UNCHANGED tm /\ Unresolved(r, m)
  BY DEF RecoverSwap, Swap
<1> HIDE DEF m
<1>6. CASE UNCHANGED tm /\ Unresolved(r, m)
  BY <1>1, <1>4, <1>6, UndisturbedSame, LeftAway DEF d
<1>7. CASE CanSwap(tm, m.real, m.ph) /\ tm' = SwapPanes(tm, m.real, m.ph) /\ RecTo(r, "verify")
  <2>1. Alive(tm, m.real) /\ Alive(tm, m.ph) BY <1>7 DEF CanSwap
  <2>2. tm.at[m.real] = Disp(m.inst) /\ tm.at[m.ph] \in Home(m.agent)
    BY <1>1, <2>1, WindowFacts DEF LauncherOK, Alive, Live, m
  <2>3. Returns(tm, m) BY <2>2 DEF Returns, Shown
  <2> HIDE DEF d, e, q
  <2>4. /\ PadApart(tm, app.inst, e, q, d, m)
        /\ \A n \in Held(tm, app.inst, e) : n.agent # m.agent /\ n.real # m.real
    BY <1>1, <1>2, <2>3, DeadApart
  <2>5. Core(tm', app.inst, e, q, d, tx) BY <1>1, <1>2, <1>7, <2>3, <2>4, SwapCore
  <2>6. /\ tm'.opt = tm.opt /\ tm'.own = tm.own /\ tm'.keep = tm.keep /\ tm'.outer = tm.outer
        /\ tm'.at[m.real] = tm.at[m.ph] /\ tm'.at[m.ph] = tm.at[m.real]
        /\ \A p \in Panes : p # m.real /\ p # m.ph => tm'.at[p] = tm.at[p]
    BY <1>2, <1>3, <1>7 DEF ServerType, SwapPanes
  \* The transactions of the process are elsewhere.
  <2>7. ASSUME NEW n \in Held(tm, app.inst, e)
        PROVE  tm'.at[n.real] = tm.at[n.real] /\ tm'.at[n.ph] = tm.at[n.ph]
    <3>1. n \in Kept(tm, app.inst, e) /\ n \in SwapState /\ n.real \in Panes /\ n.ph \in Panes
      BY <1>2, CoreFacts, StateFacts
    <3>2. n.real # m.real BY <2>4
    <3>3. n.real # m.ph BY <2>1, <2>4, <3>1 DEF PadApart, Alive, Live
    <3>4. /\ tm.own[app.inst] /\ n.slot \in Slots /\ e[n.slot] = n /\ q[n.slot] = n.ph
      BY <1>2, HeldFacts
    <3>5. n.ph # None BY <3>1, PanesAssumption
    <3>6. n.ph # m.real BY <2>4, <3>4, <3>5 DEF PadApart
    <3>7. n.ph # m.ph
      <4>1. ASSUME n.ph = m.ph PROVE FALSE
        <5>1. e[n.slot] = m BY <2>4, <3>4, <4>1 DEF PadApart
        <5>2. m \in Held(tm, app.inst, e) BY <3>4, <5>1
        <5>3. QED BY <2>4, <5>2
      <4>2. QED BY <4>1
    <3>8. QED BY <2>6, <3>1, <3>2, <3>3, <3>6, <3>7
  <2>8. ASSUME tm.own[app.inst], app.at \in {"mark1", "mark2", "swaphome"} \cup TxLabels
        PROVE  app.st \in Held(tm, app.inst, e)
    <3>1. app.slot \in Slots /\ app.st # None /\ app.at \in StLabels
      BY <1>2, <2>8, StateFacts DEF StLabels, TxLabels
    <3>2. e[app.slot] = app.st
      <4>1. CASE app.at \in TxLabels BY <3>1, <4>1 DEF e, Eff, Transaction
      <4>2. CASE app.at \in {"mark1", "mark2", "swaphome"}
        BY <1>2, <2>8, <3>1, <4>2 DEF e, Eff, Transaction, AppOK, ReturnLabels, TxLabels
      <4>3. QED BY <2>8, <4>1, <4>2
    <3>3. QED BY <2>8, <3>1, <3>2 DEF Held
  <2>9. ASSUME tm.own[app.inst], app.at = "keeper" PROVE tm'.at[app.st.real] = tm.at[app.st.real]
    <3>1. app.at \in StLabels BY <2>9 DEF StLabels
    <3>2. app.st \in SwapState /\ app.st.agent \in Agents /\ app.st.real \in Panes
      BY <1>2, <3>1, StateFacts
    <3>3. tm.at[app.st.real] \in Home(app.st.agent) \cup {Gone} /\ app.st.agent = app.agent
      BY <1>2, <2>9 DEF AppOK
    <3>4. Unused(tm, e, app.agent) BY <1>2, <2>9 DEF AppOK, NewLabels, e
    <3>5. MarkerOf(tm, m) \in Stored(tm) /\ Twins(MarkerOf(tm, m), m)
      <4>1. Marked(tm, m) BY <1>1, <1>2, <2>3, CoreFacts DEF Returns
      <4>2. QED BY <1>1, <1>2, <4>1, MarkerFacts
    <3>6. m.agent # app.agent
      <4>1. Live(tm, MarkerOf(tm, m)) BY <2>1, <3>5 DEF Live, Alive, Twins
      <4>2. QED BY <3>4, <3>5, <4>1 DEF Unused, Twins
    <3>7. app.st.real # m.real BY <1>3, <2>2, <3>2, <3>3, WindowFacts
    <3>8. app.st.real # m.ph BY <1>3, <2>2, <3>2, <3>3, <3>6, WindowFacts
    <3>9. QED BY <2>6, <3>2, <3>7, <3>8
  <2>10. ASSUME tm.own[app.inst], app.at = "clear", app.for # "reaped"
         PROVE  tm'.at[app.st.ph] = tm.at[app.st.ph]
    <3>1. /\ app.slot \in Slots /\ app.st # None /\ app.st.ph \in Panes /\ app.st.ph # None
      BY <1>2, <2>10, StateFacts, PanesAssumption DEF StLabels, Panes
    <3>2. \/ slots[app.slot].st = app.st
          \/ slots[app.slot].st = None /\ slots[app.slot].pane = app.st.ph
      BY <1>2, <2>10 DEF AppOK
    <3>3. q[app.slot] = app.st.ph
      BY <2>10, <3>1, <3>2 DEF q, Pad, Transaction, TxLabels
    <3>4. app.st.ph # m.real BY <2>4, <2>10, <3>1, <3>3 DEF PadApart
    <3>5. app.st.ph # m.ph
      <4>1. ASSUME app.st.ph = m.ph PROVE FALSE
        <5>1. e[app.slot] = m BY <2>4, <2>10, <3>1, <3>3, <4>1 DEF PadApart
        <5>2. m \in Held(tm, app.inst, e)
          BY <1>1, <2>10, <3>1, <5>1, StateFacts DEF Held
        <5>3. QED BY <2>4, <5>2
      <4>2. QED BY <4>1
    <3>6. QED BY <2>6, <3>1, <3>4, <3>5
  <2>11. ASSUME tm.own[app.inst], app.at = "clear", Shown(tm', app.st) PROVE Shown(tm, app.st)
    <3>1. app.st \in SwapState /\ app.st.real \in Panes /\ app.st.inst = app.inst
      BY <1>2, <2>11, StateFacts DEF StLabels, AppOK
    <3>2. m.inst # app.inst BY <1>1, <2>11
    <3>3. \A p \in Panes : tm'.at[p] = Disp(app.inst) => tm.at[p] = Disp(app.inst)
      BY <1>2, <1>3, <2>2, <2>6, <3>2, WindowFacts
    <3>4. QED BY <2>11, <3>1, <3>3 DEF Shown
  <2>12. \A a \in Agents : tm.at[a] = Gone => tm'.at[a] = Gone
    BY <1>3, <2>2, <2>6, WindowFacts, PanesAssumption DEF Panes
  <2>13. ASSUME NEW n \in Stored(tm'), Live(tm', n)
         PROVE  \E k \in Stored(tm) : Live(tm, k) /\ k.agent = n.agent
    <3>1. n \in Stored(tm) /\ n.real \in Panes BY <1>2, <2>6, StoredFacts, StateFacts DEF Stored
    <3>2. Live(tm, n) BY <2>1, <2>6, <2>13, <3>1 DEF Live, Alive
    <3>3. QED BY <3>1, <3>2
  <2>14. AppOK(tm', slots, app, tx)
    BY <1>2, <2>6, <2>7, <2>8, <2>9, <2>10, <2>11, <2>12, <2>13, AppFrameOK
  <2>15. Undisturbed BY <1>4, <2>5, <2>6, <2>14 DEF Undisturbed, d, e, q
  <2>16. LauncherOK(tm', Base(rec[r]))
    <3>1. LauncherOK(tm, Base(rec[r])) /\ Base(rec[r]).at = "each" BY <1>1, <1>2, BaseOK
    <3>2. \A a \in Agents, j \in Insts : tm'.at[a] = Disp(j) => tm.at[a] = Disp(j)
      BY <1>3, <2>2, <2>6, WindowFacts, PanesAssumption DEF Panes
    <3>3. QED BY <1>2, <2>6, <3>1, <3>2, LauncherFrame DEF RecStLabels
  <2>17. rec' = [rec EXCEPT ![r] = Going(rec[r], "verify", m)] BY <1>7, RecSteps DEF m
  <2>18. QED BY <1>1, <2>6, <2>15, <2>16, <2>17, GoingAway DEF d
<1>8. QED BY <1>5, <1>6, <1>7

LEMMA SetOptionFields ==
    ASSUME NEW t \in ServerType, NEW w \in Windows, NEW m \in SwapState, WindowUp(t, w),
           NEW u, u = SetOption(t, w, m.slot, m)
    PROVE  /\ u = [t EXCEPT !.opt[w][m.slot] = m] /\ u \in ServerType
           /\ u.at = t.at /\ u.own = t.own /\ u.keep = t.keep /\ u.outer = t.outer
           /\ \A v \in Windows, s \in Slots :
                u.opt[v][s] = IF v = w /\ s = m.slot THEN m ELSE t.opt[v][s]
<1>1. u = [t EXCEPT !.opt[w][m.slot] = m] BY DEF SetOption
<1>2. m.slot \in Slots BY StateFacts
<1>3. u \in ServerType BY <1>2, OptionTypes
<1>4. u.at = t.at /\ u.own = t.own /\ u.keep = t.keep /\ u.outer = t.outer
  BY <1>1 DEF ServerType
<1>5. t.opt \in [Windows -> [Slots -> SwapState \cup {None}]] /\ u.opt = [t.opt EXCEPT ![w][m.slot] = m]
  BY <1>1 DEF ServerType
<1>6. \A v \in Windows, s \in Slots :
         u.opt[v][s] = IF v = w /\ s = m.slot THEN m ELSE t.opt[v][s]
  BY <1>2, <1>5
<1>7. QED BY <1>1, <1>3, <1>4, <1>6

LEMMA ClearFields ==
    ASSUME NEW t \in ServerType, NEW w \in Windows, NEW s \in Slots, NEW x,
           NEW u, u = ClearMatching(t, w, s, x)
    PROVE  /\ u \in ServerType
           /\ u.at = t.at /\ u.own = t.own /\ u.keep = t.keep /\ u.outer = t.outer
           /\ \A v \in Windows, o \in Slots :
                \/ u.opt[v][o] = t.opt[v][o]
                \/ /\ v = w /\ o = s /\ u.opt[v][o] = None
                   /\ t.opt[w][s] # None /\ t.opt[w][s].tx = x
           /\ Stored(u) \subseteq Stored(t)
<1>1. u \in ServerType BY OptionTypes
<1>2. /\ u.at = t.at /\ u.own = t.own /\ u.keep = t.keep /\ u.outer = t.outer
      /\ \A v \in Windows, o \in Slots :
           \/ u.opt[v][o] = t.opt[v][o]
           \/ /\ v = w /\ o = s /\ u.opt[v][o] = None
              /\ t.opt[w][s] # None /\ t.opt[w][s].tx = x
  BY DEF ServerType, ClearMatching
<1>3. ASSUME NEW n \in Stored(u) PROVE n \in Stored(t)
  <2>1. PICK v \in Windows, o \in Slots : u.opt[v][o] = n BY <1>1, StoredFacts
  <2>2. n # None BY <1>1, StoredFacts, StateFacts
  <2>3. t.opt[v][o] = n BY <1>2, <2>1, <2>2
  <2>4. QED BY <2>2, <2>3, StoredFacts
<1>4. QED BY <1>1, <1>2, <1>3

LEMMA StoredSet ==
    ASSUME NEW t \in ServerType, NEW w \in Windows, NEW m \in SwapState, WindowUp(t, w)
    PROVE  Stored(SetOption(t, w, m.slot, m)) \subseteq Stored(t) \cup {m}
<1> DEFINE u == SetOption(t, w, m.slot, m)
<1>1. /\ u \in ServerType
      /\ \A v \in Windows, s \in Slots :
           u.opt[v][s] = IF v = w /\ s = m.slot THEN m ELSE t.opt[v][s]
  BY SetOptionFields
<1> HIDE DEF u
<1>2. ASSUME NEW n \in Stored(u), n # m PROVE n \in Stored(t)
  <2>1. PICK v \in Windows, s \in Slots : u.opt[v][s] = n BY <1>1, StoredFacts
  <2>2. n # None BY <1>1, StoredFacts, StateFacts
  <2>3. t.opt[v][s] = n BY <1>1, <1>2, <2>1
  <2>4. QED BY <2>2, <2>3, StoredFacts
<1>3. QED BY <1>2 DEF u

LEMMA RecoverMark1Away ==
    ASSUME IInv, IInv', Away, NEW r \in Recoverers, RecoverMark1(r) PROVE Away'
<1> DEFINE m == rec[r].st
           d == Rows(tm, app, rec)
           e == Eff(slots, app)
<1>1. /\ m \in SwapState /\ m \in d /\ m \in Dead(tm, d) /\ ~tm.own[m.inst]
      /\ \E n \in rec[r].rows : n.tx = m.tx
      /\ rec[r].at # "off" /\ rec[r].at = "mark1" /\ LauncherOK(tm, rec[r])
      /\ RecordOK(tm, app.inst, tx, m)
  BY RunRecord DEF RecoverMark1, RecStLabels
<1>2. /\ tm \in ServerType /\ tm' \in ServerType /\ app.inst \in Insts
      /\ Core(tm, app.inst, e, Pad(slots, app), d, tx) /\ AppOK(tm, slots, app, tx)
      /\ app.at \in StLabels => app.st \in SwapState
      /\ rec[r] \in RecType
  BY StateTypes DEF IInv, TypeOK, Away
<1>3. /\ m.inst \in Insts /\ m.agent \in Agents /\ m.slot \in Slots /\ m.home \in Windows
      /\ \A i \in Insts : m.home # Disp(i)
  BY <1>1, StateFacts, WindowFacts DEF RecordOK
<1>4. UNCHANGED <<slots, app, tx>> BY DEF RecoverMark1
<1>5. \/ /\ WindowUp(tm, m.home) /\ tm' = SetOption(tm, m.home, m.slot, m)
         /\ RecTo(r, "mark2")
      \/ UNCHANGED tm /\ Unresolved(r, m)
  BY DEF RecoverMark1, WriteHome
<1>6. /\ tm.at[m.real] \in {Disp(m.inst), Gone}
      /\ WindowUp(tm, Disp(m.inst)) => Marked(tm, m)
      /\ Live(tm, m) => tm.at[m.ph] \in Home(m.agent) \cup {Gone}
  BY <1>1 DEF LauncherOK
<1> HIDE DEF m
<1>7. CASE UNCHANGED tm /\ Unresolved(r, m)
  BY <1>1, <1>4, <1>7, UndisturbedSame, LeftAway DEF d
<1>8. CASE /\ WindowUp(tm, m.home) /\ tm' = SetOption(tm, m.home, m.slot, m)
           /\ RecTo(r, "mark2")
  <2> HIDE DEF d, e
  <2>1. /\ tm' = [tm EXCEPT !.opt[m.home][m.slot] = m]
        /\ tm'.at = tm.at /\ tm'.own = tm.own /\ tm'.keep = tm.keep /\ tm'.outer = tm.outer
        /\ \A v \in Windows, s \in Slots :
             tm'.opt[v][s] = IF v = m.home /\ s = m.slot THEN m ELSE tm.opt[v][s]
    <3>1. /\ tm \in ServerType /\ m \in SwapState /\ m.home \in Windows
          /\ WindowUp(tm, m.home) /\ tm' = SetOption(tm, m.home, m.slot, m)
      BY <1>1, <1>2, <1>3, <1>8
    <3>2. QED BY <3>1, SetOptionFields
  <2>2. \A i \in Insts, s \in Slots : tm'.opt[Disp(i)][s] = tm.opt[Disp(i)][s]
    <3>1. \A v \in Windows, s \in Slots : v # m.home => tm'.opt[v][s] = tm.opt[v][s] BY <2>1
    <3>2. \A i \in Insts : m.home # Disp(i) BY <1>3
    <3>3. \A i \in Insts : Disp(i) \in Windows BY WindowFacts
    <3>4. QED BY <3>1, <3>2, <3>3
  <2>3. ASSUME Live(tm, m)
        PROVE  /\ MarkerOf(tm, m) \in Stored(tm) /\ MarkerOf(tm, m) \in Kept(tm, app.inst, e)
               /\ MarkerOf(tm, m).tx = m.tx /\ Twins(MarkerOf(tm, m), m)
    <3>1. Shown(tm, m) BY <1>6, <2>3, WindowFacts DEF Live, Shown
    <3>2. Marked(tm, m) BY <1>1, <1>2, <3>1, CoreFacts
    <3>3. QED BY <1>1, <1>2, <3>2, MarkerFacts
  <2>4. \E k \in Kept(tm, app.inst, e) \cup Dead(tm, d) :
          /\ m.tx = k.tx /\ Twins(m, k)
          /\ Live(tm, m) => k \in Kept(tm, app.inst, e)
    BY <1>1, <2>3 DEF Twins
  <2>5. PICK k \in Kept(tm, app.inst, e) \cup Dead(tm, d) :
          /\ m.tx = k.tx /\ Twins(m, k)
          /\ Live(tm, m) => k \in Kept(tm, app.inst, e)
    BY <2>4
  <2>6. Core(tm', app.inst, e, Pad(slots, app), d, tx)
    <3>1. /\ m.home \in {m.home, Disp(m.inst)}
          /\ Overwrites(tm, Kept(tm, app.inst, e) \cup Dead(tm, d), m, m.home)
      BY <1>3 DEF Overwrites
    <3>2. tm' = SetOption(tm, m.home, m.slot, m) /\ WindowUp(tm, m.home) BY <1>8
    <3>3. /\ tm \in ServerType /\ app.inst \in Insts /\ tm' \in ServerType /\ m \in SwapState
          /\ Core(tm, app.inst, e, Pad(slots, app), d, tx) /\ RecordOK(tm, app.inst, tx, m)
      BY <1>1, <1>2
    <3>4. QED BY <2>5, <3>1, <3>2, <3>3, WriteCore
  <2>7. Stored(tm') \subseteq Stored(tm) \cup {m} BY <1>1, <1>2, <1>3, <1>8, StoredSet
  <2>8. ASSUME NEW n \in Stored(tm'), Live(tm, n)
        PROVE  \E o \in Stored(tm) : Live(tm, o) /\ o.agent = n.agent
    <3>1. CASE n \in Stored(tm) BY <2>8, <3>1
    <3>2. CASE n = m
      <4>1. Live(tm, MarkerOf(tm, m)) BY <2>3, <2>8, <3>2 DEF Live, Twins
      <4>2. QED BY <2>3, <2>8, <3>2, <4>1 DEF Twins
    <3>3. QED BY <2>7, <3>1, <3>2
  <2>9. AppOK(tm', slots, app, tx) BY <1>2, <2>1, <2>2, <2>8, OptApp
  <2>10. Undisturbed BY <1>4, <2>1, <2>6, <2>9 DEF Undisturbed, d, e
  <2>11. LauncherOK(tm', rec[r])
    <3>1. tm'.at = tm.at /\ tm'.own = tm.own /\ tm'.outer = tm.outer BY <2>1
    <3>2. /\ tm \in ServerType /\ tm' \in ServerType /\ LauncherOK(tm, rec[r])
          /\ rec[r].st \in SwapState
      BY <1>1, <1>2 DEF m
    <3>3. QED BY <2>2, <3>1, <3>2, OptLauncher
  <2>12. LauncherOK(tm', Base(rec[r])) BY <1>2, <2>11, BaseOK
  <2>13. rec' = [rec EXCEPT ![r] = Going(rec[r], "mark2", m)] BY <1>8, RecSteps DEF m
  <2>14. /\ tm'.at[m.real] \in {Disp(m.inst), Gone}
         /\ WindowUp(tm', Disp(m.inst)) => Marked(tm', m)
         /\ Live(tm', m) => tm'.at[m.ph] \in Home(m.agent) \cup {Gone}
    BY <1>1, <2>11 DEF LauncherOK, m
  <2>15. QED BY <1>1, <2>1, <2>10, <2>12, <2>13, <2>14, GoingAway DEF d
<1>9. QED BY <1>5, <1>7, <1>8

LEMMA RecoverMark2Away ==
    ASSUME IInv, IInv', Away, NEW r \in Recoverers, RecoverMark2(r) PROVE Away'
<1> DEFINE m == rec[r].st
           d == Rows(tm, app, rec)
           e == Eff(slots, app)
<1>1. /\ m \in SwapState /\ m \in d /\ m \in Dead(tm, d) /\ ~tm.own[m.inst]
      /\ \E n \in rec[r].rows : n.tx = m.tx
      /\ rec[r].at # "off" /\ rec[r].at = "mark2" /\ LauncherOK(tm, rec[r])
      /\ RecordOK(tm, app.inst, tx, m)
  BY RunRecord DEF RecoverMark2, RecStLabels
<1>2. /\ tm \in ServerType /\ tm' \in ServerType /\ app.inst \in Insts
      /\ Core(tm, app.inst, e, Pad(slots, app), d, tx) /\ AppOK(tm, slots, app, tx)
      /\ app.at \in StLabels => app.st \in SwapState
      /\ rec[r] \in RecType
  BY StateTypes DEF IInv, TypeOK, Away
<1>3. /\ m.inst \in Insts /\ m.agent \in Agents /\ m.slot \in Slots /\ m.home \in Windows
      /\ \A i \in Insts : m.home # Disp(i)
      /\ Disp(m.inst) \in Windows
  BY <1>1, StateFacts, WindowFacts DEF RecordOK
<1>4. UNCHANGED <<slots, app, tx>> BY DEF RecoverMark2
<1>5. \/ /\ WindowUp(tm, Disp(m.inst)) /\ tm' = SetOption(tm, Disp(m.inst), m.slot, m)
         /\ RecTo(r, "swap")
      \/ tm' = ClearMatching(tm, m.home, m.slot, m.tx) /\ Unresolved(r, m)
  BY DEF RecoverMark2, WriteDisplay
<1>6. /\ tm.at[m.real] \in {Disp(m.inst), Gone}
      /\ WindowUp(tm, Disp(m.inst)) => Marked(tm, m)
      /\ Live(tm, m) => tm.at[m.ph] \in Home(m.agent) \cup {Gone}
  BY <1>1 DEF LauncherOK
<1> HIDE DEF m, d, e
<1>7. CASE tm' = ClearMatching(tm, m.home, m.slot, m.tx) /\ Unresolved(r, m)
  <2>1. /\ tm'.at = tm.at /\ tm'.own = tm.own /\ tm'.keep = tm.keep /\ tm'.outer = tm.outer
        /\ \A v \in Windows, o \in Slots : v # m.home => tm'.opt[v][o] = tm.opt[v][o]
        /\ Stored(tm') \subseteq Stored(tm)
    BY <1>2, <1>3, <1>7, ClearFields
  <2>2. \A i \in Insts, s \in Slots : tm'.opt[Disp(i)][s] = tm.opt[Disp(i)][s]
    <3>1. \A v \in Windows, s \in Slots : v # m.home => tm'.opt[v][s] = tm.opt[v][s] BY <2>1
    <3>2. \A i \in Insts : m.home # Disp(i) BY <1>3
    <3>3. \A i \in Insts : Disp(i) \in Windows BY WindowFacts
    <3>4. QED BY <3>1, <3>2, <3>3
  <2>3. Core(tm', app.inst, e, Pad(slots, app), d, tx)
    <3>1. m.home \notin Displays BY <1>3 DEF Displays
    <3>2. QED BY <1>1, <1>2, <1>3, <1>7, <3>1, ClearCore
  <2>4. AppOK(tm', slots, app, tx) BY <1>2, <2>1, <2>2, OptApp
  <2>5. Undisturbed BY <1>4, <2>1, <2>3, <2>4 DEF Undisturbed, d, e
  <2>6. LauncherOK(tm', rec[r]) BY <1>1, <1>2, <2>1, <2>2, OptLauncher DEF m
  <2>7. QED BY <1>1, <1>7, <2>5, <2>6, LeftAway DEF d
<1>8. CASE /\ WindowUp(tm, Disp(m.inst)) /\ tm' = SetOption(tm, Disp(m.inst), m.slot, m)
           /\ RecTo(r, "swap")
  <2>1. /\ tm' = [tm EXCEPT !.opt[Disp(m.inst)][m.slot] = m]
        /\ tm'.at = tm.at /\ tm'.own = tm.own /\ tm'.keep = tm.keep /\ tm'.outer = tm.outer
        /\ \A v \in Windows, s \in Slots :
             tm'.opt[v][s] = IF v = Disp(m.inst) /\ s = m.slot THEN m ELSE tm.opt[v][s]
    <3>1. /\ tm \in ServerType /\ Disp(m.inst) \in Windows /\ m \in SwapState
          /\ WindowUp(tm, Disp(m.inst)) /\ tm' = SetOption(tm, Disp(m.inst), m.slot, m)
      BY <1>1, <1>2, <1>3, <1>8
    <3>2. QED BY <3>1, SetOptionFields
  <2>2. /\ MarkerOf(tm, m) \in Stored(tm) /\ MarkerOf(tm, m) \in Kept(tm, app.inst, e)
        /\ MarkerOf(tm, m).tx = m.tx /\ Twins(MarkerOf(tm, m), m)
    BY <1>1, <1>2, <1>6, <1>8, MarkerFacts
  <2>3. ASSUME NEW n \in Kept(tm, app.inst, e) \cup Dead(tm, d),
               Shown(tm, n), n.inst = m.inst, n.slot = m.slot
        PROVE  n.tx = m.tx
    <3>1. Marked(tm, n) BY <1>2, <2>3, CoreFacts
    <3>2. QED BY <2>2, <2>3, <3>1 DEF Marked, MarkerOf
  <2>4. Twins(m, MarkerOf(tm, m)) BY <2>2 DEF Twins
  <2>5. Core(tm', app.inst, e, Pad(slots, app), d, tx)
    <3>1. /\ Disp(m.inst) \in {m.home, Disp(m.inst)}
          /\ Overwrites(tm, Kept(tm, app.inst, e) \cup Dead(tm, d), m, Disp(m.inst))
      BY <2>3 DEF Overwrites
    <3>2. tm' = SetOption(tm, Disp(m.inst), m.slot, m) /\ WindowUp(tm, Disp(m.inst)) BY <1>8
    <3>3. /\ tm \in ServerType /\ app.inst \in Insts /\ tm' \in ServerType /\ m \in SwapState
          /\ Core(tm, app.inst, e, Pad(slots, app), d, tx) /\ RecordOK(tm, app.inst, tx, m)
      BY <1>1, <1>2
    <3>4. /\ MarkerOf(tm, m) \in Kept(tm, app.inst, e) \cup Dead(tm, d)
          /\ m.tx = MarkerOf(tm, m).tx /\ MarkerOf(tm, m) \in Kept(tm, app.inst, e)
      BY <2>2
    <3>5. QED BY <2>4, <3>1, <3>2, <3>3, <3>4, WriteCore
  <2>6. Stored(tm') \subseteq Stored(tm) \cup {m} BY <1>1, <1>2, <1>3, <1>8, StoredSet
  <2>7. ASSUME NEW n \in Stored(tm'), Live(tm, n)
        PROVE  \E o \in Stored(tm) : Live(tm, o) /\ o.agent = n.agent
    <3>1. CASE n \in Stored(tm) BY <2>7, <3>1
    <3>2. CASE n = m
      <4>1. Live(tm, MarkerOf(tm, m)) BY <2>2, <2>7, <3>2 DEF Live, Twins
      <4>2. QED BY <2>2, <2>7, <3>2, <4>1 DEF Twins
    <3>3. QED BY <2>6, <3>1, <3>2
  <2>8. tm.own[app.inst] =>
          \A s \in Slots : tm'.opt[Disp(app.inst)][s] = tm.opt[Disp(app.inst)][s]
    BY <1>1, <1>2, <1>3, <2>1, WindowFacts
  <2>9. AppOK(tm', slots, app, tx) BY <1>2, <2>1, <2>7, <2>8, OptApp
  <2>10. Undisturbed BY <1>4, <2>1, <2>5, <2>9 DEF Undisturbed, d, e
  <2>11. LauncherOK(tm', Base(rec[r]))
    <3>1. LauncherOK(tm, Base(rec[r])) /\ Base(rec[r]).at = "each" BY <1>1, <1>2, BaseOK
    <3>2. QED BY <1>2, <2>1, <3>1, OptLauncher DEF RecStLabels
  <2>12. rec' = [rec EXCEPT ![r] = Going(rec[r], "swap", m)] BY <1>8, RecSteps DEF m
  <2>13. Marked(tm', m) BY <1>1, <1>3, <2>1, StateFacts DEF Marked
  <2>14. /\ tm'.at[m.real] \in {Disp(m.inst), Gone}
         /\ Live(tm', m) => tm'.at[m.ph] \in Home(m.agent) \cup {Gone}
    BY <1>6, <2>1 DEF Live
  <2>15. QED BY <1>1, <2>1, <2>10, <2>11, <2>12, <2>13, <2>14, GoingAway DEF d
<1>9. QED BY <1>5, <1>7, <1>8

LEMMA RecoverClearAway ==
    ASSUME IInv, IInv', Away, NEW r \in Recoverers, RecoverClear(r) PROVE Away'
<1> DEFINE m == rec[r].st
           d == Rows(tm, app, rec)
           e == Eff(slots, app)
           S == rec[r]
<1>1. /\ m \in SwapState /\ m \in d /\ m \in Dead(tm, d) /\ ~tm.own[m.inst]
      /\ \E n \in S.rows : n.tx = m.tx
      /\ S.at # "off" /\ S.at = "clear" /\ LauncherOK(tm, S)
      /\ RecordOK(tm, app.inst, tx, m)
      /\ \A n \in S.rows : n.tx = m.tx => Twins(n, m)
  BY RunRecord DEF RecoverClear, RecStLabels
<1>2. /\ tm \in ServerType /\ tm' \in ServerType /\ app.inst \in Insts
      /\ Core(tm, app.inst, e, Pad(slots, app), d, tx) /\ AppOK(tm, slots, app, tx)
      /\ app.at \in StLabels => app.st \in SwapState
      /\ S \in RecType /\ rec \in [Recoverers -> RecType]
  BY StateTypes DEF IInv, TypeOK, Away
<1>3. m.inst \in Insts /\ m.slot \in Slots BY <1>1, StateFacts
<1>4. UNCHANGED <<slots, app, tx>> BY DEF RecoverClear
<1>5. PICK w \in S.todo :
        /\ tm' = ClearMatching(tm, w, m.slot, m.tx) \/ UNCHANGED tm
        /\ rec' = IF S.todo # {w} THEN [rec EXCEPT ![r].todo = @ \ {w}]
                  ELSE [rec EXCEPT ![r].at = "each", ![r].todo = {},
                          ![r].stale = @ \cup {m.inst},
                          ![r].rows = {n \in @ : n.tx # m.tx}]
  BY DEF RecoverClear, Clear
<1>6. ~Shown(tm, m) BY <1>1 DEF LauncherOK
<1> HIDE DEF m, d, e, S
<1>7. w \in Windows BY <1>2 DEF RecType
<1>8. Undisturbed /\ LauncherOK(tm', S)
  <2>1. CASE UNCHANGED tm BY <1>1, <1>4, <2>1, UndisturbedSame
  <2>2. CASE tm' = ClearMatching(tm, w, m.slot, m.tx)
    <3>1. /\ tm'.at = tm.at /\ tm'.own = tm.own /\ tm'.keep = tm.keep /\ tm'.outer = tm.outer
          /\ \A v \in Windows, o \in Slots :
               \/ tm'.opt[v][o] = tm.opt[v][o]
               \/ v = w /\ o = m.slot /\ tm.opt[v][o] # None /\ tm.opt[v][o].tx = m.tx
          /\ Stored(tm') \subseteq Stored(tm)
      BY <1>2, <1>3, <1>7, <2>2, ClearFields
    <3>2. Core(tm', app.inst, e, Pad(slots, app), d, tx)
      BY <1>1, <1>2, <1>6, <1>7, <2>2, ClearCore
    <3>3. ASSUME tm.own[app.inst], NEW s \in Slots
          PROVE  tm'.opt[Disp(app.inst)][s] = tm.opt[Disp(app.inst)][s]
      <4> DEFINE k == tm.opt[Disp(app.inst)][s]
      <4>1. ASSUME k # None, k.tx = m.tx PROVE FALSE
        <5>1. k \in Stored(tm) /\ k.inst = app.inst
          BY <1>2, <4>1, WindowFacts, StoredFacts DEF Core, WhereSet
        <5>2. k \in Kept(tm, app.inst, e) BY <5>1 DEF Kept
        <5>3. Twins(k, m) BY <1>1, <1>2, <4>1, <5>2, CoreFacts
        <5>4. QED BY <1>1, <3>3, <5>1, <5>3 DEF Twins
      <4>2. QED BY <1>2, <3>1, <4>1, WindowFacts
    <3>4. AppOK(tm', slots, app, tx) BY <1>2, <3>1, <3>3, OptApp
    <3>5. Undisturbed BY <1>4, <3>1, <3>2, <3>4 DEF Undisturbed, d, e
    <3>6. LauncherOK(tm', S) BY <1>1, <1>2, <3>1, OptLauncher DEF m, S
    <3>7. QED BY <3>5, <3>6
  <2>3. QED BY <1>5, <2>1, <2>2
<1>9. CASE S.todo = {w}
  <2>1. rec' = [rec EXCEPT ![r] = Done(S)] BY <1>2, <1>5, <1>9 DEF Done, m, S
  <2>2. /\ LauncherOK(tm', Done(S)) /\ Done(S).at # "off" /\ RowsOf(Done(S)) \subseteq RowsOf(S)
    BY <1>1, <1>2, <1>8, DoneOK DEF m, S
  <2>3. QED BY <1>1, <1>8, <2>1, <2>2, RowsOfHere, LauncherGoes DEF S
<1>10. CASE S.todo # {w}
  <2> DEFINE R == [S EXCEPT !.todo = @ \ {w}]
  <2>1. rec' = [rec EXCEPT ![r] = R] BY <1>2, <1>5, <1>10 DEF S
  <2>2. /\ R.at = "clear" /\ R.rows = S.rows /\ R.ids = S.ids /\ R.all = S.all
        /\ R.stale = S.stale /\ R.inuse = S.inuse /\ R.st = S.st
    BY <1>1, <1>2 DEF RecType
  <2> HIDE DEF R
  <2>3. LauncherOK(tm', R) BY <1>1, <1>8, <2>2 DEF LauncherOK
  <2>4. RowsOf(R) \subseteq RowsOf(S) BY <1>1, <2>2 DEF RowsOf
  <2>5. QED BY <1>1, <1>8, <2>1, <2>2, <2>3, <2>4, RowsOfHere, LauncherGoes DEF S
<1>11. QED BY <1>9, <1>10

LEMMA HomeWinFacts ==
    ASSUME NEW t \in ServerType, NEW a \in Agents
    PROVE  HomeWin(t, a) \in Home(a)
BY DEF HomeWin, Home, ServerType

\* The pane of a session with a single live pane.
LEMMA SinglePane ==
    ASSUME NEW t, NEW a, SingleLivePane(t, a) # None
    PROVE  /\ SingleLivePane(t, a) \in Panes
           /\ \A p \in Panes : t.at[p] = HomeWin(t, a) <=> p = SingleLivePane(t, a)
<1>1. \E p \in Panes : PanesIn(t, HomeWin(t, a)) = {p} BY DEF SingleLivePane
<1>2. /\ SingleLivePane(t, a) \in Panes
      /\ PanesIn(t, HomeWin(t, a)) = {SingleLivePane(t, a)}
  BY <1>1 DEF SingleLivePane
<1>3. QED BY <1>2 DEF PanesIn

LEMMA NewSessionFields ==
    ASSUME NEW t \in ServerType, HasFreshPad(t), NEW a \in Agents,
           NEW u, u = NewDetachedSession(t, a), NEW i \in Insts, PlacesOK(t, i)
    PROVE  /\ Adds(t, u, i) /\ u \in ServerType /\ u.outer = t.outer
           /\ \A p \in Panes, j \in Insts : u.at[p] = Disp(j) => t.at[p] = Disp(j)
<1>1. FreshPad(t) \in Pads /\ t.at[FreshPad(t)] = Unborn BY DEF HasFreshPad, FreshPad
<1>2. FreshPad(t) \in Panes BY <1>1 DEF Panes
<1>3. u \in ServerType BY NewDetachedSessionType
<1>4. /\ u.own = t.own /\ u.opt = t.opt /\ u.keep = t.keep /\ u.outer = t.outer
      /\ \A p \in Panes : u.at[p] = IF p = FreshPad(t) THEN <<a, 2>> ELSE t.at[p]
  BY <1>2 DEF ServerType, NewDetachedSession
<1>5. <<a, 2>> \in Home(a) BY DEF Home
<1>6. \A p \in Panes, j \in Insts : u.at[p] = Disp(j) => t.at[p] = Disp(j)
  BY <1>4, <1>5, WindowFacts
<1>7. Adds(t, u, i) BY <1>1, <1>4, <1>6 DEF Adds, PlacesOK
<1>8. QED BY <1>3, <1>4, <1>6, <1>7

LEMMA UndisturbedAdds ==
    ASSUME IInv, IInv', Away, NEW r \in Recoverers, rec[r].at # "off",
           UNCHANGED <<slots, app, tx>>, Adds(tm, tm', app.inst),
           \A p \in Panes, j \in Insts : tm'.at[p] = Disp(j) => tm.at[p] = Disp(j),
           tm'.outer = tm.outer
    PROVE  Undisturbed /\ LauncherOK(tm', rec[r])
<1>1. /\ tm \in ServerType /\ app.inst \in Insts /\ tm' \in ServerType
      /\ app.at \in StLabels => app.st \in SwapState
      /\ rec[r].at \in RecStLabels => rec[r].st \in SwapState
      /\ LauncherOK(tm, rec[r])
  BY StateTypes, RunFacts DEF IInv, TypeOK
<1>2. /\ Core(tm, app.inst, Eff(slots, app), Pad(slots, app), Rows(tm, app, rec), tx)
      /\ AppOK(tm, slots, app, tx)
  BY DEF Away
<1>3. Core(tm', app.inst, Eff(slots, app), Pad(slots, app), Rows(tm, app, rec), tx)
  BY <1>1, <1>2, AddsCore
<1>4. tm.own[app.inst] /\ app.at = "clear" => app.st \in Rows(tm, app, rec)
  BY DEF Rows, Clearing
<1>5. AppOK(tm', slots, app, tx) BY <1>1, <1>2, <1>4, NotUnborn, AddsApp
<1>6. LauncherOK(tm', rec[r]) BY <1>1, AddsLauncher
<1>7. tm'.own[app.inst] => tm.own[app.inst] BY DEF Adds
<1>8. QED BY <1>3, <1>5, <1>6, <1>7 DEF Undisturbed

Moves(r, l, m) == rec' = [rec EXCEPT ![r].at = l, ![r].st = m]
LEMMA GoingStep ==
    ASSUME IInv, NEW r \in Recoverers, NEW l, NEW m, Moves(r, l, m)
    PROVE  rec' = [rec EXCEPT ![r] = Going(rec[r], l, m)]
<1>1. rec \in [Recoverers -> RecType] BY DEF IInv, TypeOK
<1>2. rec[r] \in RecType BY <1>1
<1>3. [rec[r] EXCEPT !.at = l, !.st = m] = Going(rec[r], l, m) BY <1>2 DEF Going, RecType
<1>4. QED BY <1>1, <1>3 DEF Moves

LEMMA RecoverOneAway ==
    ASSUME IInv, IInv', Away, ~IdentityFaults, NEW r \in Recoverers, RecoverOne(r) PROVE Away'
<1> DEFINE d == Rows(tm, app, rec)
           S == rec[r]
<1>1. /\ LauncherOK(tm, S) /\ S \in RecType /\ S.at = "each" /\ S.rows \subseteq d
      /\ tm \in ServerType /\ tm' \in ServerType /\ app.inst \in Insts /\ AgentsOK(tm)
      /\ Core(tm, app.inst, Eff(slots, app), Pad(slots, app), d, tx)
      /\ \A n \in S.rows : ~tm.own[n.inst] => n \in Dead(tm, d)
  BY RunFacts, StateTypes, CoreParts DEF Away, RecoverOne, IInv, TypeOK
<1>2. UNCHANGED <<slots, app, tx>> BY DEF RecoverOne
<1> HIDE DEF d, S
<1>3. PICK m \in S.rows :
        LET real == tm.at[m.real]
            ph == tm.at[m.ph]
            active == Active(r, m, tm.own[m.inst])
            away == real = Disp(m.inst) /\ ph = m.home
            homeless == real = Disp(m.inst) /\ ph \notin Windows
            ended == real \notin Windows
        IN  \/ Unresolved(r, m) /\ UNCHANGED tm
            \/ ~active /\ real = m.home /\ Fixed(r, m) /\ UNCHANGED tm
            \/ /\ ~active /\ away /\ UNCHANGED tm
               /\ rec' = [rec EXCEPT ![r].at = "swap", ![r].st = m]
            \/ /\ ~active /\ homeless
               /\ \/ /\ HasFreshPad(tm) /\ tm' = NewDetachedSession(tm, m.agent)
                     /\ rec' = [rec EXCEPT ![r].at = "observe", ![r].st = m]
                  \/ UNCHANGED tm /\ Unresolved(r, m)
            \/ /\ ~active /\ ended /\ Fixed(r, m)
               /\ tm' = KillAgentSession(tm, m.agent) \/ UNCHANGED tm
  BY DEF RecoverOne, Seen, S
<1>4. m \in d /\ m \in SwapState /\ RecordOK(tm, app.inst, tx, m) /\ tm.at[m.real] \in Reach(m.agent)
  BY <1>1, CoreFacts
<1>5. m.inst \in Insts /\ m.agent \in Agents /\ m.real \in Panes /\ m.home \in Home(m.agent)
  BY <1>4, StateFacts DEF RecordOK
<1>6. ~Active(r, m, tm.own[m.inst]) =>
        /\ ~tm.own[m.inst] /\ m \in Dead(tm, d)
        /\ Shown(tm, m) => Marked(tm, m)
  BY <1>1, <1>5, CoreFacts DEF Active, LauncherOK, S
<1>7. CASE Unresolved(r, m) /\ UNCHANGED tm
  BY <1>1, <1>2, <1>4, <1>7, UndisturbedSame, LeftAway DEF d, S
<1>8. CASE ~Active(r, m, tm.own[m.inst]) /\ tm.at[m.real] = m.home /\ Fixed(r, m) /\ UNCHANGED tm
  <2>1. ~Shown(tm', m) /\ ~tm'.own[m.inst] /\ \E n \in S.rows : n.tx = m.tx
    BY <1>5, <1>6, <1>8, WindowFacts DEF Shown
  <2>2. QED BY <1>1, <1>2, <1>4, <1>8, <2>1, UndisturbedSame, FixedAway DEF d, S
<1>9. CASE /\ ~Active(r, m, tm.own[m.inst]) /\ tm.at[m.real] = Disp(m.inst) /\ tm.at[m.ph] = m.home
           /\ UNCHANGED tm /\ rec' = [rec EXCEPT ![r].at = "swap", ![r].st = m]
  <2>1. rec' = [rec EXCEPT ![r] = Going(S, "swap", m)]
    <3>1. Moves(r, "swap", m) BY <1>9 DEF Moves
    <3>2. QED BY <3>1, GoingStep DEF S
  <2>2. Undisturbed /\ LauncherOK(tm', Base(S)) BY <1>1, <1>2, <1>9, UndisturbedSame, BaseOK
  <2>3. /\ tm'.at[m.real] = Disp(m.inst) /\ tm'.at[m.ph] \in Home(m.agent)
        /\ Marked(tm', m) /\ ~tm'.own[m.inst] /\ \E n \in S.rows : n.tx = m.tx
    BY <1>5, <1>6, <1>9 DEF Shown, Marked
  <2>4. QED BY <1>1, <1>4, <2>1, <2>2, <2>3, GoingAway DEF d, S
<1>10. CASE /\ ~Active(r, m, tm.own[m.inst]) /\ tm.at[m.real] = Disp(m.inst)
            /\ HasFreshPad(tm) /\ tm' = NewDetachedSession(tm, m.agent)
            /\ rec' = [rec EXCEPT ![r].at = "observe", ![r].st = m]
  <2>1. rec' = [rec EXCEPT ![r] = Going(S, "observe", m)]
    <3>1. Moves(r, "observe", m) BY <1>10 DEF Moves
    <3>2. QED BY <3>1, GoingStep DEF S
  <2>2. PlacesOK(tm, app.inst) BY <1>1 DEF Core
  <2>3. /\ Adds(tm, tm', app.inst) /\ tm'.outer = tm.outer
        /\ \A p \in Panes, j \in Insts : tm'.at[p] = Disp(j) => tm.at[p] = Disp(j)
    BY <1>1, <1>5, <1>10, <2>2, NewSessionFields
  <2>4. Undisturbed /\ LauncherOK(tm', S) BY <1>1, <1>2, <2>3, UndisturbedAdds DEF S
  <2>5. LauncherOK(tm', Base(S)) BY <1>1, <2>4, BaseOK
  <2>6. /\ tm'.at[m.real] = Disp(m.inst)
        /\ Marked(tm', m) /\ ~tm'.own[m.inst] /\ \E n \in S.rows : n.tx = m.tx
    BY <1>5, <1>6, <1>10, <2>3, WindowFacts DEF Shown, Marked, Adds
  <2>7. QED BY <1>1, <1>4, <2>1, <2>4, <2>5, <2>6, GoingAway DEF d, S
<1>11. CASE /\ ~Active(r, m, tm.own[m.inst]) /\ tm.at[m.real] \notin Windows /\ Fixed(r, m)
            /\ tm' = KillAgentSession(tm, m.agent) \/ UNCHANGED tm
  <2>1. tm.at[m.real] = Gone BY <1>4, <1>5, <1>11, ReachFacts
  <2>2. Undisturbed /\ LauncherOK(tm', S) /\ tm'.at[m.real] = Gone /\ ~tm'.own[m.inst]
    <3>1. CASE UNCHANGED tm BY <1>1, <1>2, <1>6, <1>11, <2>1, <3>1, UndisturbedSame
    <3>2. CASE tm' = KillAgentSession(tm, m.agent)
      <4>1. Shrinks(tm, tm') /\ \A j \in Insts : Spares(tm, tm', j)
        BY <1>1, <3>2, KillAgentSessionShrinks
      <4>2. Undisturbed /\ LauncherOK(tm', S)
        BY <1>1, <1>2, <4>1, UndisturbedShrink DEF Spares, S
      <4>3. tm'.at[m.real] = Gone /\ ~tm'.own[m.inst]
        BY <1>5, <1>6, <1>11, <2>1, <4>1 DEF Shrinks
      <4>4. QED BY <4>2, <4>3
    <3>3. QED BY <1>11, <3>1, <3>2
  <2>3. ~Shown(tm', m) /\ \E n \in S.rows : n.tx = m.tx
    BY <1>5, <2>2, WindowFacts DEF Shown
  <2>4. Fixed(r, m) BY <1>11
  <2>5. QED BY <1>1, <1>4, <2>2, <2>3, <2>4, FixedAway DEF d, S
<1>12. QED BY <1>3, <1>7, <1>8, <1>9, <1>10, <1>11

LEMMA RecoverObserveAway ==
    ASSUME IInv, IInv', Away, NEW r \in Recoverers, RecoverObserve(r) PROVE Away'
<1> DEFINE m == rec[r].st
           d == Rows(tm, app, rec)
           e == Eff(slots, app)
           ph == SingleLivePane(tm, m.agent)
           n == [m EXCEPT !.ph = ph, !.phase = "returning", !.home = HomeWin(tm, m.agent)]
<1>1. /\ m \in SwapState /\ m \in d /\ m \in Dead(tm, d) /\ ~tm.own[m.inst]
      /\ \E o \in rec[r].rows : o.tx = m.tx
      /\ rec[r].at # "off" /\ rec[r].at = "observe" /\ LauncherOK(tm, rec[r])
      /\ RecordOK(tm, app.inst, tx, m)
  BY RunRecord DEF RecoverObserve, RecStLabels
<1>2. /\ tm \in ServerType /\ tm' \in ServerType /\ app.inst \in Insts
      /\ Core(tm, app.inst, e, Pad(slots, app), d, tx) /\ AppOK(tm, slots, app, tx)
      /\ rec[r] \in RecType
  BY StateTypes DEF IInv, TypeOK, Away
<1>3. PICK v \in BOOLEAN :
        /\ Verdict(ph # None /\ ~Attached(tm, m.agent), v)
        /\ IF ~v THEN Unresolved(r, m)
           ELSE rec' = [rec EXCEPT ![r].at = "mark1", ![r].st = n]
  BY DEF RecoverObserve
<1>4. UNCHANGED <<tm, slots, app, tx>> BY DEF RecoverObserve
<1>5. m.inst \in Insts /\ m.agent \in Agents /\ m.real \in Panes /\ m.slot \in Slots
  BY <1>1, StateFacts
<1>6. /\ tm.at[m.real] \in {Disp(m.inst), Gone}
      /\ WindowUp(tm, Disp(m.inst)) => Marked(tm, m)
  BY <1>1 DEF LauncherOK
<1>7. Undisturbed /\ LauncherOK(tm', rec[r]) BY <1>1, <1>4, UndisturbedSame
<1>8. CASE ~v
  <2>1. Unresolved(r, m) BY <1>3, <1>8
  <2>2. QED BY <1>1, <1>7, <2>1, LeftAway
<1>9. CASE v
  <2>1. ph # None BY <1>3, <1>9 DEF Verdict
  <2>2. /\ ph \in Panes /\ tm.at[ph] = HomeWin(tm, m.agent) /\ HomeWin(tm, m.agent) \in Home(m.agent)
    BY <1>2, <1>5, <2>1, SinglePane, HomeWinFacts
  <2>3. tm.at[ph] \in Home(m.agent) /\ HomeWin(tm, m.agent) \in Windows BY <2>2, <1>5, WindowFacts
  <2>4. rec' = [rec EXCEPT ![r].at = "mark1", ![r].st = n] BY <1>3, <1>9
  <2> HIDE DEF ph
  <2>5. ph # m.real BY <1>5, <1>6, <2>3, WindowFacts
  <2>6. ph \in Pads
    <3>1. ASSUME ph \in Agents PROVE FALSE
      <4>1. tm.at[ph] \in Home(ph) \cup Displays \cup {Gone} BY <1>2, <3>1 DEF Core, PlacesOK
      <4>2. tm.at[ph] \in Reach(ph) BY <4>1 DEF Reach
      <4>3. ph = m.agent BY <1>5, <2>3, <3>1, <4>2, ReachFacts
      <4>4. tm.at[m.agent] = Gone BY <1>1, <2>5, <4>3 DEF RecordOK
      <4>5. QED BY <1>5, <2>3, <4>3, <4>4, WindowFacts
    <3>2. QED BY <2>2, <3>1 DEF Panes
  <2> HIDE DEF m
  <2>7. /\ n \in SwapState /\ n.agent = m.agent /\ n.real = m.real /\ n.inst = m.inst
        /\ n.slot = m.slot /\ n.tx = m.tx /\ n.ph = ph /\ n.home = HomeWin(tm, m.agent)
    BY <1>1, <2>2, <2>3 DEF SwapState
  <2>8. rec' = [rec EXCEPT ![r] = Going(rec[r], "mark1", n)]
    <3>1. Moves(r, "mark1", n) BY <2>4 DEF Moves
    <3>2. QED BY <3>1, GoingStep
  <2> HIDE DEF n, d, e
  <2>9. Twins(n, m) /\ RecordOK(tm, app.inst, tx, n)
    BY <1>1, <2>2, <2>5, <2>6, <2>7 DEF Twins, RecordOK
  <2>10. Core(tm, app.inst, e, Pad(slots, app), d \cup {n}, tx)
    BY <1>1, <1>2, <2>7, <2>9, RecreatedCore
  <2>11. LauncherOK(tm, Base(rec[r])) /\ Base(rec[r]) \in RecType /\ Base(rec[r]).rows = rec[r].rows
         /\ RowsOf(Base(rec[r])) \subseteq RowsOf(rec[r])
         /\ Going(Base(rec[r]), "mark1", n) = Going(rec[r], "mark1", n)
    BY <1>1, <1>2, BaseOK
  <2>12. WindowUp(tm, Disp(n.inst)) => Marked(tm, n) BY <1>6, <2>7 DEF Marked
  <2>13. /\ LauncherOK(tm, Going(rec[r], "mark1", n)) /\ Going(rec[r], "mark1", n).at # "off"
         /\ RowsOf(Going(rec[r], "mark1", n)) \subseteq RowsOf(Base(rec[r])) \cup {n}
    BY <1>1, <1>6, <2>3, <2>7, <2>11, <2>12, GoingOK
  <2>14. RowsOf(Going(rec[r], "mark1", n)) \subseteq d \cup {n}
    BY <2>11, <2>13, RowsOfHere DEF d
  <2>15. \A o \in Recoverers \ {r} : rec[o].at = "off" BY <1>1, RunFacts
  <2>16. AppOK(tm', slots, app, tx) /\ LauncherOK(tm', Going(rec[r], "mark1", n))
         /\ Core(tm', app.inst, e, Pad(slots, app), d \cup {n}, tx)
    BY <1>2, <1>4, <2>10, <2>13
  <2>17. /\ UNCHANGED <<slots, app, tx>> /\ d \subseteq d \cup {n}
         /\ tm'.own[app.inst] => tm.own[app.inst]
    BY <1>4
  <2>18. QED BY <2>8, <2>13, <2>14, <2>15, <2>16, <2>17, RecAway DEF d, e
<1>10. QED BY <1>8, <1>9

LEMMA LaunchAway ==
    ASSUME IInv, IInv', Away, NEW r \in Recoverers, Launch(r) PROVE Away'
<1>1. /\ tm \in ServerType /\ tm' \in ServerType /\ app.inst \in Insts /\ app'.inst \in Insts
      /\ rec[r].at # "off"
      /\ Core(tm, app.inst, Eff(slots, app), Pad(slots, app), Rows(tm, app, rec), tx)
  BY StateTypes DEF IInv, TypeOK, Away, Launch, AppType
<1>2. \A o \in Recoverers \ {r} : rec[o].at = "off" /\ rec[o] = Off
  BY <1>1, RunFacts DEF Away, RecOK
<1>3. rec' = [rec EXCEPT ![r] = Off] /\ tx' = tx BY DEF Launch
<1>4. CASE UNCHANGED <<tm, app, slots>>
  <2>1. RowsOf(Off) = {} BY DEF RowsOf, Off, RecStLabels
  <2>2. Undisturbed BY <1>3, <1>4, UndisturbedSame
  <2>3. QED BY <1>1, <1>3, <2>1, <2>2, LauncherGoes
<1>5. CASE /\ ~tm.own[app.inst]
           /\ tm' = StartOuter(tm, app.inst + 1)
           /\ app' = Idle(app.inst + 1)
           /\ slots' = [s \in Slots |-> EmptySlot]
  <2>1. app'.inst = app.inst + 1 /\ app'.at = "idle" BY <1>5 DEF Idle
  <2>2. /\ tm'.at = tm.at /\ tm'.opt = tm.opt /\ tm'.keep = tm.keep
        /\ \A j \in Insts : tm'.own[j] => j = app.inst + 1 \/ tm.own[j]
    BY <1>1, <1>5 DEF StartOuter, ServerType
  <2>3. Core(tm', app.inst + 1, [s \in Slots |-> None], [s \in Slots |-> None], {}, tx)
    BY <1>1, <1>5, <2>1, <2>2, LaunchCore
  <2>4. /\ Eff(slots', app') = [s \in Slots |-> None]
        /\ Pad(slots', app') = [s \in Slots |-> None]
    BY <1>5, <2>1, EmptySlotType DEF Eff, Pad, Transaction, TxLabels
  <2>5. rec' = [o \in Recoverers |-> Off]
    BY <1>2, <1>3, StateTypes
  <2>6. RowsOf(Off) = {} BY DEF RowsOf, Off, RecStLabels
  <2>7. Clearing(tm', app') = {} BY <2>1 DEF Clearing
  <2>8. Rows(tm', app', rec') = {} BY <2>5, <2>6, <2>7 DEF Rows
  <2>9. RecOK(tm', rec') BY <2>5, OffType DEF RecOK
  <2>10. AppOK(tm', slots', app', tx')
    BY <1>5, <2>1, EmptySlotType DEF AppOK, ReturnLabels, TxLabels, NewLabels
  <2>11. QED BY <1>3, <2>1, <2>3, <2>4, <2>8, <2>9, <2>10 DEF Away
<1>6. QED BY <1>4, <1>5 DEF Launch, AppUp

LEMMA RecoverStepAway ==
    ASSUME IInv, IInv', Away, ~Overlap, ~IdentityFaults, NEW r \in Recoverers, RecoverStep(r)
    PROVE  Away'
BY RecoverListAway, RecoverOneAway, RecoverObserveAway, RecoverMark1Away, RecoverMark2Away,
   RecoverSwapAway, RecoverVerifyAway, RecoverClearAway, RecoverKeepersAway,
   RecoverOutersAway, LaunchAway
   DEF RecoverStep

-----------------------------------------------------------------------------
(* The steps of the process *)

LEMMA AppFacts ==
    ASSUME IInv, IInv', Away, AppUp
    PROVE  /\ tm \in ServerType /\ tm' \in ServerType /\ app.inst \in Insts /\ tx \in Nat
           /\ tm.own[app.inst] /\ app \in AppType /\ slots \in [Slots -> SlotType]
           /\ Core(tm, app.inst, Eff(slots, app), Pad(slots, app), Rows(tm, app, rec), tx)
           /\ AppOK(tm, slots, app, tx) /\ RecOK(tm, rec)
           /\ UNION {RowsOf(rec[r]) : r \in Recoverers} \subseteq Rows(tm, app, rec)
           /\ app.at \in StLabels => app.st \in SwapState /\ app.st.ph \in Pads /\ app.slot \in Slots
           /\ app.at \in FreeLabels => app.slot \in Slots /\ slots[app.slot].st = None
           /\ TxLabels \subseteq StLabels /\ TxLabels \subseteq FreeLabels
           /\ ReturnLabels \cup {"clear", "keeper"} \subseteq StLabels
           /\ AgentsOK(tm)
BY StateTypes DEF IInv, TypeOK, Away, AppUp, AppInv, Rows, StLabels, FreeLabels, TxLabels,
   ReturnLabels, Core

LEMMA EffFacts ==
    ASSUME NEW sl, NEW ap, NEW s \in Slots
    PROVE  /\ ap.at \in TxLabels /\ ap.slot = s => Eff(sl, ap)[s] = ap.st
           /\ ap.at \notin TxLabels \/ ap.slot # s => Eff(sl, ap)[s] = sl[s].st
           /\ Eff(sl, ap)[s] # None => Pad(sl, ap)[s] = Eff(sl, ap)[s].ph
           /\ Eff(sl, ap)[s] = None => Pad(sl, ap)[s] = sl[s].pane
BY DEF Eff, Pad, Transaction

\* The transaction of the operation is one the process holds.
LEMMA HeldHere ==
    ASSUME IInv, IInv', Away, AppUp, app.at \in TxLabels \cup ReturnLabels
    PROVE  /\ app.slot \in Slots /\ app.st \in SwapState /\ app.st # None
           /\ Eff(slots, app)[app.slot] = app.st /\ Pad(slots, app)[app.slot] = app.st.ph
           /\ app.st \in Held(tm, app.inst, Eff(slots, app))
           /\ app.st \in Kept(tm, app.inst, Eff(slots, app))
           /\ RecordOK(tm, app.inst, tx, app.st)
           /\ app.st.inst = app.inst /\ app.st.slot = app.slot
           /\ Shown(tm, app.st) => Marked(tm, app.st)
<1>1. /\ app.slot \in Slots /\ app.st \in SwapState /\ tm \in ServerType /\ app.inst \in Insts
      /\ tm.own[app.inst] /\ AppOK(tm, slots, app, tx)
      /\ Core(tm, app.inst, Eff(slots, app), Pad(slots, app), Rows(tm, app, rec), tx)
  BY AppFacts
<1>2. app.st # None BY <1>1, StateFacts
<1>3. Eff(slots, app)[app.slot] = app.st
  <2>1. CASE app.at \in TxLabels BY <1>1, <2>1, EffFacts
  <2>2. CASE app.at \in ReturnLabels
    <3>1. app.at \notin TxLabels BY <2>2 DEF TxLabels, ReturnLabels
    <3>2. slots[app.slot].st = app.st BY <1>1, <2>2 DEF AppOK
    <3>3. QED BY <1>1, <3>1, <3>2, EffFacts
  <2>3. QED BY <2>1, <2>2
<1>4. app.st \in Held(tm, app.inst, Eff(slots, app)) BY <1>1, <1>2, <1>3, HeldFacts
<1>5. app.st \in Kept(tm, app.inst, Eff(slots, app)) BY <1>4 DEF Kept
<1>6. RecordOK(tm, app.inst, tx, app.st) /\ (Shown(tm, app.st) => Marked(tm, app.st))
  BY <1>1, <1>5, CoreFacts
<1>7. PadOK(tm, app.inst, Eff(slots, app), Pad(slots, app), Rows(tm, app, rec), app.slot)
  BY <1>1 DEF Core, SlotsOK
<1>8. app.st.inst = app.inst /\ app.st.slot = app.slot BY <1>2, <1>3, <1>7 DEF PadOK
<1>9. Pad(slots, app)[app.slot] = app.st.ph BY <1>1, <1>2, <1>3, EffFacts
<1>10. QED BY <1>1, <1>2, <1>3, <1>4, <1>5, <1>6, <1>8, <1>9

\* So is the transaction of a slot, between operations and at their start.
LEMMA HeldSlot ==
    ASSUME IInv, IInv', Away, AppUp, app.at \notin TxLabels, NEW s \in Slots, slots[s].st # None
    PROVE  /\ slots[s].st \in SwapState
           /\ Eff(slots, app)[s] = slots[s].st /\ Pad(slots, app)[s] = slots[s].st.ph
           /\ slots[s].st \in Held(tm, app.inst, Eff(slots, app))
           /\ slots[s].st \in Kept(tm, app.inst, Eff(slots, app))
           /\ RecordOK(tm, app.inst, tx, slots[s].st)
           /\ slots[s].st.inst = app.inst /\ slots[s].st.slot = s
           /\ slots[s].st.agent = slots[s].agent
<1>1. /\ tm \in ServerType /\ app.inst \in Insts
      /\ tm.own[app.inst] /\ AppOK(tm, slots, app, tx)
      /\ Core(tm, app.inst, Eff(slots, app), Pad(slots, app), Rows(tm, app, rec), tx)
  BY AppFacts
<1>3. Eff(slots, app)[s] = slots[s].st BY EffFacts
<1>4. slots[s].st \in Held(tm, app.inst, Eff(slots, app)) BY <1>1, <1>3, HeldFacts
<1>5. slots[s].st \in Kept(tm, app.inst, Eff(slots, app)) BY <1>4 DEF Kept
<1>6. RecordOK(tm, app.inst, tx, slots[s].st) /\ slots[s].st \in SwapState BY <1>1, <1>5, CoreFacts
<1>7. PadOK(tm, app.inst, Eff(slots, app), Pad(slots, app), Rows(tm, app, rec), s)
  BY <1>1 DEF Core, SlotsOK
<1>8. slots[s].st.inst = app.inst /\ slots[s].st.slot = s BY <1>3, <1>7 DEF PadOK
<1>9. Pad(slots, app)[s] = slots[s].st.ph BY <1>3, EffFacts
<1>10. slots[s].st.agent = slots[s].agent BY <1>1 DEF AppOK
<1>11. QED BY <1>3, <1>4, <1>5, <1>6, <1>8, <1>9, <1>10

LEMMA StepAway ==
    ASSUME IInv, IInv', Away, UNCHANGED rec, app'.inst = app.inst,
           NEW d, NEW e, NEW q, Core(tm', app.inst, e, q, d, tx'),
           UNION {RowsOf(rec[r]) : r \in Recoverers} \subseteq d,
           tm'.own[app.inst] =>
             \A s \in Slots : SlotStep(tm', app.inst, e, q, Eff(slots', app'), Pad(slots', app'), s),
           Clearing(tm', app') \subseteq d \cup Kept(tm', app.inst, e),
           AppOK(tm', slots', app', tx'), RecOK(tm', rec)
    PROVE  Away'
<1>1. tm' \in ServerType /\ app.inst \in Insts BY StateTypes DEF IInv, TypeOK
<1>2. Rows(tm', app', rec') \subseteq d \cup Kept(tm', app.inst, e)
  <2>1. Rows(tm', app', rec') = Clearing(tm', app') \cup UNION {RowsOf(rec[r]) : r \in Recoverers}
    BY DEF Rows
  <2>2. QED BY <2>1
<1>3. Core(tm', app.inst, e, q, Rows(tm', app', rec'), tx') BY <1>1, <1>2, RowsCore
<1>4. Core(tm', app.inst, Eff(slots', app'), Pad(slots', app'), Rows(tm', app', rec'), tx')
  BY <1>1, <1>3, SlotsCore
<1>5. RecOK(tm', rec') OBVIOUS
<1>6. QED BY <1>4, <1>5 DEF Away

LEMMA SlotKept ==
    ASSUME NEW t \in ServerType, NEW i \in Insts, NEW e, NEW q, NEW d, NEW x,
           Core(t, i, e, q, d, x), t.own[i],
           NEW s \in Slots, NEW e2, NEW q2, e2[s] = e[s], q2[s] = q[s]
    PROVE  SlotStep(t, i, e, q, e2, q2, s)
<1>1. PadOK(t, i, e, q, d, s) BY DEF Core, SlotsOK
<1>2. e[s] # None => e[s] \in SwapState BY HeldFacts, CoreFacts
<1>3. QED BY <1>1, <1>2 DEF SlotStep, Alike, Twins, PadOK

\* The slots that a step of an operation is not about.
LEMMA OthersKept ==
    ASSUME IInv, IInv', Away, NEW t \in ServerType, NEW d, NEW x, t.own[app.inst],
           Core(t, app.inst, Eff(slots, app), Pad(slots, app), d, x), NEW s0,
           app.at \in TxLabels => app.slot = s0, app'.at \in TxLabels => app'.slot = s0,
           NEW s \in Slots, s # s0, slots'[s] = slots[s]
    PROVE  SlotStep(t, app.inst, Eff(slots, app), Pad(slots, app),
                    Eff(slots', app'), Pad(slots', app'), s)
<1>1. app.inst \in Insts BY StateTypes
<1>2. Eff(slots', app')[s] = Eff(slots, app)[s] BY EffFacts
<1>3. Pad(slots', app')[s] = Pad(slots, app)[s] BY <1>2, EffFacts
<1>4. QED BY <1>1, <1>2, <1>3, SlotKept

\* A step that changes neither the slots nor what they are in the middle of.
LEMMA SlotsKept ==
    ASSUME IInv, IInv', Away, NEW t \in ServerType, NEW d, NEW x, t.own[app.inst],
           Core(t, app.inst, Eff(slots, app), Pad(slots, app), d, x),
           UNCHANGED slots,
           \/ app.at \notin TxLabels /\ app'.at \notin TxLabels
           \/ /\ app.at \in TxLabels /\ app'.at \in TxLabels
              /\ app'.slot = app.slot /\ app'.st = app.st
    PROVE  \A s \in Slots :
             SlotStep(t, app.inst, Eff(slots, app), Pad(slots, app),
                      Eff(slots', app'), Pad(slots', app'), s)
<1>1. ASSUME NEW s \in Slots
      PROVE  SlotStep(t, app.inst, Eff(slots, app), Pad(slots, app),
                      Eff(slots', app'), Pad(slots', app'), s)
  <2>1. app.inst \in Insts BY StateTypes
  <2>2. Eff(slots', app')[s] = Eff(slots, app)[s] BY EffFacts
  <2>3. Pad(slots', app')[s] = Pad(slots, app)[s] BY <2>2, EffFacts
  <2>4. QED BY <2>1, <2>2, <2>3, SlotKept
<1>2. QED BY <1>1

\* A step that only asks.
LEMMA QuietAway ==
    ASSUME IInv, IInv', Away, AppUp, UNCHANGED <<tm, rec, tx>>, app'.inst = app.inst,
           \A s \in Slots :
             SlotStep(tm, app.inst, Eff(slots, app), Pad(slots, app),
                      Eff(slots', app'), Pad(slots', app'), s),
           app'.at = "clear" =>
             app'.st \in Rows(tm, app, rec) \cup Kept(tm, app.inst, Eff(slots, app)),
           AppOK(tm, slots', app', tx)
    PROVE  Away'
<1>1. /\ Core(tm, app.inst, Eff(slots, app), Pad(slots, app), Rows(tm, app, rec), tx)
      /\ UNION {RowsOf(rec[r]) : r \in Recoverers} \subseteq Rows(tm, app, rec)
      /\ RecOK(tm, rec)
  BY AppFacts
<1>2. Clearing(tm', app') \subseteq Rows(tm, app, rec) \cup Kept(tm, app.inst, Eff(slots, app))
  BY DEF Clearing
<1>3. Core(tm', app.inst, Eff(slots, app), Pad(slots, app), Rows(tm, app, rec), tx')
  BY <1>1
<1>4. /\ tm'.own[app.inst] =>
           \A s \in Slots : SlotStep(tm', app.inst, Eff(slots, app), Pad(slots, app),
                                     Eff(slots', app'), Pad(slots', app'), s)
      /\ AppOK(tm', slots', app', tx') /\ RecOK(tm', rec)
      /\ Clearing(tm', app') \subseteq Rows(tm, app, rec) \cup Kept(tm', app.inst, Eff(slots, app))
  BY <1>1, <1>2
<1>5. QED BY <1>1, <1>3, <1>4, StepAway

-----------------------------------------------------------------------------
(* Labels *)

LEMMA GotoFields ==
    ASSUME IInv, NEW l \in AppLabels, Goto(l)
    PROVE  /\ app'.at = l /\ app'.inst = app.inst /\ app'.slot = app.slot /\ app'.st = app.st
           /\ app'.agent = app.agent /\ app'.for = app.for /\ app'.todo = app.todo
BY DEF IInv, TypeOK, AppType, Goto

LEMMA FailFields ==
    ASSUME IInv, Fail
    PROVE  app'.at \in {"idle", "quit"} /\ app'.inst = app.inst
BY GotoFields DEF Fail, Idle, AppLabels

LEMMA FallbackFields ==
    ASSUME IInv, Fallback
    PROVE  /\ app'.at = "home" /\ app'.for = "fallback" /\ app'.inst = app.inst
           /\ app'.slot = app.slot /\ app'.agent = app.agent
BY DEF IInv, TypeOK, AppType, Fallback

LEMMA RollBackFields ==
    ASSUME IInv, RollBack
    PROVE  /\ app'.at = "clear" /\ app'.for = "fallback" /\ app'.inst = app.inst
           /\ app'.slot = app.slot /\ app'.agent = app.agent /\ app'.st = app.st
BY DEF IInv, TypeOK, AppType, RollBack

LEMMA ClearBothFields ==
    ASSUME IInv, ClearBoth
    PROVE  /\ app'.at = "clear" /\ app'.for = app.for /\ app'.inst = app.inst
           /\ app'.slot = app.slot /\ app'.agent = app.agent /\ app'.st = app.st
BY DEF IInv, TypeOK, AppType, ClearBoth

LEMMA TakeFields ==
    ASSUME IInv, NEW phase, Take(phase), app.st \in SwapState, app.slot \in Slots
    PROVE  /\ app'.at = "idle" /\ app'.inst = app.inst
           /\ \A s \in Slots \ {app.slot} : slots'[s] = slots[s]
           /\ slots'[app.slot].st = [app.st EXCEPT !.phase = phase]
           /\ slots'[app.slot].agent = app.agent
BY DEF IInv, TypeOK, Take, Idle

\* Labels of which nothing more has to be known.
Plain == {"idle", "home", "gate", "nested", "blank", "killagent", "killpane", "quit",
          "exit", "bye"}
LEMMA PlainApp ==
    ASSUME NEW t, NEW sl, NEW ap, NEW x, ap.at \in Plain,
           \A s \in Slots : sl[s].st # None => sl[s].st.agent = sl[s].agent,
           ap.at \in {"home", "gate"} /\ ap.for = "attach" =>
             \A o \in Slots \ {ap.slot} : sl[o].agent # ap.agent
    PROVE  AppOK(t, sl, ap, x)
<1>1. /\ ap.at \notin ReturnLabels /\ ap.at # "clear" /\ ap.at # "keeper" /\ ap.at \notin TxLabels
      /\ ap.at \notin NewLabels
      /\ ap.at \notin {"mark1", "mark2", "swaphome", "prep1", "prep2", "swapout", "verify",
                       "back", "commit1", "commit2", "verifyback"}
  BY DEF Plain, ReturnLabels, TxLabels, NewLabels
<1>2. ap.at \notin {"keeper"} \cup TxLabels BY <1>1
<1>3. ap.at \in ReturnLabels \cup {"clear", "home", "gate"} => ap.at \in {"home", "gate"} BY <1>1
<1>4. QED BY <1>1, <1>2, <1>3 DEF AppOK

Labels == {"mark1", "mark2", "swaphome", "prep1", "prep2", "swapout", "verify",
           "back", "commit1", "commit2", "verifyback"}

LEMMA ReturnApp ==
    ASSUME NEW t, NEW sl, NEW ap, NEW x, ap.at \in ReturnLabels,
           \A s \in Slots : sl[s].st # None => sl[s].st.agent = sl[s].agent,
           sl[ap.slot].st = ap.st, ap.at \in {"mark1", "mark2", "swaphome"} => Out(t, ap.st),
           ap.for = "attach" => \A o \in Slots \ {ap.slot} : sl[o].agent # ap.agent
    PROVE  AppOK(t, sl, ap, x)
<1>1. /\ ap.at # "clear" /\ ap.at # "keeper" /\ ap.at \notin TxLabels
      /\ ap.at \notin NewLabels
      /\ ap.at \notin {"prep1", "prep2", "swapout", "verify",
                       "back", "commit1", "commit2", "verifyback"}
  BY DEF Plain, ReturnLabels, TxLabels, NewLabels
<1>2. ap.at \notin {"keeper"} \cup TxLabels BY <1>1
<1>3. QED BY <1>1, <1>2 DEF AppOK

LEMMA ClearApp ==
    ASSUME NEW t, NEW sl, NEW ap, NEW x, ap.at = "clear",
           \A s \in Slots : sl[s].st # None => sl[s].st.agent = sl[s].agent,
           ~Shown(t, ap.st), ap.st.inst = ap.inst, ap.st.slot = ap.slot,
           ap.for # "reaped" => t.at[ap.st.ph] \in {Disp(ap.inst), Gone},
           \/ sl[ap.slot].st = ap.st
           \/ sl[ap.slot].st = None /\ sl[ap.slot].pane = ap.st.ph,
           ap.for = "attach" => \A o \in Slots \ {ap.slot} : sl[o].agent # ap.agent
    PROVE  AppOK(t, sl, ap, x)
<1>1. /\ ap.at # "keeper" /\ ap.at \notin TxLabels
      /\ ap.at \notin NewLabels /\ ap.at \notin ReturnLabels
      /\ ap.at \notin Labels
  BY DEF Labels, ReturnLabels, TxLabels, NewLabels
<1>2. ap.at \notin {"keeper"} \cup TxLabels BY <1>1
<1>3. QED BY <1>1, <1>2 DEF AppOK, Labels

LEMMA NewApp ==
    ASSUME NEW t, NEW sl, NEW ap, NEW x, ap.at \in {"place", "inspect"},
           \A s \in Slots : sl[s].st # None => sl[s].st.agent = sl[s].agent,
           Unused(t, Eff(sl, ap), ap.agent)
    PROVE  AppOK(t, sl, ap, x)
<1>1. /\ ap.at # "keeper" /\ ap.at \notin TxLabels
      /\ ap.at \notin ReturnLabels \cup {"clear", "home", "gate"}
      /\ ap.at \notin Labels
  BY DEF Labels, ReturnLabels, TxLabels, NewLabels
<1>2. ap.at \notin {"keeper"} \cup TxLabels BY <1>1
<1>3. QED BY <1>1, <1>2 DEF AppOK, Labels

LEMMA KeeperApp ==
    ASSUME NEW t, NEW sl, NEW ap, NEW x, ap.at = "keeper",
           \A s \in Slots : sl[s].st # None => sl[s].st.agent = sl[s].agent,
           ap.st.inst = ap.inst, ap.st.slot = ap.slot, ap.st.agent = ap.agent,
           sl[ap.slot].pane = ap.st.ph, ap.st.tx = x + 1,
           t.at[ap.st.real] \in Home(ap.st.agent) \cup {Gone},
           ap.st.home \in Home(ap.st.agent), ap.st.ph \in Pads,
           \/ ap.st.real = ap.st.agent
           \/ ap.st.real \in Pads /\ t.at[ap.st.agent] = Gone,
           Unused(t, Eff(sl, ap), ap.agent)
    PROVE  AppOK(t, sl, ap, x)
<1>1. ap.at \notin ReturnLabels \cup {"clear", "home", "gate"} /\ ap.at \notin Labels
  BY DEF Labels, ReturnLabels
<1>2. QED BY <1>1 DEF AppOK, Labels

LEMMA TxApp ==
    ASSUME NEW t, NEW sl, NEW ap, NEW x, ap.at \in TxLabels,
           \A s \in Slots : sl[s].st # None => sl[s].st.agent = sl[s].agent,
           ap.st.inst = ap.inst, ap.st.slot = ap.slot, ap.st.agent = ap.agent,
           sl[ap.slot].pane = ap.st.ph,
           ap.at \in {"prep1", "prep2", "swapout"} => Back(t, ap.st) /\ t.keep[ap.inst],
           ap.at \in {"swapout", "verify", "back", "commit1", "commit2"} => Marked(t, ap.st),
           ap.at \in {"verify", "back", "commit1", "commit2"} => Out(t, ap.st),
           ap.at = "verifyback" => Back(t, ap.st)
    PROVE  AppOK(t, sl, ap, x)
<1>1. /\ ap.at # "keeper" /\ ap.at \notin {"mark1", "mark2", "swaphome"}
      /\ ap.at \notin NewLabels /\ ap.at \notin ReturnLabels
      /\ ap.at \notin ReturnLabels \cup {"clear", "home", "gate"} /\ ap.at # "clear"
  BY DEF ReturnLabels, TxLabels, NewLabels
<1>2. QED BY <1>1 DEF AppOK

\* What an operation that began to show an agent knows of the other slots.
LEMMA Others ==
    ASSUME IInv, IInv', Away, AppUp
    PROVE  /\ \A s \in Slots : slots[s].st # None => slots[s].st.agent = slots[s].agent
           /\ app.at \in ReturnLabels \cup {"clear", "home", "gate"} /\ app.for = "attach" =>
                \A o \in Slots \ {app.slot} : slots[o].agent # app.agent
           /\ app.at \in {"keeper"} \cup TxLabels =>
                /\ app.st.inst = app.inst /\ app.st.slot = app.slot /\ app.st.agent = app.agent
                /\ slots[app.slot].pane = app.st.ph
BY AppFacts DEF AppOK

LEMMA CheckHomeAway ==
    ASSUME IInv, IInv', Away, CheckHome PROVE Away'
<1>1. AppUp /\ app.at = "check" /\ app.at \in ReturnLabels /\ app.at \notin TxLabels
  BY DEF CheckHome, At, ReturnLabels, TxLabels
<1>2. PICK v \in BOOLEAN :
        /\ Verdict(VerifiedHome(tm, app.st), v)
        /\ IF v THEN ClearBoth
           ELSE IF IsDisplayed(tm, app.st) THEN Goto("mark1")
           ELSE Fail
  BY DEF CheckHome
<1>3. UNCHANGED <<tm, slots, rec, tx>> BY DEF CheckHome
<1>4. /\ app.slot \in Slots /\ app.st \in SwapState
      /\ app.st \in Kept(tm, app.inst, Eff(slots, app)) /\ RecordOK(tm, app.inst, tx, app.st)
      /\ app.st.inst = app.inst /\ app.st.slot = app.slot
  BY <1>1, HeldHere
<1>5. app.st.inst \in Insts /\ app.st.agent \in Agents /\ app.st.home \in Home(app.st.agent)
  BY <1>4, StateFacts DEF RecordOK
<1>6. /\ \A s \in Slots : slots[s].st # None => slots[s].st.agent = slots[s].agent
      /\ app.for = "attach" => \A o \in Slots \ {app.slot} : slots[o].agent # app.agent
      /\ slots[app.slot].st = app.st
  BY <1>1, Others, AppFacts DEF AppOK
<1>7. app'.at \notin TxLabels /\ app'.inst = app.inst
      /\ (app'.at = "clear" => app'.st = app.st)
      /\ AppOK(tm, slots, app', tx)
  <2>1. CASE v
    <3>1. /\ app'.at = "clear" /\ app'.for = app.for /\ app'.inst = app.inst
          /\ app'.slot = app.slot /\ app'.agent = app.agent /\ app'.st = app.st
      BY <1>2, <2>1, ClearBothFields
    <3>2. tm.at[app.st.real] = app.st.home /\ tm.at[app.st.ph] = Disp(app.st.inst)
      BY <1>2, <2>1 DEF Verdict, VerifiedHome
    <3>3. ~Shown(tm, app.st) BY <1>5, <3>2, WindowFacts DEF Shown
    <3>4. AppOK(tm, slots, app', tx) BY <1>4, <1>6, <3>1, <3>2, <3>3, ClearApp
    <3>5. QED BY <3>1, <3>4 DEF TxLabels
  <2>2. CASE ~v /\ IsDisplayed(tm, app.st)
    <3>1. Goto("mark1") BY <1>2, <2>2
    <3>2. /\ app'.at = "mark1" /\ app'.for = app.for /\ app'.inst = app.inst
          /\ app'.slot = app.slot /\ app'.agent = app.agent /\ app'.st = app.st
      BY <3>1, GotoFields DEF AppLabels
    <3>3. Out(tm, app.st) BY <1>5, <2>2 DEF Out, IsDisplayed
    <3>4. AppOK(tm, slots, app', tx) BY <1>6, <3>2, <3>3, ReturnApp DEF ReturnLabels
    <3>5. QED BY <3>2, <3>4 DEF TxLabels
  <2>3. CASE ~v /\ ~IsDisplayed(tm, app.st)
    <3>1. Fail BY <1>2, <2>3
    <3>2. app'.at \in {"idle", "quit"} /\ app'.inst = app.inst BY <3>1, FailFields
    <3>3. AppOK(tm, slots, app', tx) BY <1>6, <3>2, PlainApp DEF Plain
    <3>4. QED BY <3>2, <3>3 DEF TxLabels
  <2>4. QED BY <2>1, <2>2, <2>3
<1>8. \A s \in Slots :
         SlotStep(tm, app.inst, Eff(slots, app), Pad(slots, app),
                  Eff(slots', app'), Pad(slots', app'), s)
  BY <1>1, <1>3, <1>7, AppFacts, SlotsKept
<1>9. QED BY <1>1, <1>3, <1>4, <1>7, <1>8, QuietAway

LEMMA VerifyHomeAway ==
    ASSUME IInv, IInv', Away, VerifyHome PROVE Away'
<1>1. AppUp /\ app.at = "verifyhome" /\ app.at \in ReturnLabels /\ app.at \notin TxLabels
  BY DEF VerifyHome, At, ReturnLabels, TxLabels
<1>2. PICK v \in BOOLEAN :
        /\ Verdict(VerifiedHome(tm, app.st), v)
        /\ IF v THEN ClearBoth ELSE Fail
  BY DEF VerifyHome
<1>3. UNCHANGED <<tm, slots, rec, tx>> BY DEF VerifyHome
<1>4. /\ app.slot \in Slots /\ app.st \in SwapState
      /\ app.st \in Kept(tm, app.inst, Eff(slots, app)) /\ RecordOK(tm, app.inst, tx, app.st)
      /\ app.st.inst = app.inst /\ app.st.slot = app.slot
  BY <1>1, HeldHere
<1>5. app.st.inst \in Insts /\ app.st.agent \in Agents /\ app.st.home \in Home(app.st.agent)
  BY <1>4, StateFacts DEF RecordOK
<1>6. /\ \A s \in Slots : slots[s].st # None => slots[s].st.agent = slots[s].agent
      /\ app.for = "attach" => \A o \in Slots \ {app.slot} : slots[o].agent # app.agent
      /\ slots[app.slot].st = app.st
  BY <1>1, Others, AppFacts DEF AppOK
<1>7. app'.at \notin TxLabels /\ app'.inst = app.inst
      /\ (app'.at = "clear" => app'.st = app.st)
      /\ AppOK(tm, slots, app', tx)
  <2>1. CASE v
    <3>1. /\ app'.at = "clear" /\ app'.for = app.for /\ app'.inst = app.inst
          /\ app'.slot = app.slot /\ app'.agent = app.agent /\ app'.st = app.st
      BY <1>2, <2>1, ClearBothFields
    <3>2. tm.at[app.st.real] = app.st.home /\ tm.at[app.st.ph] = Disp(app.st.inst)
      BY <1>2, <2>1 DEF Verdict, VerifiedHome
    <3>3. ~Shown(tm, app.st) BY <1>5, <3>2, WindowFacts DEF Shown
    <3>4. AppOK(tm, slots, app', tx) BY <1>4, <1>6, <3>1, <3>2, <3>3, ClearApp
    <3>5. QED BY <3>1, <3>4 DEF TxLabels
  <2>2. CASE ~v
    <3>1. Fail BY <1>2, <2>2
    <3>2. app'.at \in {"idle", "quit"} /\ app'.inst = app.inst BY <3>1, FailFields
    <3>3. AppOK(tm, slots, app', tx) BY <1>6, <3>2, PlainApp DEF Plain
    <3>4. QED BY <3>2, <3>3 DEF TxLabels
  <2>3. QED BY <2>1, <2>2
<1>8. \A s \in Slots :
         SlotStep(tm, app.inst, Eff(slots, app), Pad(slots, app),
                  Eff(slots', app'), Pad(slots', app'), s)
  BY <1>1, <1>3, <1>7, AppFacts, SlotsKept
<1>9. QED BY <1>1, <1>3, <1>4, <1>7, <1>8, QuietAway

\* A step to a label of which little has to be known.
LEMMA PlainAway ==
    ASSUME IInv, IInv', Away, AppUp, app.at \notin TxLabels, UNCHANGED <<tm, slots, rec, tx>>,
           app'.inst = app.inst, app'.at \in Plain,
           app'.at \in {"home", "gate"} /\ app'.for = "attach" =>
             \A o \in Slots \ {app'.slot} : slots[o].agent # app'.agent
    PROVE  Away'
<1>1. AppOK(tm, slots, app', tx) BY Others, PlainApp
<1>2. app'.at \notin TxLabels /\ app'.at # "clear" BY DEF Plain, TxLabels
<1>3. \A s \in Slots :
         SlotStep(tm, app.inst, Eff(slots, app), Pad(slots, app),
                  Eff(slots', app'), Pad(slots', app'), s)
  BY <1>2, AppFacts, SlotsKept
<1>4. QED BY <1>1, <1>2, <1>3, QuietAway

LEMMA BackHomeAway ==
    ASSUME IInv, IInv', Away, AppUp, app.at \notin TxLabels, UNCHANGED <<tm, slots, rec, tx>>,
           app'.inst = app.inst, app'.at = "check", app'.st = slots[app'.slot].st,
           app'.for = "attach" => \A o \in Slots \ {app'.slot} : slots[o].agent # app'.agent
    PROVE  Away'
<1>1. AppOK(tm, slots, app', tx) BY Others, ReturnApp DEF ReturnLabels
<1>2. app'.at \notin TxLabels /\ app'.at # "clear" BY DEF TxLabels
<1>3. \A s \in Slots :
         SlotStep(tm, app.inst, Eff(slots, app), Pad(slots, app),
                  Eff(slots', app'), Pad(slots', app'), s)
  BY <1>2, AppFacts, SlotsKept
<1>4. QED BY <1>1, <1>2, <1>3, QuietAway

LEMMA BeginAway ==
    ASSUME IInv, IInv', Away, At("idle"), UNCHANGED <<tm, slots, rec, tx>>,
           NEW s \in Slots, NEW a, NEW purpose, Begin(s, a, purpose), purpose # "attach"
    PROVE  Away'
<1>1. AppUp /\ app.at \notin TxLabels BY DEF At, TxLabels
<1>2. /\ app'.at = IF slots[s].st = None THEN "home" ELSE "check"
      /\ app'.slot = s /\ app'.st = slots[s].st /\ app'.for = purpose /\ app'.inst = app.inst
  BY DEF Begin, IInv, TypeOK, AppType
<1>3. CASE slots[s].st = None BY <1>1, <1>2, <1>3, PlainAway DEF Plain
<1>4. CASE slots[s].st # None BY <1>1, <1>2, <1>4, BackHomeAway
<1>5. QED BY <1>3, <1>4

LEMMA AttachAway ==
    ASSUME IInv, IInv', Away, NEW s \in Slots, NEW a \in Agents, Attach(s, a) PROVE Away'
<1>1. AppUp /\ app.at \notin TxLabels /\ UNCHANGED <<tm, slots, rec, tx>>
  BY DEF Attach, At, TxLabels
<1>2. /\ app'.at = IF slots[s].st = None THEN "gate" ELSE "check"
      /\ app'.slot = s /\ app'.st = slots[s].st /\ app'.for = "attach" /\ app'.inst = app.inst
      /\ app'.agent = a /\ \A o \in Slots \ {s} : slots[o].agent # a
  BY DEF Attach, IInv, TypeOK, AppType
<1>3. CASE slots[s].st = None BY <1>1, <1>2, <1>3, PlainAway DEF Plain
<1>4. CASE slots[s].st # None BY <1>1, <1>2, <1>4, BackHomeAway
<1>5. QED BY <1>3, <1>4

LEMMA RequestAway ==
    ASSUME IInv, IInv', Away, Request PROVE Away'
<1>1. ASSUME NEW s \in Slots, NEW purpose \in {"preview", "reset", "close"}, Vacate(s, purpose)
      PROVE  Away'
  BY <1>1, BeginAway DEF Vacate
<1>2. ASSUME NEW a \in Agents, Kill(a) PROVE Away'
  <2>1. CASE \E s \in Slots : slots[s].agent = a /\ Begin(s, a, "kill")
    BY <1>2, <2>1, BeginAway DEF Kill
  <2>2. CASE app' = [app EXCEPT !.at = "killagent", !.agent = a, !.for = "kill"]
    <3>1. AppUp /\ app.at \notin TxLabels /\ UNCHANGED <<tm, slots, rec, tx>>
      BY <1>2 DEF Kill, At, TxLabels
    <3>2. app'.at = "killagent" /\ app'.inst = app.inst BY <2>2 DEF IInv, TypeOK, AppType
    <3>3. QED BY <3>1, <3>2, PlainAway DEF Plain
  <2>3. QED BY <1>2, <2>1, <2>2 DEF Kill
<1>3. ASSUME NEW how \in {"soft", "hard"}, Leave(how) PROVE Away'
  <2>1. AppUp /\ app.at \notin TxLabels /\ UNCHANGED <<tm, slots, rec, tx>>
    BY <1>3 DEF Leave, At, TxLabels
  <2>2. app'.at = "quit" /\ app'.inst = app.inst BY <1>3 DEF Leave, IInv, TypeOK, AppType
  <2>3. QED BY <2>1, <2>2, PlainAway DEF Plain
<1>4. QED BY <1>1, <1>2, <1>3, AttachAway DEF Request

LEMMA ExternalClientAway ==
    ASSUME IInv, IInv', Away, NEW s \in Slots, ExternalClient(s) PROVE Away'
BY BeginAway DEF ExternalClient

-----------------------------------------------------------------------------
(* Kills of panes and sessions by the process *)

\* A step that ends panes.
LEMMA ShrinkStepAway ==
    ASSUME IInv, IInv', Away, AppUp, Shrinks(tm, tm'), UNCHANGED <<rec, tx>>,
           \A j \in Insts : tm.own[j] /\ tm.outer[j] => tm'.own[j] /\ tm'.outer[j],
           app'.inst = app.inst,
           tm'.own[app.inst] =>
             /\ \A s \in Slots :
                  SlotStep(tm', app.inst, Eff(slots, app), Pad(slots, app),
                           Eff(slots', app'), Pad(slots', app'), s)
             /\ app'.at = "clear" =>
                  app'.st \in Rows(tm, app, rec) \cup Kept(tm', app.inst, Eff(slots, app)),
           AppOK(tm', slots', app', tx)
    PROVE  Away'
<1> DEFINE i == app.inst
           e == Eff(slots, app)
           q == Pad(slots, app)
           Now == UNION {RowsOf(rec[r]) : r \in Recoverers}
           d == IF tm'.own[i] THEN Rows(tm, app, rec) ELSE Now
<1>1. /\ tm \in ServerType /\ tm' \in ServerType /\ i \in Insts /\ RecOK(tm, rec)
      /\ Core(tm, i, e, q, Rows(tm, app, rec), tx) /\ Now \subseteq Rows(tm, app, rec)
      /\ \A r \in Recoverers : rec[r].at \in RecStLabels => rec[r].st \in SwapState
  BY AppFacts, StateTypes
<1>2. RecOK(tm', rec)
  <2>1. CASE NoRecovery BY <1>1, <2>1, RowsOff
  <2>2. CASE ~NoRecovery
    <3>1. ASSUME NEW r \in Recoverers, rec[r].at # "off" PROVE LauncherOK(tm', rec[r])
      BY <1>1, <2>2, <3>1, ShrinkLauncher DEF RecOK
    <3>2. QED BY <1>1, <3>1 DEF RecOK
  <2>3. QED BY <2>1, <2>2
<1> HIDE DEF e, q, Now
<1>3. d \subseteq Rows(tm, app, rec) /\ Now \subseteq d BY <1>1
<1>4. d = {} \/ \A j \in Insts : tm.own[j] => tm'.own[j]
  <2>1. \A j \in Insts : tm.own[j] => j = i BY <1>1, CoreParts
  <2>2. CASE tm'.own[i] BY <2>1, <2>2
  <2>3. CASE ~tm'.own[i] /\ NoRecovery
    <3>1. Now = {} BY <1>1, <2>3, RowsOff DEF Now
    <3>2. QED BY <2>3, <3>1
  <2>4. CASE ~tm'.own[i] /\ ~NoRecovery BY <1>1, <2>1, <2>4, OuterStands
  <2>5. QED BY <2>2, <2>3, <2>4
<1> HIDE DEF d
<1>5. Core(tm, i, e, q, d, tx) BY <1>1, <1>3, RowsCore
<1>6. Core(tm', i, e, q, d, tx) BY <1>1, <1>4, <1>5, ShrinkCore
<1>7. Clearing(tm', app') \subseteq d \cup Kept(tm', i, e)
  BY DEF Clearing, d, e
<1>8. Core(tm', app.inst, e, q, d, tx') BY <1>6
<1>9. UNION {RowsOf(rec[r]) : r \in Recoverers} \subseteq d BY <1>3 DEF Now
<1>10. tm'.own[app.inst] =>
         \A s \in Slots : SlotStep(tm', app.inst, e, q, Eff(slots', app'), Pad(slots', app'), s)
  BY DEF e, q
<1>11. AppOK(tm', slots', app', tx') OBVIOUS
<1>12. QED BY <1>2, <1>7, <1>8, <1>9, <1>10, <1>11, StepAway

\* One that ends panes and goes on where little has to be known.
LEMMA PlainShrinkAway ==
    ASSUME IInv, IInv', Away, AppUp, Shrinks(tm, tm'), UNCHANGED <<rec, tx>>,
           \A j \in Insts : tm.own[j] /\ tm.outer[j] => tm'.own[j] /\ tm'.outer[j],
           app.at \notin TxLabels,
           app'.inst = app.inst, app'.at \in Plain,
           app'.at \in {"home", "gate"} /\ app'.for = "attach" =>
             \A o \in Slots \ {app'.slot} : slots'[o].agent # app'.agent,
           \A s \in Slots : \/ slots'[s] = slots[s]
                            \/ slots[s].st = None /\ slots'[s] = EmptySlot
    PROVE  Away'
<1>1. /\ tm \in ServerType /\ tm' \in ServerType /\ app.inst \in Insts
      /\ Core(tm, app.inst, Eff(slots, app), Pad(slots, app), Rows(tm, app, rec), tx)
  BY AppFacts
<1>2. app'.at \notin TxLabels /\ app'.at # "clear" BY DEF Plain, TxLabels
<1>3. \A s \in Slots : slots'[s].st # None => slots'[s] = slots[s]
  BY DEF EmptySlot
<1>4. \A s \in Slots : slots'[s].st # None => slots'[s].st.agent = slots'[s].agent
  BY <1>3, Others
<1>5. AppOK(tm', slots', app', tx) BY <1>4, PlainApp
<1>6. ASSUME tm'.own[app.inst], NEW s \in Slots
      PROVE  SlotStep(tm', app.inst, Eff(slots, app), Pad(slots, app),
                      Eff(slots', app'), Pad(slots', app'), s)
  <2>1. CASE slots'[s] = slots[s]
    <3>1. Eff(slots, app)[s] = slots[s].st /\ Eff(slots', app')[s] = slots'[s].st
      BY <1>2, EffFacts
    <3>2. Pad(slots', app')[s] = Pad(slots, app)[s] BY <2>1, <3>1, EffFacts
    <3>3. Core(tm, app.inst, Eff(slots, app), Pad(slots, app), {}, tx) BY <1>1, RowsCore
    <3>4. Core(tm', app.inst, Eff(slots, app), Pad(slots, app), {}, tx)
      BY <1>1, <3>3, ShrinkCore
    <3>5. QED BY <1>1, <1>6, <2>1, <3>1, <3>2, <3>4, SlotKept
  <2>2. CASE slots[s].st = None /\ slots'[s] = EmptySlot
    <3>1. Eff(slots, app)[s] = None /\ Eff(slots', app')[s] = None
      BY <1>2, <2>2, EffFacts DEF EmptySlot
    <3>2. Pad(slots', app')[s] = None BY <2>2, <3>1, EffFacts DEF EmptySlot
    <3>3. QED BY <3>1, <3>2 DEF SlotStep
  <2>3. QED BY <2>1, <2>2
<1>7. QED BY <1>2, <1>5, <1>6, ShrinkStepAway

LEMMA KillSessionAway ==
    ASSUME IInv, IInv', Away, NEW a \in Agents, KillSession(a) PROVE Away'
<1>1. /\ AppUp /\ app.at \notin TxLabels /\ UNCHANGED <<slots, rec, tx>>
      /\ app' = Idle(app.inst) /\ (tm' = KillAgentSession(tm, a) \/ UNCHANGED tm)
  BY DEF KillSession, At, TxLabels
<1>2. app'.at = "idle" /\ app'.inst = app.inst BY <1>1 DEF Idle
<1>3. CASE UNCHANGED tm BY <1>1, <1>2, <1>3, PlainAway DEF Plain
<1>4. CASE tm' = KillAgentSession(tm, a)
  <2>1. tm \in ServerType /\ AgentsOK(tm) BY <1>1, AppFacts
  <2>2. Shrinks(tm, tm') /\ \A j \in Insts : Spares(tm, tm', j)
    BY <1>4, <2>1, KillAgentSessionShrinks
  <2>3. \A j \in Insts : tm.own[j] /\ tm.outer[j] => tm'.own[j] /\ tm'.outer[j]
    BY <2>2 DEF Spares
  <2>4. QED BY <1>1, <1>2, <2>2, <2>3, PlainShrinkAway DEF Plain
<1>5. QED BY <1>1, <1>3, <1>4

LEMMA ClosePaneAway ==
    ASSUME IInv, IInv', Away, ClosePane PROVE Away'
<1>1. /\ AppUp /\ app.at = "killpane" /\ app.at \notin TxLabels /\ app.at \in FreeLabels
      /\ UNCHANGED <<rec, tx>>
  BY DEF ClosePane, At, TxLabels, FreeLabels
<1>2. app.slot \in Slots /\ slots[app.slot].st = None BY <1>1, AppFacts
<1>3. CASE app' = Idle(app.inst) /\ UNCHANGED <<tm, slots>>
  <2>1. app'.at = "idle" /\ app'.inst = app.inst BY <1>3 DEF Idle
  <2>2. QED BY <1>1, <1>3, <2>1, PlainAway DEF Plain
<1>4. CASE /\ tm' = IF PaneReady(app.slot) THEN KillPane(tm, slots[app.slot].pane) ELSE tm
           /\ slots' = [slots EXCEPT ![app.slot] = EmptySlot]
           /\ app' = [app EXCEPT !.at = "home", !.for = "reaped"]
  <2>1. app'.at = "home" /\ app'.for = "reaped" /\ app'.inst = app.inst
    BY <1>4 DEF IInv, TypeOK, AppType
  <2>2. tm \in ServerType /\ AgentsOK(tm) /\ slots \in [Slots -> SlotType]
    BY <1>1, AppFacts
  <2>3. Shrinks(tm, tm') /\ \A j \in Insts : Spares(tm, tm', j)
    <3>1. CASE PaneReady(app.slot)
      <4>1. slots[app.slot].pane \in Panes
        BY <1>2, <2>2, <3>1 DEF PaneReady, SlotType
      <4>2. QED BY <1>4, <2>2, <3>1, <4>1, KillPaneShrinks
    <3>2. CASE ~PaneReady(app.slot)
      <4>1. tm' = tm BY <1>4, <3>2
      <4>2. QED BY <2>2, <4>1 DEF Shrinks, Spares, AgentsOK
    <3>3. QED BY <3>1, <3>2
  <2>4. \A j \in Insts : tm.own[j] /\ tm.outer[j] => tm'.own[j] /\ tm'.outer[j]
    BY <2>3 DEF Spares
  <2>5. \A s \in Slots : slots'[s] = slots[s] \/ (slots[s].st = None /\ slots'[s] = EmptySlot)
    BY <1>2, <1>4, <2>2
  <2>6. QED BY <1>1, <2>1, <2>3, <2>4, <2>5, PlainShrinkAway DEF Plain
<1>5. QED BY <1>3, <1>4 DEF ClosePane

\* No agent is in the window of a process that holds no transaction.
LEMMA NoneShown ==
    ASSUME IInv, IInv', Away, AppUp, NoSwaps(slots), app.at \notin TxLabels, NEW a \in Agents
    PROVE  tm.at[a] # Disp(app.inst)
<1>1. SUFFICES ASSUME tm.at[a] = Disp(app.inst) PROVE FALSE
  OBVIOUS
<1>2. /\ tm \in ServerType /\ app.inst \in Insts /\ tm.own[app.inst]
      /\ Core(tm, app.inst, Eff(slots, app), Pad(slots, app), Rows(tm, app, rec), tx)
  BY AppFacts
<1>3. PICK s \in Slots : /\ tm.opt[Disp(app.inst)][s] # None
                         /\ tm.opt[Disp(app.inst)][s].real = a
  BY <1>1, <1>2 DEF Core, AgentsOK
<1> DEFINE m == tm.opt[Disp(app.inst)][s]
<1>4. m.inst = app.inst BY <1>2, <1>3 DEF Core, WhereSet
<1>5. m \in Stored(tm) /\ Shown(tm, m) BY <1>1, <1>2, <1>3, <1>4, WindowFacts, StoredFacts DEF Shown
<1>6. Eff(slots, app)[m.slot] # None BY <1>2, <1>4, <1>5 DEF Core, ShownHeld
<1>7. m.slot \in Slots BY <1>2, <1>5, StoredFacts, StateFacts
<1>8. Eff(slots, app)[m.slot] = slots[m.slot].st BY <1>7, EffFacts
<1>9. QED BY <1>6, <1>7, <1>8 DEF NoSwaps

\* Dropping the keeper, on the way to such a label.
LEMMA DropAway ==
    ASSUME IInv, IInv', Away, AppUp, DropKeeperIfIdle(slots), UNCHANGED <<slots, rec, tx>>,
           app.at \notin TxLabels, app'.inst = app.inst, app'.at \in Plain,
           app'.at \in {"home", "gate"} /\ app'.for = "attach" =>
             \A o \in Slots \ {app'.slot} : slots'[o].agent # app'.agent
    PROVE  Away'
<1>1. CASE UNCHANGED tm BY <1>1, PlainAway
<1>2. CASE NoSwaps(slots) /\ tm' = KillKeeper(tm, app.inst)
  <2>1. tm \in ServerType /\ AgentsOK(tm) /\ app.inst \in Insts BY AppFacts
  <2>2. \A a \in Agents : tm.at[a] # Disp(app.inst) BY <1>2, NoneShown
  <2>3. /\ Shrinks(tm, tm')
        /\ tm.own[app.inst] /\ tm.outer[app.inst] => tm'.own[app.inst] /\ tm'.outer[app.inst]
        /\ \A j \in Insts \ {app.inst} : Spares(tm, tm', j)
    BY <1>2, <2>1, <2>2, KillKeeperShrinks
  <2>4. \A j \in Insts : tm.own[j] /\ tm.outer[j] => tm'.own[j] /\ tm'.outer[j]
    BY <2>3 DEF Spares
  <2>5. QED BY <2>3, <2>4, PlainShrinkAway
<1>3. QED BY <1>1, <1>2 DEF DropKeeperIfIdle

LEMMA ExitDropsKeeperAway ==
    ASSUME IInv, IInv', Away, ExitDropsKeeper PROVE Away'
<1>1. /\ AppUp /\ app.at \notin TxLabels /\ DropKeeperIfIdle(slots) /\ Goto("bye")
      /\ UNCHANGED <<slots, rec, tx>>
  BY DEF ExitDropsKeeper, At, TxLabels
<1>2. app'.at = "bye" /\ app'.inst = app.inst BY <1>1, GotoFields DEF AppLabels
<1>3. QED BY <1>1, <1>2, DropAway DEF Plain

LEMMA AfterHomeAway ==
    ASSUME IInv, IInv', Away, AfterHome PROVE Away'
<1>1. /\ AppUp /\ app.at = "home" /\ app.at \notin TxLabels /\ UNCHANGED <<slots, rec, tx>>
  BY DEF AfterHome, At, TxLabels
<1>2. /\ app'.inst = app.inst /\ app'.at \in Plain /\ app'.at # "home"
      /\ app'.at = "gate" => app.for = "attach" /\ app'.slot = app.slot /\ app'.agent = app.agent
  <2>1. CASE app.for = "attach"
    <3>1. Goto("gate") BY <2>1 DEF AfterHome
    <3>2. QED BY <2>1, <3>1, GotoFields DEF AppLabels, Plain
  <2>2. CASE app.for # "attach"
    <3>1. \/ \E l \in {"nested", "blank", "killpane", "quit"} : Goto(l)
          \/ app' = Idle(app.inst)
      BY <2>2 DEF AfterHome
    <3>2. ASSUME NEW l \in {"nested", "blank", "killpane", "quit"}, Goto(l)
          PROVE  app'.at = l /\ app'.inst = app.inst
      BY <3>2, GotoFields DEF AppLabels
    <3>3. app' = Idle(app.inst) => app'.at = "idle" /\ app'.inst = app.inst BY DEF Idle
    <3>4. QED BY <3>1, <3>2, <3>3 DEF Plain
  <2>3. QED BY <2>1, <2>2
<1>3. app'.at \in {"home", "gate"} /\ app'.for = "attach" =>
        \A o \in Slots \ {app'.slot} : slots'[o].agent # app'.agent
  BY <1>1, <1>2, Others
<1>4. CASE app.for = "attach"
  <2>1. UNCHANGED tm BY <1>4 DEF AfterHome
  <2>2. QED BY <1>1, <1>2, <1>3, <2>1, PlainAway
<1>5. CASE app.for # "attach"
  <2>1. DropKeeperIfIdle(slots) BY <1>5 DEF AfterHome
  <2>2. QED BY <1>1, <1>2, <1>3, <2>1, DropAway
<1>6. QED BY <1>4, <1>5

\* An operation that shows an agent is not the one that leaves.
Turns == /\ app.at = "gate" => app.for = "attach"
         /\ app.at = "quit" => app.for # "attach"

LEMMA CloseAllAway ==
    ASSUME IInv, IInv', Away, Turns, CloseAll PROVE Away'
<1>1. /\ AppUp /\ app.at = "quit" /\ app.at \notin TxLabels /\ UNCHANGED <<rec, tx>>
      /\ app.for # "attach"
  BY DEF CloseAll, At, TxLabels, Turns
<1>2. CASE \E s \in ToReturn :
             /\ app' = [app EXCEPT !.at = "check", !.slot = s,
                          !.st = slots[s].st, !.tried = @ \cup {s}]
             /\ UNCHANGED <<tm, slots, faults>>
  <2>1. PICK s \in ToReturn :
             /\ app' = [app EXCEPT !.at = "check", !.slot = s,
                          !.st = slots[s].st, !.tried = @ \cup {s}]
             /\ UNCHANGED <<tm, slots, faults>>
    BY <1>2
  <2>2. /\ app'.inst = app.inst /\ app'.at = "check" /\ app'.slot = s
        /\ app'.st = slots[s].st /\ app'.for = app.for
    BY <2>1 DEF IInv, TypeOK, AppType
  <2>3. QED BY <1>1, <2>1, <2>2, BackHomeAway
<1>3. CASE \E s \in ToClose :
             /\ slots' = [slots EXCEPT ![s] = EmptySlot]
             /\ tm' = KillPane(tm, slots[s].pane) \/ UNCHANGED tm
             /\ UNCHANGED app
  <2>1. PICK s \in ToClose :
             /\ slots' = [slots EXCEPT ![s] = EmptySlot]
             /\ tm' = KillPane(tm, slots[s].pane) \/ UNCHANGED tm
             /\ UNCHANGED app
    BY <1>3
  <2>2. /\ tm \in ServerType /\ AgentsOK(tm) /\ slots \in [Slots -> SlotType]
    BY <1>1, AppFacts
  <2>3. s \in Slots /\ slots[s].st = None /\ slots[s].pane \in Panes
    BY <2>2 DEF ToClose, SlotType
  <2>4. Shrinks(tm, tm') /\ \A j \in Insts : Spares(tm, tm', j)
    <3>1. CASE tm' = KillPane(tm, slots[s].pane) BY <2>2, <2>3, <3>1, KillPaneShrinks
    <3>2. CASE UNCHANGED tm BY <2>2, <3>2 DEF Shrinks, Spares, AgentsOK
    <3>3. QED BY <2>1, <3>1, <3>2
  <2>5. \A j \in Insts : tm.own[j] /\ tm.outer[j] => tm'.own[j] /\ tm'.outer[j]
    BY <2>4 DEF Spares
  <2>6. \A o \in Slots : slots'[o] = slots[o] \/ (slots[o].st = None /\ slots'[o] = EmptySlot)
    BY <2>1, <2>2, <2>3
  <2>7. app'.inst = app.inst /\ app'.at = "quit" BY <1>1, <2>1
  <2>8. QED BY <1>1, <2>4, <2>5, <2>6, <2>7, PlainShrinkAway DEF Plain
<1>4. CASE Goto("exit") /\ UNCHANGED <<tm, slots, faults>>
  <2>1. app'.at = "exit" /\ app'.inst = app.inst BY <1>4, GotoFields DEF AppLabels
  <2>2. QED BY <1>1, <1>4, <2>1, PlainAway DEF Plain
<1>5. QED BY <1>2, <1>3, <1>4 DEF CloseAll

LEMMA ReapDeadAway ==
    ASSUME IInv, IInv', Away, ~IdentityFaults, NEW s \in Slots, ReapDead(s) PROVE Away'
<1> DEFINE st == slots[s].st
<1>1. /\ AppUp /\ app.at \notin TxLabels /\ st # None /\ UNCHANGED <<slots, rec, tx>>
      /\ tm' = KillAgentSession(tm, st.agent) \/ UNCHANGED tm
      /\ app' = [app EXCEPT !.at = "clear", !.slot = s, !.st = st, !.agent = st.agent,
                            !.for = "reaped", !.todo = BothWindows(st)]
      /\ \E w \in Seen(tm, st.real) : w \notin Windows
  BY DEF ReapDead, At, TxLabels
<1>2. /\ app'.at = "clear" /\ app'.slot = s /\ app'.st = st /\ app'.for = "reaped"
      /\ app'.inst = app.inst
  BY <1>1 DEF IInv, TypeOK, AppType
<1>3. /\ st \in SwapState /\ Eff(slots, app)[s] = st /\ st \in Held(tm, app.inst, Eff(slots, app))
      /\ RecordOK(tm, app.inst, tx, st) /\ st.inst = app.inst /\ st.slot = s
  BY <1>1, HeldSlot
<1>4. /\ tm \in ServerType /\ tm' \in ServerType /\ app.inst \in Insts /\ AgentsOK(tm)
      /\ Core(tm, app.inst, Eff(slots, app), Pad(slots, app), Rows(tm, app, rec), tx)
  BY <1>1, AppFacts
<1>5. tm.at[st.real] = Gone
  <2>1. tm.at[st.real] \notin Windows BY <1>1 DEF Seen
  <2>2. st.agent \in Agents /\ tm.at[st.real] \in Reach(st.agent)
    BY <1>3, StateFacts DEF RecordOK, Reach
  <2>3. QED BY <2>1, <2>2, ReachFacts
<1>6. Shrinks(tm, tm') /\ \A j \in Insts : Spares(tm, tm', j)
  <2>1. CASE tm' = KillAgentSession(tm, st.agent) BY <1>4, <2>1, KillAgentSessionShrinks
  <2>2. CASE UNCHANGED tm BY <1>4, <2>2 DEF Shrinks, Spares, AgentsOK
  <2>3. QED BY <1>1, <2>1, <2>2
<1> HIDE DEF st
<1>7. ~Shown(tm', st)
  <2>1. tm'.at[st.real] = Gone BY <1>3, <1>5, <1>6, StateFacts DEF Shrinks
  <2>2. QED BY <1>3, <2>1, StateFacts, WindowFacts DEF Shown
<1>8. AppOK(tm', slots', app', tx)
  <2>1. \A o \in Slots : slots'[o].st # None => slots'[o].st.agent = slots'[o].agent
    BY <1>1, Others
  <2>2. slots'[app'.slot].st = app'.st BY <1>1, <1>2 DEF st
  <2>3. QED BY <1>2, <1>3, <1>7, <2>1, <2>2, ClearApp
<1>9. ASSUME tm'.own[app.inst]
      PROVE  /\ \A o \in Slots :
                  SlotStep(tm', app.inst, Eff(slots, app), Pad(slots, app),
                           Eff(slots', app'), Pad(slots', app'), o)
             /\ st \in Kept(tm', app.inst, Eff(slots, app))
  <2>1. Core(tm, app.inst, Eff(slots, app), Pad(slots, app), {}, tx) BY <1>4, RowsCore
  <2>2. Core(tm', app.inst, Eff(slots, app), Pad(slots, app), {}, tx)
    BY <1>4, <1>6, <2>1, ShrinkCore
  <2>3. app'.at \notin TxLabels BY <1>2 DEF TxLabels
  <2>4. st \in Held(tm', app.inst, Eff(slots, app)) BY <1>3, <1>9 DEF Held
  <2>5. QED BY <1>1, <1>4, <1>9, <2>2, <2>3, <2>4, SlotsKept DEF Kept
<1>10. \A j \in Insts : tm.own[j] /\ tm.outer[j] => tm'.own[j] /\ tm'.outer[j]
  BY <1>6 DEF Spares
<1>11. QED BY <1>1, <1>2, <1>6, <1>8, <1>9, <1>10, ShrinkStepAway

LEMMA GateAway ==
    ASSUME IInv, IInv', Away, Turns, Gate PROVE Away'
<1>1. /\ AppUp /\ app.at = "gate" /\ app.at \notin TxLabels /\ UNCHANGED <<tm, slots, rec, tx>>
      /\ app.for = "attach" /\ app.at \in FreeLabels
  BY DEF Gate, At, TxLabels, Turns, FreeLabels
<1>2. PICK v \in BOOLEAN : /\ Verdict(MarkerGate(app.agent), v)
                           /\ IF v THEN Goto("place") ELSE Fail
  BY DEF Gate
<1>3. CASE ~v
  <2>1. app'.at \in {"idle", "quit"} /\ app'.inst = app.inst BY <1>2, <1>3, FailFields
  <2>2. QED BY <1>1, <2>1, PlainAway DEF Plain
<1>4. CASE v
  <2>1. MarkerGate(app.agent) BY <1>2, <1>4 DEF Verdict
  <2>2. /\ app'.at = "place" /\ app'.inst = app.inst /\ app'.agent = app.agent
        /\ app'.at \notin TxLabels
    BY <1>2, <1>4, GotoFields DEF AppLabels, TxLabels
  <2>3. /\ tm \in ServerType /\ app.inst \in Insts /\ app.slot \in Slots
        /\ slots[app.slot].st = None
        /\ Core(tm, app.inst, Eff(slots, app), Pad(slots, app), Rows(tm, app, rec), tx)
    BY <1>1, AppFacts
  <2>4. \A o \in Slots : slots[o].st # None => slots[o].agent # app.agent
    BY <1>1, <2>3, Others
  <2>5. ASSUME NEW m \in Stored(tm) PROVE m.agent # app.agent
    <3>1. SUFFICES ASSUME m.agent = app.agent PROVE FALSE
      OBVIOUS
    <3>2. PICK w \in Windows, o \in Slots : tm.opt[w][o] = m BY <2>3, StoredFacts
    <3>3. m # None BY <2>3, StoredFacts, StateFacts
    <3>4. m.tx \in Known BY <2>1, <3>1, <3>2, <3>3 DEF MarkerGate
    <3>5. PICK z \in Slots : slots[z].st # None /\ slots[z].st.tx = m.tx
      BY <3>4 DEF Known
    <3>6. /\ slots[z].st \in Kept(tm, app.inst, Eff(slots, app))
          /\ slots[z].st.agent = slots[z].agent
      BY <1>1, <3>5, HeldSlot
    <3>7. m \in Kept(tm, app.inst, Eff(slots, app)) BY DEF Kept
    <3>8. Twins(slots[z].st, m) BY <2>3, <3>5, <3>6, <3>7, CoreFacts
    <3>9. QED BY <2>4, <3>1, <3>5, <3>6, <3>8 DEF Twins
  <2>6. ASSUME NEW o \in Slots, Eff(slots, app')[o] # None
        PROVE  Eff(slots, app')[o].agent # app.agent
    <3>1. Eff(slots, app')[o] = slots[o].st BY <2>2, EffFacts
    <3>2. slots[o].st.agent = slots[o].agent BY <1>1, <2>6, <3>1, Others
    <3>3. QED BY <2>4, <2>6, <3>1, <3>2
  <2>7. Unused(tm, Eff(slots, app'), app'.agent) BY <2>2, <2>5, <2>6 DEF Unused
  <2>8. AppOK(tm, slots', app', tx) BY <1>1, <2>2, <2>7, Others, NewApp
  <2>9. \A s \in Slots :
           SlotStep(tm, app.inst, Eff(slots, app), Pad(slots, app),
                    Eff(slots', app'), Pad(slots', app'), s)
    BY <1>1, <2>2, AppFacts, SlotsKept
  <2>10. QED BY <1>1, <2>2, <2>8, <2>9, QuietAway
<1>5. QED BY <1>3, <1>4

GenHome(t) == \A a \in Agents : t.at[a] \in Home(a) => t.at[a] = HomeWin(t, a)

\* The one live pane of a session is the agent, unless the agent died.
LEMMA SingleIsReal ==
    ASSUME NEW t \in ServerType, NEW i \in Insts, NEW e, NEW q, NEW d, NEW x,
           Core(t, i, e, q, d, x), GenHome(t), NEW a \in Agents, Unused(t, e, a),
           SingleLivePane(t, a) # None
    PROVE  LET p == SingleLivePane(t, a) IN
           p \in Panes /\ t.at[p] = HomeWin(t, a) /\ (p = a \/ (p \in Pads /\ t.at[a] = Gone))
<1> DEFINE p == SingleLivePane(t, a)
<1>1. p \in Panes /\ \A r \in Panes : t.at[r] = HomeWin(t, a) <=> r = p BY SinglePane
<1>2. HomeWin(t, a) \in Home(a) BY HomeWinFacts
<1>3. PlacesOK(t, i) BY DEF Core
<1> HIDE DEF p
<1>4. CASE p \in Agents
  <2>1. t.at[p] \in Reach(p) BY <1>3, <1>4 DEF PlacesOK, Reach
  <2>2. a = p BY <1>1, <1>2, <1>4, <2>1, ReachFacts
  <2>3. QED BY <1>1, <2>2 DEF p
<1>5. CASE p \notin Agents
  <2>1. p \in Pads /\ a \in Panes /\ p # a BY <1>1, <1>5 DEF Panes
  <2>2. t.at[a] \in Reach(a) BY <1>3 DEF PlacesOK, Reach
  <2>3. t.at[a] \notin Home(a) BY <1>1, <2>1 DEF GenHome
  <2>4. ASSUME NEW j \in Insts, t.at[a] = Disp(j) PROVE FALSE
    <3>1. PICK s \in Slots : t.opt[Disp(j)][s] # None /\ t.opt[Disp(j)][s].real = a
      BY <2>4 DEF Core, AgentsOK
    <3>2. t.opt[Disp(j)][s] \in Stored(t) BY <3>1, WindowFacts, StoredFacts
    <3>3. PICK m \in Stored(t) : m.real = a BY <3>1, <3>2
    <3>4. Live(t, m) BY <2>4, <3>3, WindowFacts DEF Live
    <3>5. m.agent # a BY <3>4 DEF Unused
    <3>6. RecordOK(t, i, x, m) BY CoreFacts DEF Kept
    <3>7. QED BY <3>3, <3>5, <3>6, PanesAssumption DEF RecordOK
  <2>5. t.at[a] = Gone BY <2>2, <2>3, <2>4 DEF Reach, Displays
  <2>6. QED BY <1>1, <2>1, <2>5 DEF p
<1>6. QED BY <1>4, <1>5

Begun == [tx |-> tx + 1, agent |-> app.agent, real |-> SingleLivePane(tm, app.agent),
          home |-> HomeWin(tm, app.agent), ph |-> slots[app.slot].pane,
          inst |-> app.inst, slot |-> app.slot, phase |-> "prepared"]
Fit == /\ ~Attached(tm, app.agent) /\ SingleLivePane(tm, app.agent) # None
       /\ \A o \in Slots \ {app.slot} :
            slots[o].st = None \/ slots[o].st.real # SingleLivePane(tm, app.agent)

LEMMA InspectAway ==
    ASSUME IInv, IInv', Away, GenHome(tm), Inspect PROVE Away'
<1>1. /\ AppUp /\ app.at = "inspect" /\ app.at \notin TxLabels /\ UNCHANGED <<tm, slots, rec, tx>>
      /\ app.at \in FreeLabels /\ app.at \in NewLabels /\ app.at \in AttachLabels
  BY DEF Inspect, At, TxLabels, FreeLabels, NewLabels, AttachLabels
<1>2. PICK v \in BOOLEAN :
        /\ Verdict(Fit, v)
        /\ app' = IF ~v THEN [app EXCEPT !.at = "home", !.for = "fallback"]
                  ELSE [app EXCEPT !.at = "keeper", !.st = Begun]
  BY DEF Inspect, Fit, Begun
<1>3. CASE ~v
  <2>1. app'.at = "home" /\ app'.for = "fallback" /\ app'.inst = app.inst
    BY <1>2, <1>3 DEF IInv, TypeOK, AppType
  <2>2. QED BY <1>1, <2>1, PlainAway DEF Plain
<1>4. CASE v
  <2>1. Fit BY <1>2, <1>4 DEF Verdict
  <2>2. /\ app'.at = "keeper" /\ app'.inst = app.inst /\ app'.agent = app.agent
        /\ app'.slot = app.slot /\ app'.st = Begun /\ app'.at \notin TxLabels
    BY <1>2, <1>4 DEF IInv, TypeOK, AppType, TxLabels
  <2>3. /\ tm \in ServerType /\ app.inst \in Insts /\ AppOK(tm, slots, app, tx)
        /\ Core(tm, app.inst, Eff(slots, app), Pad(slots, app), Rows(tm, app, rec), tx)
        /\ tm.own[app.inst]
    BY <1>1, AppFacts
  <2>4. Unused(tm, Eff(slots, app), app.agent) BY <1>1, <2>3 DEF AppOK
  <2>5. app.agent \in Agents /\ slots[app.slot].pane \in Pads BY <1>1 DEF IInv, AppInv
  <2>6. LET p == SingleLivePane(tm, app.agent) IN
        /\ p \in Panes /\ tm.at[p] = HomeWin(tm, app.agent)
        /\ p = app.agent \/ (p \in Pads /\ tm.at[app.agent] = Gone)
    BY <2>1, <2>3, <2>4, <2>5, SingleIsReal DEF Fit
  <2>7. HomeWin(tm, app.agent) \in Home(app.agent) BY <2>3, <2>5, HomeWinFacts
  <2>8. Unused(tm, Eff(slots, app'), app'.agent)
    <3>1. \A s \in Slots : Eff(slots, app')[s] = Eff(slots, app)[s] BY <1>1, <2>2, EffFacts
    <3>2. QED BY <2>2, <2>4, <3>1 DEF Unused
  <2>9. /\ Begun.tx = tx + 1 /\ Begun.agent = app.agent
        /\ Begun.real = SingleLivePane(tm, app.agent)
        /\ Begun.home = HomeWin(tm, app.agent) /\ Begun.ph = slots[app.slot].pane
        /\ Begun.inst = app.inst /\ Begun.slot = app.slot
    BY DEF Begun
  <2>10. AppOK(tm, slots', app', tx)
    BY <1>1, <2>2, <2>5, <2>6, <2>7, <2>8, <2>9, Others, KeeperApp
  <2>11. \A s \in Slots :
           SlotStep(tm, app.inst, Eff(slots, app), Pad(slots, app),
                    Eff(slots', app'), Pad(slots', app'), s)
    BY <1>1, <2>2, AppFacts, SlotsKept
  <2>12. QED BY <1>1, <2>2, <2>10, <2>11, QuietAway
<1>5. QED BY <1>3, <1>4

-----------------------------------------------------------------------------
(* Commands that replace what a slot's pane shows, or make the pane *)

LEMMA AddsRecOK ==
    ASSUME IInv, IInv', Away, AppUp, Adds(tm, tm', app.inst), tm'.outer = tm.outer,
           \A p \in Panes, j \in Insts : ~tm.own[j] /\ tm'.at[p] = Disp(j) => tm.at[p] = Disp(j)
    PROVE  RecOK(tm', rec)
<1>1. /\ tm \in ServerType /\ tm' \in ServerType /\ RecOK(tm, rec)
      /\ \A r \in Recoverers : rec[r].at \in RecStLabels => rec[r].st \in SwapState
  BY AppFacts, StateTypes
<1>2. ASSUME NEW r \in Recoverers, rec[r].at # "off" PROVE LauncherOK(tm', rec[r])
  BY <1>1, <1>2, AddsLauncher DEF RecOK
<1>3. QED BY <1>1, <1>2 DEF RecOK

LEMMA ShowFields ==
    ASSUME IInv, IInv', Away, AppUp, app.slot \in Slots, slots[app.slot].st = None,
           NEW what, Show(app.slot, what)
    PROVE  /\ Adds(tm, tm', app.inst) /\ tm'.outer = tm.outer
           /\ PaneFor(app.slot) \in Pads
           /\ PaneReady(app.slot) => tm'.at = tm.at /\ PaneFor(app.slot) = slots[app.slot].pane
           /\ ~PaneReady(app.slot) => tm.at[PaneFor(app.slot)] = Unborn
                                      /\ tm'.at[PaneFor(app.slot)] = Disp(app.inst)
           /\ \A p \in Panes : tm'.at[p] = tm.at[p] \/ tm'.at[p] = Disp(app.inst)
<1>1. /\ tm \in ServerType /\ app.inst \in Insts /\ slots \in [Slots -> SlotType]
      /\ Core(tm, app.inst, Eff(slots, app), Pad(slots, app), Rows(tm, app, rec), tx)
  BY AppFacts
<1>2. PlacesOK(tm, app.inst) BY <1>1 DEF Core
<1>3. CASE PaneReady(app.slot)
  <2>1. slots[app.slot].pane \in Panes BY <1>1, <1>3 DEF PaneReady, SlotType
  <2>2. slots[app.slot].pane \notin Agents BY DEF IInv, SlotsInv
  <2>3. tm' = [tm EXCEPT !.shows[slots[app.slot].pane] = what]
    BY <1>3, <2>2 DEF Show, RespawnPane
  <2>4. /\ tm'.at = tm.at /\ tm'.own = tm.own /\ tm'.opt = tm.opt /\ tm'.keep = tm.keep
        /\ tm'.outer = tm.outer
    BY <1>1, <2>3 DEF ServerType
  <2>5. Adds(tm, tm', app.inst) BY <1>2, <2>4 DEF Adds, PlacesOK
  <2>6. PaneFor(app.slot) = slots[app.slot].pane BY <1>3 DEF PaneFor
  <2>7. slots[app.slot].pane \in Pads BY <2>1, <2>2 DEF Panes
  <2>8. QED BY <1>3, <2>4, <2>5, <2>6, <2>7
<1>4. CASE ~PaneReady(app.slot)
  <2>1. PaneFor(app.slot) = FreshPad(tm) /\ HasFreshPad(tm) BY <1>4 DEF Show, PaneFor
  <2>2. FreshPad(tm) \in Pads /\ tm.at[FreshPad(tm)] = Unborn
    BY <2>1 DEF HasFreshPad, FreshPad
  <2>3. tm' = [SplitWindow(tm, app.inst) EXCEPT !.shows[FreshPad(tm)] = what]
    BY <1>4 DEF Show
  <2> DEFINE u == SplitWindow(tm, app.inst)
  <2>4. /\ u.at = [tm.at EXCEPT ![FreshPad(tm)] = Disp(app.inst)] /\ u.own = tm.own
        /\ u.opt = tm.opt /\ u.keep = tm.keep /\ u.outer = tm.outer /\ u.shows = tm.shows
        /\ u = [tm EXCEPT !.at = u.at]
    BY <1>1 DEF ServerType, SplitWindow
  <2>5. /\ tm'.at = u.at /\ tm'.own = u.own /\ tm'.opt = u.opt /\ tm'.keep = u.keep
        /\ tm'.outer = u.outer
    BY <1>1, <2>3, <2>4 DEF ServerType
  <2> HIDE DEF u
  <2>6. FreshPad(tm) \in Panes /\ tm.at \in [Panes -> Windows \cup {Gone, Unborn}]
    BY <1>1, <2>2 DEF Panes, ServerType
  <2>7. \A p \in Panes : tm'.at[p] = IF p = FreshPad(tm) THEN Disp(app.inst) ELSE tm.at[p]
    BY <2>4, <2>5, <2>6
  <2>8. app.inst <= app.inst BY <1>1 DEF Insts
  <2>9. \A p \in Panes, j \in Insts : tm'.at[p] = Disp(j) => j <= app.inst
    BY <1>1, <1>2, <2>7, <2>8, WindowFacts DEF PlacesOK
  <2>10. Adds(tm, tm', app.inst) BY <2>2, <2>4, <2>5, <2>7, <2>9 DEF Adds
  <2>11. QED BY <1>4, <2>1, <2>2, <2>4, <2>5, <2>6, <2>7, <2>10
<1>5. QED BY <1>3, <1>4

\* The slot of such a command holds no transaction, before and after it.
LEMMA ShowAway ==
    ASSUME IInv, IInv', Away, AppUp, app.slot \in Slots, slots[app.slot].st = None,
           NEW what, Show(app.slot, what), UNCHANGED <<rec, tx>>,
           app.at \notin TxLabels, app'.at \notin TxLabels, app'.at # "clear",
           app'.inst = app.inst, \A s \in Slots \ {app.slot} : slots'[s] = slots[s],
           slots'[app.slot].st = None, slots'[app.slot].pane = PaneFor(app.slot),
           AppOK(tm', slots', app', tx)
    PROVE  Away'
<1> DEFINE i == app.inst
           e == Eff(slots, app)
           q == Pad(slots, app)
           q2 == Pad(slots', app')
           d == Rows(tm, app, rec)
<1>1. /\ tm \in ServerType /\ tm' \in ServerType /\ i \in Insts /\ tm.own[i]
      /\ Core(tm, i, e, q, d, tx) /\ UNION {RowsOf(rec[r]) : r \in Recoverers} \subseteq d
  BY AppFacts
<1>2. /\ Adds(tm, tm', i) /\ tm'.outer = tm.outer
      /\ PaneFor(app.slot) \in Pads
      /\ PaneReady(app.slot) => tm'.at = tm.at /\ PaneFor(app.slot) = slots[app.slot].pane
      /\ ~PaneReady(app.slot) => tm.at[PaneFor(app.slot)] = Unborn
                                 /\ tm'.at[PaneFor(app.slot)] = Disp(i)
      /\ \A p \in Panes : tm'.at[p] = tm.at[p] \/ tm'.at[p] = Disp(i)
  BY ShowFields
<1>3. RecOK(tm', rec)
  <2>1. ASSUME NEW p \in Panes, NEW j \in Insts, ~tm.own[j], tm'.at[p] = Disp(j)
        PROVE  tm.at[p] = Disp(j)
    BY <1>1, <1>2, <2>1, WindowFacts
  <2>2. QED BY <1>2, <2>1, AddsRecOK
<1>4. \A s \in Slots : e[s] = slots[s].st /\ Eff(slots', app')[s] = slots'[s].st
  BY EffFacts
<1>5. \A s \in Slots : Eff(slots', app')[s] = e[s] BY <1>4
<1>6. \A s \in Slots \ {app.slot} : q2[s] = q[s] BY <1>4, EffFacts
<1>7. e[app.slot] = None /\ q[app.slot] = slots[app.slot].pane /\ q2[app.slot] = PaneFor(app.slot)
  BY <1>4, EffFacts
<1> HIDE DEF e, q, q2, d
<1>8. Core(tm', i, e, q2, d, tx)
  <2>1. CASE PaneReady(app.slot)
    <3>1. \A s \in Slots : q2[s] = q[s] BY <1>2, <1>6, <1>7, <2>1
    <3>2. Core(tm', i, e, q, d, tx) BY <1>1, <1>2, AddsCore
    <3>3. tm'.own[i] BY <1>1, <1>2 DEF Adds
    <3>4. ASSUME NEW s \in Slots PROVE SlotStep(tm', i, e, q, e, q2, s)
      BY <1>1, <3>1, <3>2, <3>3, SlotKept
    <3>5. QED BY <1>1, <3>2, <3>4, SlotsCore
  <2>2. CASE ~PaneReady(app.slot)
    BY <1>1, <1>2, <1>6, <1>7, <2>2, PadCore
  <2>3. QED BY <2>1, <2>2
<1>9. tm'.own[i] BY <1>1, <1>2 DEF Adds
<1>10. ASSUME NEW s \in Slots PROVE SlotStep(tm', i, e, q2, Eff(slots', app'), q2, s)
  BY <1>1, <1>5, <1>8, <1>9, SlotKept
<1>11. Clearing(tm', app') = {} BY DEF Clearing
<1>12. UNION {RowsOf(rec[r]) : r \in Recoverers} \subseteq d BY <1>1
<1>13. Core(tm', app.inst, e, q2, d, tx') BY <1>8
<1>14. \A s \in Slots : SlotStep(tm', app.inst, e, q2, Eff(slots', app'), Pad(slots', app'), s)
  BY <1>10 DEF q2
<1>15. AppOK(tm', slots', app', tx') OBVIOUS
<1>16. QED BY <1>3, <1>11, <1>12, <1>13, <1>14, <1>15, StepAway

LEMMA PlaceAway ==
    ASSUME IInv, IInv', Away, Place PROVE Away'
<1>1. /\ AppUp /\ app.at = "place" /\ app.at \notin TxLabels /\ UNCHANGED <<rec, tx>>
      /\ app.at \in FreeLabels /\ app.at \in NewLabels
  BY DEF Place, At, TxLabels, FreeLabels, NewLabels
<1>2. /\ tm \in ServerType /\ app.inst \in Insts /\ app.slot \in Slots
      /\ slots[app.slot].st = None /\ slots \in [Slots -> SlotType]
      /\ AppOK(tm, slots, app, tx) /\ tm.own[app.inst]
      /\ Core(tm, app.inst, Eff(slots, app), Pad(slots, app), Rows(tm, app, rec), tx)
  BY <1>1, AppFacts
<1>3. CASE /\ Show(app.slot, "idle")
           /\ slots' = [slots EXCEPT ![app.slot] = [EmptySlot EXCEPT !.pane = PaneFor(app.slot)]]
           /\ Goto("inspect")
  <2>1. /\ app'.at = "inspect" /\ app'.inst = app.inst /\ app'.agent = app.agent
        /\ app'.at \notin TxLabels
    BY <1>3, GotoFields DEF AppLabels, TxLabels
  <2>2. /\ \A s \in Slots \ {app.slot} : slots'[s] = slots[s]
        /\ slots'[app.slot].st = None /\ slots'[app.slot].pane = PaneFor(app.slot)
    BY <1>2, <1>3 DEF EmptySlot
  <2>3. Adds(tm, tm', app.inst) BY <1>1, <1>2, <1>3, ShowFields
  <2>4. \A n \in Stored(tm) : tm.at[n.real] # Unborn /\ n.real \in Panes
    BY <1>2, NotUnborn, StoredFacts, StateFacts
  <2>5. Stored(tm') = Stored(tm) BY <2>3 DEF Adds, Stored
  <2>6. \A n \in Stored(tm) : Live(tm', n) => Live(tm, n) BY <2>3, <2>4 DEF Adds, Live
  <2>7. Unused(tm, Eff(slots, app), app.agent) BY <1>1, <1>2 DEF AppOK
  <2>8. \A s \in Slots : Eff(slots', app')[s] = Eff(slots, app)[s]
    BY <1>1, <1>2, <2>1, <2>2, EffFacts
  <2>9. Unused(tm', Eff(slots', app'), app'.agent)
    BY <2>1, <2>5, <2>6, <2>7, <2>8 DEF Unused
  <2>10. \A s \in Slots : slots'[s].st # None => slots'[s].st.agent = slots'[s].agent
    BY <1>1, <2>2, Others
  <2>11. AppOK(tm', slots', app', tx) BY <2>1, <2>9, <2>10, NewApp
  <2>12. QED BY <1>1, <1>2, <1>3, <2>1, <2>2, <2>11, ShowAway
<1>4. CASE /\ UNCHANGED tm
           /\ slots' = IF PaneReady(app.slot) THEN slots
                       ELSE [slots EXCEPT ![app.slot].pane = None]
           /\ Fail
  <2>1. app'.at \in {"idle", "quit"} /\ app'.inst = app.inst /\ app'.at \notin TxLabels
    BY <1>4, FailFields DEF TxLabels
  <2>2. /\ \A s \in Slots : slots'[s].st = slots[s].st /\ slots'[s].agent = slots[s].agent
        /\ \A s \in Slots : slots'[s].pane = slots[s].pane \/ (s = app.slot /\ slots'[s].pane = None)
    BY <1>2, <1>4 DEF SlotType
  <2>3. \A s \in Slots : slots'[s].st # None => slots'[s].st.agent = slots'[s].agent
    BY <1>1, <2>2, Others
  <2>4. AppOK(tm, slots', app', tx) BY <2>1, <2>3, PlainApp DEF Plain
  <2>5. ASSUME NEW s \in Slots
        PROVE  SlotStep(tm, app.inst, Eff(slots, app), Pad(slots, app),
                        Eff(slots', app'), Pad(slots', app'), s)
    <3>1. Eff(slots, app)[s] = slots[s].st /\ Eff(slots', app')[s] = slots[s].st
      BY <1>1, <2>1, <2>2, EffFacts
    <3>2. CASE slots'[s].pane = slots[s].pane
      <4>1. Pad(slots', app')[s] = Pad(slots, app)[s] BY <3>1, <3>2, EffFacts
      <4>2. QED BY <1>2, <3>1, <4>1, SlotKept
    <3>3. CASE s = app.slot /\ slots'[s].pane = None
      <4>1. Pad(slots', app')[s] = None /\ slots[s].st = None
        BY <1>2, <3>1, <3>3, EffFacts
      <4>2. QED BY <3>1, <4>1 DEF SlotStep
    <3>4. QED BY <2>2, <3>2, <3>3
  <2>6. QED BY <1>1, <1>4, <2>1, <2>4, <2>5, QuietAway
<1>5. QED BY <1>3, <1>4 DEF Place

LEMMA NestedAway ==
    ASSUME IInv, IInv', Away, Nested PROVE Away'
<1>1. /\ AppUp /\ app.at \notin TxLabels /\ UNCHANGED <<rec, tx>>
      /\ app.at \in FreeLabels /\ app' = Idle(app.inst)
  BY DEF Nested, At, TxLabels, FreeLabels
<1>2. app.slot \in Slots /\ slots[app.slot].st = None /\ slots \in [Slots -> SlotType]
  BY <1>1, AppFacts
<1>3. app'.at = "idle" /\ app'.inst = app.inst /\ app'.at \notin TxLabels
  BY <1>1 DEF Idle, TxLabels
<1>4. CASE UNCHANGED <<tm, slots>> BY <1>1, <1>3, <1>4, PlainAway DEF Plain
<1>5. CASE /\ Show(app.slot, app.agent)
           /\ slots' = [slots EXCEPT ![app.slot] =
                          [pane |-> PaneFor(app.slot), agent |-> app.agent, st |-> None]]
  <2>1. /\ \A s \in Slots \ {app.slot} : slots'[s] = slots[s]
        /\ slots'[app.slot].st = None /\ slots'[app.slot].pane = PaneFor(app.slot)
    BY <1>2, <1>5
  <2>2. \A s \in Slots : slots'[s].st # None => slots'[s].st.agent = slots'[s].agent
    BY <1>1, <2>1, Others
  <2>3. AppOK(tm', slots', app', tx) BY <1>3, <2>2, PlainApp DEF Plain
  <2>4. QED BY <1>1, <1>2, <1>3, <1>5, <2>1, <2>3, ShowAway
<1>6. QED BY <1>4, <1>5 DEF Nested

LEMMA BlankAway ==
    ASSUME IInv, IInv', Away, Blank PROVE Away'
<1>1. /\ AppUp /\ app.at \notin TxLabels /\ UNCHANGED <<rec, tx>> /\ app.at \in FreeLabels
  BY DEF Blank, At, TxLabels, FreeLabels
<1>2. /\ tm \in ServerType /\ app.inst \in Insts /\ tm.own[app.inst]
      /\ app.slot \in Slots /\ slots[app.slot].st = None /\ slots \in [Slots -> SlotType]
      /\ Core(tm, app.inst, Eff(slots, app), Pad(slots, app), Rows(tm, app, rec), tx)
  BY <1>1, AppFacts
<1>3. /\ app' = Idle(app.inst) \/ Goto("killagent")
      /\ app'.at \in {"idle", "killagent"} /\ app'.inst = app.inst /\ app'.at \notin TxLabels
  <2>1. app' = Idle(app.inst) \/ Goto("killagent") BY DEF Blank
  <2>2. app' = Idle(app.inst) => app'.at = "idle" /\ app'.inst = app.inst BY DEF Idle
  <2>3. Goto("killagent") => app'.at = "killagent" /\ app'.inst = app.inst
    BY GotoFields DEF AppLabels
  <2>4. QED BY <2>1, <2>2, <2>3 DEF TxLabels
<1>4. CASE /\ Show(app.slot, "idle")
           /\ slots' = [slots EXCEPT ![app.slot] = [EmptySlot EXCEPT !.pane = PaneFor(app.slot)]]
  <2>1. /\ \A s \in Slots \ {app.slot} : slots'[s] = slots[s]
        /\ slots'[app.slot].st = None /\ slots'[app.slot].pane = PaneFor(app.slot)
    BY <1>2, <1>4 DEF EmptySlot
  <2>2. \A s \in Slots : slots'[s].st # None => slots'[s].st.agent = slots'[s].agent
    BY <1>1, <2>1, Others
  <2>3. AppOK(tm', slots', app', tx) BY <1>3, <2>2, PlainApp DEF Plain
  <2>4. app'.at # "clear" BY <1>3
  <2>5. QED BY <1>1, <1>2, <1>3, <1>4, <2>1, <2>3, <2>4, ShowAway
<1>5. CASE slots' = [slots EXCEPT ![app.slot] = EmptySlot] /\ UNCHANGED tm
  <2>1. \A s \in Slots : slots'[s] = slots[s] \/ (slots[s].st = None /\ slots'[s] = EmptySlot)
    BY <1>2, <1>5
  <2>2. Shrinks(tm, tm') BY <1>2, <1>5 DEF Shrinks, Core, AgentsOK
  <2>3. QED BY <1>1, <1>3, <1>5, <2>1, <2>2, PlainShrinkAway DEF Plain
<1>6. CASE UNCHANGED <<tm, slots>> BY <1>1, <1>3, <1>6, PlainAway DEF Plain
<1>7. QED BY <1>4, <1>5, <1>6 DEF Blank

-----------------------------------------------------------------------------
(* The writes of a transaction's markers *)

LEMMA PhaseAlike ==
    ASSUME NEW m \in SwapState, NEW phase \in {"prepared", "displayed", "returning"},
           NEW k, k = [m EXCEPT !.phase = phase]
    PROVE  /\ Alike(k, m) /\ k \in SwapState
           /\ \A t, i, x : RecordOK(t, i, x, m) => RecordOK(t, i, x, k)
<1>1. /\ k \in SwapState /\ k.tx = m.tx /\ k.agent = m.agent /\ k.real = m.real
      /\ k.home = m.home /\ k.ph = m.ph /\ k.inst = m.inst /\ k.slot = m.slot
  BY DEF SwapState
<1>2. Alike(k, m) BY <1>1 DEF Alike, Twins
<1>3. \A t, i, x : RecordOK(t, i, x, m) => RecordOK(t, i, x, k) BY <1>1 DEF RecordOK
<1>4. QED BY <1>1, <1>2, <1>3

LEMMA OptRecOK ==
    ASSUME IInv, IInv', Away, AppUp, tm'.at = tm.at, tm'.own = tm.own, tm'.outer = tm.outer,
           \A j \in Insts, s \in Slots : ~tm.own[j] => tm'.opt[Disp(j)][s] = tm.opt[Disp(j)][s]
    PROVE  RecOK(tm', rec)
<1>1. /\ tm \in ServerType /\ tm' \in ServerType /\ RecOK(tm, rec)
      /\ \A r \in Recoverers : rec[r].at \in RecStLabels => rec[r].st \in SwapState
  BY AppFacts, StateTypes
<1>2. ASSUME NEW r \in Recoverers, rec[r].at # "off" PROVE LauncherOK(tm', rec[r])
  BY <1>1, <1>2, OptLauncher DEF RecOK
<1>3. QED BY <1>1, <1>2 DEF RecOK

\* A slot's transaction may write over what is on the window of its process.
LEMMA OwnOverwrites ==
    ASSUME NEW t \in ServerType, NEW i \in Insts, NEW e, NEW q, NEW d, NEW x,
           Core(t, i, e, q, d, x), NEW k \in Held(t, i, e), NEW m, Alike(m, k), NEW w
    PROVE  Overwrites(t, Kept(t, i, e) \cup Dead(t, d), m, w)
<1>1. m.inst = k.inst /\ m.slot = k.slot /\ m.tx = k.tx BY DEF Alike, Twins
<1>2. t.own[i] /\ k.inst = i /\ e[k.slot] = k BY HeldFacts
<1>3. ASSUME NEW n \in Kept(t, i, e) \cup Dead(t, d), Shown(t, n), n.inst = m.inst,
             n.slot = m.slot
      PROVE  n.tx = m.tx
  <2>1. CASE n \in Held(t, i, e) BY <1>1, <1>2, <1>3, <2>1, HeldFacts
  <2>2. CASE n \in Stored(t) BY <1>1, <1>2, <1>3, <2>2 DEF Core, ShownHeld
  <2>3. CASE n \in Dead(t, d) BY <1>1, <1>2, <1>3, <2>3, HeldFacts
  <2>4. QED BY <1>3, <2>1, <2>2, <2>3 DEF Kept
<1>4. QED BY <1>3 DEF Overwrites

\* A write of the marker of a transaction the process holds.
LEMMA WriteFacts ==
    ASSUME IInv, IInv', Away, AppUp,
           NEW k \in Held(tm, app.inst, Eff(slots, app)), NEW m, Alike(m, k), m.home = k.home,
           NEW w \in {m.home, Disp(m.inst)}, WindowUp(tm, w),
           RecordOK(tm, app.inst, tx, m),
           tm' = SetOption(tm, w, m.slot, m)
    PROVE  /\ Core(tm', app.inst, Eff(slots, app), Pad(slots, app), Rows(tm, app, rec), tx)
           /\ RecOK(tm', rec)
           /\ tm'.at = tm.at /\ tm'.own = tm.own /\ tm'.keep = tm.keep
           /\ Marked(tm, m) \/ w = Disp(m.inst) => Marked(tm', m)
<1> DEFINE e == Eff(slots, app)
           d == Rows(tm, app, rec)
<1>1. /\ tm \in ServerType /\ tm' \in ServerType /\ app.inst \in Insts /\ tm.own[app.inst]
      /\ Core(tm, app.inst, e, Pad(slots, app), d, tx)
  BY AppFacts
<1>2. k \in Kept(tm, app.inst, e) BY DEF Kept
<1>3. /\ k \in SwapState /\ k.inst = app.inst /\ k.home \in Home(k.agent)
      /\ m \in SwapState /\ m.inst = k.inst /\ m.slot = k.slot /\ m.tx = k.tx /\ Twins(m, k)
      /\ m.home \in Home(m.agent)
  BY <1>1, <1>2, CoreFacts, HeldFacts DEF RecordOK, Alike, Twins
<1>4. /\ m.agent \in Agents /\ m.slot \in Slots /\ m.inst \in Insts /\ m.home \in Windows
      /\ m # None
  BY <1>3, StateFacts
<1>5. w \in Windows BY <1>4, WindowFacts
<1>6. /\ tm'.at = tm.at /\ tm'.own = tm.own /\ tm'.keep = tm.keep /\ tm'.outer = tm.outer
      /\ \A v \in Windows, s \in Slots :
           tm'.opt[v][s] = IF v = w /\ s = m.slot THEN m ELSE tm.opt[v][s]
  BY <1>1, <1>3, <1>5, SetOptionFields
<1>7. Overwrites(tm, Kept(tm, app.inst, e) \cup Dead(tm, d), m, w)
  BY <1>1, OwnOverwrites
<1> HIDE DEF e, d
<1>8. Core(tm', app.inst, e, Pad(slots, app), d, tx)
  BY <1>1, <1>2, <1>3, <1>7, WriteCore
<1>9. ASSUME NEW j \in Insts, NEW s \in Slots, ~tm.own[j]
      PROVE  tm'.opt[Disp(j)][s] = tm.opt[Disp(j)][s]
  <2>1. Disp(j) \in Windows /\ Disp(j) # w BY <1>1, <1>3, <1>4, <1>9, WindowFacts
  <2>2. QED BY <1>6, <2>1
<1>10. RecOK(tm', rec) BY <1>6, <1>9, OptRecOK
<1>11. Marked(tm, m) \/ w = Disp(m.inst) => Marked(tm', m)
  <2>1. Disp(m.inst) \in Windows BY <1>4, WindowFacts
  <2>2. tm'.opt[Disp(m.inst)][m.slot] = IF Disp(m.inst) = w THEN m
                                        ELSE tm.opt[Disp(m.inst)][m.slot]
    BY <1>4, <1>6, <2>1
  <2>3. QED BY <1>4, <2>2 DEF Marked
<1>12. QED BY <1>6, <1>8, <1>10, <1>11 DEF e, d

\* A clear of such a marker, on the agent's home or when the agent is home.
LEMMA ClearFacts ==
    ASSUME IInv, IInv', Away, AppUp,
           NEW m \in Kept(tm, app.inst, Eff(slots, app)) \cup Rows(tm, app, rec),
           m.inst = app.inst, NEW w \in Windows, w \in Displays => ~Shown(tm, m),
           tm' = ClearMatching(tm, w, m.slot, m.tx)
    PROVE  /\ Core(tm', app.inst, Eff(slots, app), Pad(slots, app), Rows(tm, app, rec), tx)
           /\ RecOK(tm', rec)
           /\ tm'.at = tm.at /\ tm'.own = tm.own /\ tm'.keep = tm.keep
           /\ w # Disp(m.inst) /\ Marked(tm, m) => Marked(tm', m)
<1> DEFINE e == Eff(slots, app)
           d == Rows(tm, app, rec)
<1>1. /\ tm \in ServerType /\ tm' \in ServerType /\ app.inst \in Insts /\ tm.own[app.inst]
      /\ Core(tm, app.inst, e, Pad(slots, app), d, tx)
  BY AppFacts
<1>2. m \in SwapState BY <1>1, CoreFacts
<1>3. m.slot \in Slots /\ m.inst \in Insts BY <1>2, StateFacts
<1>4. /\ tm'.at = tm.at /\ tm'.own = tm.own /\ tm'.keep = tm.keep /\ tm'.outer = tm.outer
      /\ \A v \in Windows, o \in Slots :
           \/ tm'.opt[v][o] = tm.opt[v][o]
           \/ /\ v = w /\ o = m.slot /\ tm'.opt[v][o] = None
              /\ tm.opt[w][m.slot] # None /\ tm.opt[w][m.slot].tx = m.tx
  BY <1>1, <1>3, ClearFields
<1> HIDE DEF e, d
<1>5. Core(tm', app.inst, e, Pad(slots, app), d, tx) BY <1>1, ClearCore DEF e, d
<1>6. ASSUME NEW j \in Insts, NEW s \in Slots, ~tm.own[j]
      PROVE  tm'.opt[Disp(j)][s] = tm.opt[Disp(j)][s]
  <2>1. SUFFICES ASSUME tm.opt[Disp(j)][s] # None, tm.opt[Disp(j)][s].tx = m.tx PROVE FALSE
    BY <1>4, WindowFacts
  <2>2. tm.opt[Disp(j)][s].inst = j BY <1>1, <2>1 DEF Core, WhereSet
  <2>3. tm.opt[Disp(j)][s] \in Stored(tm) BY <1>1, <2>1, WindowFacts, StoredFacts
  <2>4. Twins(tm.opt[Disp(j)][s], m) BY <1>1, <2>1, <2>3, CoreFacts DEF Kept, e, d
  <2>5. QED BY <1>1, <1>6, <2>2, <2>4 DEF Twins
<1>7. RecOK(tm', rec) BY <1>4, <1>6, OptRecOK
<1>8. w # Disp(m.inst) /\ Marked(tm, m) => Marked(tm', m)
  <2>1. Disp(m.inst) \in Windows BY <1>3, WindowFacts
  <2>2. w # Disp(m.inst) => tm'.opt[Disp(m.inst)][m.slot] = tm.opt[Disp(m.inst)][m.slot]
    BY <1>3, <1>4, <2>1
  <2>3. QED BY <2>2 DEF Marked
<1>9. QED BY <1>4, <1>5, <1>7, <1>8 DEF e, d

\* A step on the way home that changes the server, not the slots.
LEMMA ReturnAway ==
    ASSUME IInv, IInv', Away, AppUp, app.at \notin TxLabels, app'.at \notin TxLabels,
           app'.at # "clear", app'.inst = app.inst, UNCHANGED <<slots, rec, tx>>,
           Core(tm', app.inst, Eff(slots, app), Pad(slots, app), Rows(tm, app, rec), tx),
           RecOK(tm', rec), tm'.own = tm.own, AppOK(tm', slots, app', tx)
    PROVE  Away'
<1>1. /\ tm' \in ServerType /\ tm.own[app.inst]
      /\ UNION {RowsOf(rec[r]) : r \in Recoverers} \subseteq Rows(tm, app, rec)
  BY AppFacts
<1>2. \A s \in Slots : SlotStep(tm', app.inst, Eff(slots, app), Pad(slots, app),
                                Eff(slots', app'), Pad(slots', app'), s)
  BY <1>1, SlotsKept
<1>3. Clearing(tm', app') = {} BY DEF Clearing
<1>4. Core(tm', app.inst, Eff(slots, app), Pad(slots, app), Rows(tm, app, rec), tx') OBVIOUS
<1>5. AppOK(tm', slots', app', tx') OBVIOUS
<1>6. QED BY <1>1, <1>2, <1>3, <1>4, <1>5, StepAway

LEMMA ReturningFacts ==
    ASSUME IInv, IInv', Away, AppUp, app.at \in {"mark1", "mark2", "swaphome"}
    PROVE  /\ app.at \in ReturnLabels /\ app.at \notin TxLabels /\ Out(tm, app.st)
           /\ slots[app.slot].st = app.st /\ app.st \in SwapState
           /\ app.st \in Held(tm, app.inst, Eff(slots, app))
           /\ app.st \in Kept(tm, app.inst, Eff(slots, app)) /\ app.st.inst = app.inst
           /\ app.st.home \in Home(app.st.agent) /\ app.st.agent \in Agents
           /\ app.st.inst \in Insts /\ app.st.home \in Windows
           /\ Returning \in SwapState /\ Alike(Returning, app.st)
           /\ RecordOK(tm, app.inst, tx, Returning) /\ Returning.home = app.st.home
           /\ app.for = "attach" => \A o \in Slots \ {app.slot} : slots[o].agent # app.agent
<1>1. app.at \in ReturnLabels /\ app.at \notin TxLabels BY DEF ReturnLabels, TxLabels
<1>2. /\ app.st \in SwapState /\ RecordOK(tm, app.inst, tx, app.st)
      /\ app.st \in Held(tm, app.inst, Eff(slots, app))
      /\ app.st \in Kept(tm, app.inst, Eff(slots, app)) /\ app.st.inst = app.inst
  BY <1>1, HeldHere
<1>3. Returning \in SwapState /\ Alike(Returning, app.st) /\ RecordOK(tm, app.inst, tx, Returning)
  BY <1>2, PhaseAlike DEF Returning
<1>4. Out(tm, app.st) /\ slots[app.slot].st = app.st BY <1>1, AppFacts DEF AppOK
<1>5. app.for = "attach" => \A o \in Slots \ {app.slot} : slots[o].agent # app.agent
  BY <1>1, Others
<1>6. /\ app.st.home \in Home(app.st.agent) /\ app.st.agent \in Agents
      /\ app.st.inst \in Insts /\ app.st.home \in Windows
  BY <1>2, StateFacts DEF RecordOK
<1>7. QED BY <1>1, <1>2, <1>3, <1>4, <1>5, <1>6 DEF Alike

\* The label after such a write.
LEMMA ReturningApp ==
    ASSUME IInv, IInv', Away, AppUp, app.at \in {"mark1", "mark2", "swaphome"}, tm'.at = tm.at,
           NEW l \in {"mark2", "swaphome"}, Goto(l)
    PROVE  /\ app'.inst = app.inst /\ app'.at \notin TxLabels /\ app'.at # "clear"
           /\ AppOK(tm', slots, app', tx)
<1>1. /\ app'.at = l /\ app'.inst = app.inst /\ app'.slot = app.slot /\ app'.st = app.st
      /\ app'.agent = app.agent /\ app'.for = app.for
  BY GotoFields DEF AppLabels
<1>2. Out(tm', app.st) BY ReturningFacts DEF Out
<1>3. AppOK(tm', slots, app', tx)
  BY <1>1, <1>2, ReturningFacts, Others, ReturnApp DEF ReturnLabels
<1>4. QED BY <1>1, <1>3 DEF TxLabels

LEMMA MarkReturningHomeAway ==
    ASSUME IInv, IInv', Away, MarkReturningHome PROVE Away'
<1>1. /\ AppUp /\ app.at \in {"mark1", "mark2", "swaphome"} /\ UNCHANGED <<slots, rec, tx>>
      /\ WriteHome(Returning, Goto("mark2"), Goto("swaphome"))
  BY DEF MarkReturningHome, At
<1>2. \/ /\ WindowUp(tm, Returning.home) /\ Goto("mark2")
         /\ tm' = SetOption(tm, Returning.home, Returning.slot, Returning)
      \/ UNCHANGED tm /\ Goto("swaphome")
  BY <1>1 DEF WriteHome
<1>3. \E l \in {"mark2", "swaphome"} : Goto(l) BY <1>2
<1>4. /\ Core(tm', app.inst, Eff(slots, app), Pad(slots, app), Rows(tm, app, rec), tx)
      /\ RecOK(tm', rec) /\ tm'.at = tm.at /\ tm'.own = tm.own
  <2>1. CASE UNCHANGED tm BY <1>1, <2>1, AppFacts
  <2>2. CASE /\ WindowUp(tm, Returning.home)
             /\ tm' = SetOption(tm, Returning.home, Returning.slot, Returning)
    <3>1. /\ app.st \in Held(tm, app.inst, Eff(slots, app)) /\ Alike(Returning, app.st)
          /\ RecordOK(tm, app.inst, tx, Returning) /\ Returning.home = app.st.home
      BY <1>1, ReturningFacts
    <3>2. QED BY <1>1, <2>2, <3>1, WriteFacts
  <2>3. QED BY <1>2, <2>1, <2>2
<1>5. app'.inst = app.inst /\ app'.at \notin TxLabels /\ app'.at # "clear"
      /\ AppOK(tm', slots, app', tx)
  BY <1>1, <1>3, <1>4, ReturningApp
<1>6. app.at \notin TxLabels BY <1>1 DEF TxLabels
<1>7. QED BY <1>1, <1>4, <1>5, <1>6, ReturnAway

LEMMA MarkReturningDisplayAway ==
    ASSUME IInv, IInv', Away, MarkReturningDisplay PROVE Away'
<1>1. /\ AppUp /\ app.at \in {"mark1", "mark2", "swaphome"} /\ UNCHANGED <<slots, rec, tx>>
      /\ WriteDisplay(Returning, Goto("swaphome"), Goto("swaphome"))
  BY DEF MarkReturningDisplay, At
<1>2. /\ Goto("swaphome")
      /\ \/ /\ WindowUp(tm, Disp(Returning.inst))
            /\ tm' = SetOption(tm, Disp(Returning.inst), Returning.slot, Returning)
         \/ tm' = ClearMatching(tm, Returning.home, Returning.slot, Returning.tx)
  BY <1>1 DEF WriteDisplay
<1>3. /\ app.st \in Held(tm, app.inst, Eff(slots, app)) /\ Alike(Returning, app.st)
      /\ RecordOK(tm, app.inst, tx, Returning) /\ Returning.home = app.st.home
      /\ app.st \in Kept(tm, app.inst, Eff(slots, app)) /\ app.st.inst = app.inst
      /\ app.st.home \in Home(app.st.agent) /\ app.st.home \in Windows
      /\ app.st.agent \in Agents
  BY <1>1, ReturningFacts
<1>4. /\ Core(tm', app.inst, Eff(slots, app), Pad(slots, app), Rows(tm, app, rec), tx)
      /\ RecOK(tm', rec) /\ tm'.at = tm.at /\ tm'.own = tm.own
  <2>1. CASE tm' = ClearMatching(tm, Returning.home, Returning.slot, Returning.tx)
    <3>1. tm' = ClearMatching(tm, app.st.home, app.st.slot, app.st.tx)
      BY <1>3, <2>1 DEF Alike, Twins
    <3>2. app.st.home \notin Displays BY <1>3, WindowFacts DEF Displays
    <3>3. app.st \in Kept(tm, app.inst, Eff(slots, app)) \cup Rows(tm, app, rec) BY <1>3
    <3>4. QED BY <1>1, <1>3, <3>1, <3>2, <3>3, ClearFacts
  <2>2. CASE /\ WindowUp(tm, Disp(Returning.inst))
             /\ tm' = SetOption(tm, Disp(Returning.inst), Returning.slot, Returning)
    BY <1>1, <1>3, <2>2, WriteFacts
  <2>3. QED BY <1>2, <2>1, <2>2
<1>5. app'.inst = app.inst /\ app'.at \notin TxLabels /\ app'.at # "clear"
      /\ AppOK(tm', slots, app', tx)
  BY <1>1, <1>2, <1>4, ReturningApp
<1>6. app.at \notin TxLabels BY <1>1 DEF TxLabels
<1>7. QED BY <1>1, <1>4, <1>5, <1>6, ReturnAway

LEMMA ClearMarkerAway ==
    ASSUME IInv, IInv', Away, ClearMarker PROVE Away'
<1>1. /\ AppUp /\ app.at = "clear" /\ app.at \notin TxLabels /\ UNCHANGED <<rec, tx>>
      /\ app.at \in StLabels
  BY DEF ClearMarker, At, TxLabels, StLabels
<1>2. PICK w \in app.todo :
        /\ Clear(app.st, w)
        /\ app' = [app EXCEPT !.todo = @ \ {w},
                     !.at = IF app.todo = {w} THEN "home" ELSE "clear"]
        /\ slots' = IF app.todo # {w} THEN slots
                    ELSE [slots EXCEPT ![app.slot] = Emptied(app.st)]
  BY DEF ClearMarker
<1>3. /\ app'.inst = app.inst /\ app'.slot = app.slot /\ app'.st = app.st
      /\ app'.for = app.for /\ app'.agent = app.agent /\ app'.at \notin TxLabels
      /\ app'.at = IF app.todo = {w} THEN "home" ELSE "clear"
  BY <1>2 DEF IInv, TypeOK, AppType, TxLabels
<1>4. /\ tm \in ServerType /\ app.inst \in Insts /\ app.slot \in Slots /\ app.st \in SwapState
      /\ app.st.ph \in Pads /\ slots \in [Slots -> SlotType] /\ app \in AppType
      /\ AppOK(tm, slots, app, tx) /\ tm.own[app.inst]
      /\ Core(tm, app.inst, Eff(slots, app), Pad(slots, app), Rows(tm, app, rec), tx)
      /\ UNION {RowsOf(rec[r]) : r \in Recoverers} \subseteq Rows(tm, app, rec)
  BY <1>1, AppFacts
<1>5. /\ ~Shown(tm, app.st) /\ app.st.inst = app.inst /\ app.st.slot = app.slot
      /\ app.for # "reaped" => tm.at[app.st.ph] \in {Disp(app.inst), Gone}
      /\ \/ slots[app.slot].st = app.st
         \/ slots[app.slot].st = None /\ slots[app.slot].pane = app.st.ph
      /\ app.for = "attach" => \A o \in Slots \ {app.slot} : slots[o].agent # app.agent
  BY <1>1, <1>4, Others DEF AppOK
<1>6. app.st \in Rows(tm, app, rec) /\ w \in Windows
  BY <1>1, <1>4 DEF Rows, Clearing, AppType
<1>7. /\ Core(tm', app.inst, Eff(slots, app), Pad(slots, app), Rows(tm, app, rec), tx)
      /\ RecOK(tm', rec) /\ tm'.at = tm.at /\ tm'.own = tm.own
  <2>1. CASE UNCHANGED tm BY <1>1, <2>1, AppFacts
  <2>2. CASE tm' = ClearMatching(tm, w, app.st.slot, app.st.tx)
    <3>1. app.st \in Kept(tm, app.inst, Eff(slots, app)) \cup Rows(tm, app, rec) BY <1>6
    <3>2. QED BY <1>1, <1>5, <1>6, <2>2, <3>1, ClearFacts
  <2>3. QED BY <1>2, <2>1, <2>2 DEF Clear
<1>8. /\ ~Shown(tm', app.st)
      /\ app.for # "reaped" => tm'.at[app.st.ph] \in {Disp(app.inst), Gone}
  BY <1>5, <1>7 DEF Shown
<1>9. /\ Clearing(tm', app') \subseteq Rows(tm, app, rec) \cup Kept(tm', app.inst, Eff(slots, app))
      /\ tm' \in ServerType
  BY <1>3, <1>6, AppFacts, <1>1 DEF Clearing
<1>10. CASE app.todo # {w}
  <2>1. slots' = slots /\ app'.at = "clear" BY <1>2, <1>3, <1>10
  <2>2. AppOK(tm', slots', app', tx') BY <1>1, <1>3, <1>5, <1>8, <2>1, Others, ClearApp
  <2>3. \A s \in Slots : SlotStep(tm', app.inst, Eff(slots, app), Pad(slots, app),
                                  Eff(slots', app'), Pad(slots', app'), s)
    BY <1>1, <1>3, <1>4, <1>7, <1>9, <2>1, SlotsKept
  <2>4. Core(tm', app.inst, Eff(slots, app), Pad(slots, app), Rows(tm, app, rec), tx')
    BY <1>1, <1>7
  <2>5. QED BY <1>1, <1>3, <1>4, <1>7, <1>9, <2>2, <2>3, <2>4, StepAway
<1>11. CASE app.todo = {w}
  <2>1. /\ app'.at = "home"
        /\ \A s \in Slots \ {app.slot} : slots'[s] = slots[s]
        /\ slots'[app.slot] = Emptied(app.st)
    BY <1>2, <1>3, <1>4, <1>11
  <2>2. /\ slots'[app.slot].st = None
        /\ slots'[app.slot].pane = IF app.for = "reaped" THEN None ELSE app.st.ph
    BY <2>1 DEF Emptied, EmptySlot
  <2>3. \A s \in Slots : slots'[s].st # None => slots'[s].st.agent = slots'[s].agent
    BY <1>1, <2>1, <2>2, Others
  <2>4. app'.for = "attach" => \A o \in Slots \ {app'.slot} : slots'[o].agent # app'.agent
    BY <1>3, <1>5, <2>1
  <2>5. AppOK(tm', slots', app', tx') BY <2>1, <2>3, <2>4, PlainApp DEF Plain
  <2>6. SlotStep(tm', app.inst, Eff(slots, app), Pad(slots, app),
                 Eff(slots', app'), Pad(slots', app'), app.slot)
    <3>1. Eff(slots, app)[app.slot] = slots[app.slot].st /\ Eff(slots', app')[app.slot] = None
      BY <1>1, <1>3, <1>4, <2>2, EffFacts
    <3>2. Pad(slots', app')[app.slot] = IF app.for = "reaped" THEN None ELSE app.st.ph
      BY <1>3, <1>4, <2>2, <3>1, EffFacts
    <3>3. app.st # None BY <1>4, StateFacts
    <3>4. Pad(slots, app)[app.slot] = app.st.ph
      BY <1>1, <1>4, <1>5, <3>1, <3>3, EffFacts
    <3>5. CASE slots[app.slot].st = app.st
      BY <1>8, <3>1, <3>2, <3>4, <3>5 DEF SlotStep
    <3>6. CASE slots[app.slot].st = None BY <3>1, <3>2, <3>4, <3>6 DEF SlotStep
    <3>7. QED BY <1>5, <3>5, <3>6
  <2>7. ASSUME NEW s \in Slots, s # app.slot
        PROVE  SlotStep(tm', app.inst, Eff(slots, app), Pad(slots, app),
                        Eff(slots', app'), Pad(slots', app'), s)
    BY <1>1, <1>3, <1>4, <1>7, <1>9, <2>1, <2>7, OthersKept
  <2>8. \A s \in Slots : SlotStep(tm', app.inst, Eff(slots, app), Pad(slots, app),
                                  Eff(slots', app'), Pad(slots', app'), s)
    BY <2>6, <2>7
  <2>9. Core(tm', app.inst, Eff(slots, app), Pad(slots, app), Rows(tm, app, rec), tx')
    BY <1>1, <1>7
  <2>10. QED BY <1>1, <1>3, <1>4, <1>7, <1>9, <2>5, <2>8, <2>9, StepAway
<1>12. QED BY <1>10, <1>11

-----------------------------------------------------------------------------
(* Swaps by the process *)

LEMMA SwapFields ==
    ASSUME NEW t \in ServerType, NEW m \in SwapState, m.real # m.ph,
           NEW u, u = SwapPanes(t, m.real, m.ph)
    PROVE  /\ u \in ServerType /\ u.own = t.own /\ u.keep = t.keep /\ u.outer = t.outer
           /\ u.opt = t.opt
           /\ u.at[m.real] = t.at[m.ph] /\ u.at[m.ph] = t.at[m.real]
           /\ \A p \in Panes : p # m.real /\ p # m.ph => u.at[p] = t.at[p]
<1>1. m.real \in Panes /\ m.ph \in Panes BY StateFacts
<1>2. u \in ServerType BY <1>1, SwapPanesType
<1>3. QED BY <1>1, <1>2 DEF SwapPanes, ServerType

\* A launcher's transaction is not the one the process swaps.
LEMMA SwapLauncher ==
    ASSUME NEW t \in ServerType, NEW u \in ServerType, NEW i \in Insts, NEW e, NEW q, NEW d, NEW x,
           Core(t, i, e, q, d, x), NEW k \in Held(t, i, e),
           Leaves(t, i, e, k) \/ Returns(t, k), u = SwapPanes(t, k.real, k.ph),
           NEW R, LauncherOK(t, R), RowsOf(R) \subseteq d
    PROVE  LauncherOK(u, R)
<1>1. /\ k \in Kept(t, i, e) /\ k \in SwapState /\ RecordOK(t, i, x, k) /\ t.own[i] /\ k.inst = i
  BY CoreFacts, HeldFacts
<1>2. /\ k.real \in Panes /\ k.ph \in Pads /\ k.ph \notin Agents /\ k.ph \in Panes
      /\ k.real # k.ph /\ k.agent \in Agents /\ k.inst \in Insts
  BY <1>1, StateFacts, PanesAssumption DEF RecordOK
<1>3. /\ u.own = t.own /\ u.keep = t.keep /\ u.outer = t.outer /\ u.opt = t.opt
      /\ u.at[k.real] = t.at[k.ph] /\ u.at[k.ph] = t.at[k.real]
      /\ \A p \in Panes : p # k.real /\ p # k.ph => u.at[p] = t.at[p]
  BY <1>1, <1>2, SwapFields
<1> DEFINE Span == Home(k.agent) \cup {Disp(i)}
<1>4. t.at[k.real] \in Span /\ t.at[k.ph] \in Span
  BY <1>1 DEF Leaves, Returns, Shown
<1>5. \A j \in Insts : ~t.own[j] => Disp(j) \notin Span
  BY <1>1, <1>2, WindowFacts
<1>6. Gone \notin Span BY <1>2, WindowFacts
<1>7. \A p \in Panes : u.at[p] = t.at[p] \/ (u.at[p] \in Span /\ t.at[p] \in Span)
  BY <1>3, <1>4
<1> HIDE DEF Span
<1>8. \A p \in Panes, j \in Insts : ~t.own[j] => (u.at[p] = Disp(j) <=> t.at[p] = Disp(j))
  BY <1>5, <1>7
<1>9. R.at \in RecStLabels =>
        /\ R.st \in SwapState /\ R.st \in Dead(t, d) /\ ~t.own[R.st.inst]
        /\ R.st.real \in Panes /\ R.st.ph \in Panes /\ R.st.inst \in Insts
        /\ R.st.agent \in Agents
  <2>1. SUFFICES ASSUME R.at \in RecStLabels
                 PROVE  /\ R.st \in SwapState /\ R.st \in Dead(t, d) /\ ~t.own[R.st.inst]
                        /\ R.st.real \in Panes /\ R.st.ph \in Panes /\ R.st.inst \in Insts
                        /\ R.st.agent \in Agents
    OBVIOUS
  <2>2. R.st \in d BY <2>1 DEF RowsOf
  <2>3. ~t.own[R.st.inst] BY <2>1 DEF LauncherOK
  <2>4. R.st \in SwapState BY <2>2, CoreFacts
  <2>5. QED BY <2>2, <2>3, <2>4, StateFacts DEF Dead
<1>10. R.at \in RecStLabels /\ Shown(u, R.st) => Shown(t, R.st) BY <1>8, <1>9 DEF Shown
<1>11. R.at \in {"observe", "mark1", "mark2", "swap"} =>
         /\ R.at \in RecStLabels /\ u.at[R.st.real] = t.at[R.st.real]
         /\ t.at[R.st.real] \in {Disp(R.st.inst), Gone}
  <2>1. SUFFICES ASSUME R.at \in {"observe", "mark1", "mark2", "swap"}
                 PROVE  /\ R.at \in RecStLabels /\ u.at[R.st.real] = t.at[R.st.real]
                        /\ t.at[R.st.real] \in {Disp(R.st.inst), Gone}
    OBVIOUS
  <2>2. R.at \in RecStLabels BY <2>1 DEF RecStLabels
  <2>3. t.at[R.st.real] \in {Disp(R.st.inst), Gone} BY <2>1 DEF LauncherOK
  <2>4. t.at[R.st.real] \notin Span BY <1>5, <1>6, <1>9, <2>2, <2>3
  <2>5. QED BY <1>7, <1>9, <2>2, <2>3, <2>4
<1>12. ASSUME R.at \in {"mark1", "mark2", "swap"}, Live(u, R.st)
       PROVE  u.at[R.st.ph] = t.at[R.st.ph]
  <2>1. /\ R.at \in RecStLabels /\ u.at[R.st.real] = t.at[R.st.real]
        /\ t.at[R.st.real] \in {Disp(R.st.inst), Gone}
    BY <1>11, <1>12
  <2>2. Live(t, R.st) /\ Shown(t, R.st) BY <1>12, <2>1, WindowFacts DEF Live, Shown
  <2>3. t.at[R.st.ph] \in Home(R.st.agent) \cup {Gone} BY <1>12, <2>2 DEF LauncherOK
  <2>4. CASE t.at[R.st.ph] = Gone BY <1>6, <1>7, <1>9, <2>1, <2>4
  <2>5. CASE t.at[R.st.ph] \in Home(R.st.agent)
    <3>1. Returns(t, R.st) BY <2>2, <2>5 DEF Returns
    <3>2. R.st.agent # k.agent BY <1>9, <2>1, <3>1, DeadApart
    <3>3. t.at[R.st.ph] \notin Span
      BY <1>1, <1>2, <1>9, <2>1, <2>5, <3>2, WindowFacts DEF Span
    <3>4. QED BY <1>7, <1>9, <2>1, <3>3
  <2>6. QED BY <2>3, <2>4, <2>5
<1>13. ASSUME NEW j \in Insts, ~t.own[j], WindowUp(u, Disp(j))
       PROVE  WindowUp(t, Disp(j)) /\ \A s \in Slots : u.opt[Disp(j)][s] = t.opt[Disp(j)][s]
  <2>1. PanesIn(u, Disp(j)) = PanesIn(t, Disp(j)) BY <1>8, <1>13 DEF PanesIn
  <2>2. QED BY <1>3, <1>13, <2>1 DEF WindowUp
<1>14. R.at \in {"observe", "mark1", "mark2", "swap"} => (Live(u, R.st) => Live(t, R.st))
  BY <1>11 DEF Live
<1>15. \A a \in Agents, j \in Insts : ~t.own[j] /\ u.at[a] = Disp(j) => t.at[a] = Disp(j)
  BY <1>8 DEF Panes
<1>16. R.at \in RecStLabels => R.st \in SwapState BY <1>9
<1>17. /\ \A j \in Insts : u.own[j] <=> t.own[j]
       /\ \A j \in Insts : t.own[j] /\ t.outer[j] => u.outer[j]
  BY <1>3
<1>18. R.at \in {"observe", "mark1", "mark2", "swap"} =>
         /\ u.at[R.st.real] = t.at[R.st.real] \/ u.at[R.st.real] = Gone
         /\ Live(u, R.st) => Live(t, R.st)
  BY <1>11, <1>14
<1>19. R.at \in {"mark1", "mark2", "swap"} /\ Live(u, R.st) =>
         u.at[R.st.ph] = t.at[R.st.ph] \/ u.at[R.st.ph] = Gone
  BY <1>12
<1>20. R.at \in {"observe", "mark1", "mark2", "swap"} =>
         \A j \in Insts : ~t.own[j] /\ WindowUp(u, Disp(j)) =>
            WindowUp(t, Disp(j)) /\ \A s \in Slots : u.opt[Disp(j)][s] = t.opt[Disp(j)][s]
  BY <1>13
<1>21. QED BY <1>10, <1>15, <1>16, <1>17, <1>18, <1>19, <1>20, LauncherFrame

\* What a swap of a transaction of the process leaves of the core.
LEMMA SwapFacts ==
    ASSUME IInv, IInv', Away, AppUp,
           NEW k \in Held(tm, app.inst, Eff(slots, app)), CanSwap(tm, k.real, k.ph),
           \/ Out(tm, k)
           \/ Back(tm, k) /\ Marked(tm, k) /\ tm.keep[app.inst],
           tm' = SwapPanes(tm, k.real, k.ph)
    PROVE  /\ Core(tm', app.inst, Eff(slots, app), Pad(slots, app), Rows(tm, app, rec), tx)
           /\ RecOK(tm', rec)
           /\ tm'.own = tm.own /\ tm'.keep = tm.keep /\ tm'.opt = tm.opt
           /\ tm'.at[k.real] = tm.at[k.ph] /\ tm'.at[k.ph] = tm.at[k.real]
           /\ Out(tm, k) => Back(tm', k) /\ ~Shown(tm', k)
           /\ Back(tm, k) => Out(tm', k)
<1> DEFINE e == Eff(slots, app)
           q == Pad(slots, app)
           d == Rows(tm, app, rec)
<1>1. /\ tm \in ServerType /\ tm' \in ServerType /\ app.inst \in Insts
      /\ Core(tm, app.inst, e, q, d, tx) /\ RecOK(tm, rec)
  BY AppFacts
<1>2. /\ k \in Kept(tm, app.inst, e) /\ k \in SwapState /\ RecordOK(tm, app.inst, tx, k)
      /\ k.inst = app.inst
  BY <1>1, CoreFacts, HeldFacts
<1>3. k.real # k.ph /\ k.agent \in Agents /\ k.inst \in Insts BY <1>2, StateFacts DEF RecordOK
<1>4. Live(tm, k) /\ tm.at[k.real] # Gone /\ tm.at[k.ph] # Gone
  BY WindowFacts DEF CanSwap, Alive, Live
<1>5. Leaves(tm, app.inst, e, k) \/ Returns(tm, k)
  BY <1>2, <1>4 DEF Out, Back, Leaves, Returns, Shown
<1>6. /\ tm'.own = tm.own /\ tm'.keep = tm.keep /\ tm'.outer = tm.outer /\ tm'.opt = tm.opt
      /\ tm'.at[k.real] = tm.at[k.ph] /\ tm'.at[k.ph] = tm.at[k.real]
  BY <1>1, <1>2, <1>3, SwapFields
<1>7. PadApart(tm, app.inst, e, q, d, k) BY <1>1, <1>4, HeldApart
<1> HIDE DEF e, q, d
<1>8. k \in Kept(tm, app.inst, e) \cup d BY <1>2
<1>9. Core(tm', app.inst, e, q, d, tx) BY <1>1, <1>5, <1>7, <1>8, SwapCore
<1>10. ASSUME NEW r \in Recoverers, rec[r].at # "off" PROVE LauncherOK(tm', rec[r])
  <2>1. LauncherOK(tm, rec[r]) BY <1>1, <1>10 DEF RecOK
  <2>2. RowsOf(rec[r]) \subseteq d BY RowsOfHere DEF d
  <2>3. k \in Held(tm, app.inst, e) BY DEF e
  <2>4. QED BY <1>1, <1>5, <2>1, <2>2, <2>3, SwapLauncher
<1>11. RecOK(tm', rec) BY <1>1, <1>10 DEF RecOK
<1>12. /\ Out(tm, k) => Back(tm', k)
       /\ Back(tm, k) => Out(tm', k)
  BY <1>4, <1>6 DEF Out, Back
<1>13. Out(tm, k) => ~Shown(tm', k)
  BY <1>3, <1>12, WindowFacts DEF Back, Shown
<1>14. QED BY <1>6, <1>9, <1>11, <1>12, <1>13 DEF e, q, d

LEMMA SwapHomeAway ==
    ASSUME IInv, IInv', Away, SwapHome PROVE Away'
<1>1. /\ AppUp /\ app.at = "swaphome" /\ UNCHANGED <<slots, rec, tx>>
      /\ Swap(app.st, Goto("verifyhome"), Fail)
  BY DEF SwapHome, At
<1>2. /\ app.at \notin TxLabels /\ Out(tm, app.st) /\ slots[app.slot].st = app.st
      /\ app.st \in Held(tm, app.inst, Eff(slots, app))
      /\ app.for = "attach" => \A o \in Slots \ {app.slot} : slots[o].agent # app.agent
  BY <1>1, ReturningFacts
<1>3. CASE UNCHANGED tm /\ Fail
  <2>1. app'.at \in {"idle", "quit"} /\ app'.inst = app.inst BY <1>3, FailFields
  <2>2. QED BY <1>1, <1>2, <1>3, <2>1, PlainAway DEF Plain
<1>4. CASE /\ CanSwap(tm, app.st.real, app.st.ph)
           /\ tm' = SwapPanes(tm, app.st.real, app.st.ph) /\ Goto("verifyhome")
  <2>1. /\ app'.at = "verifyhome" /\ app'.inst = app.inst /\ app'.slot = app.slot
        /\ app'.st = app.st /\ app'.agent = app.agent /\ app'.for = app.for
    BY <1>4, GotoFields DEF AppLabels
  <2>2. /\ Core(tm', app.inst, Eff(slots, app), Pad(slots, app), Rows(tm, app, rec), tx)
        /\ RecOK(tm', rec) /\ tm'.own = tm.own
    BY <1>1, <1>2, <1>4, SwapFacts
  <2>3. AppOK(tm', slots, app', tx) BY <1>1, <1>2, <2>1, Others, ReturnApp DEF ReturnLabels
  <2>4. app'.at \notin TxLabels BY <2>1 DEF TxLabels
  <2>5. QED BY <1>1, <1>2, <2>1, <2>2, <2>3, <2>4, ReturnAway
<1>5. QED BY <1>1, <1>3, <1>4 DEF Swap

-----------------------------------------------------------------------------
(* The steps of a transaction *)

\* What a transaction's step may make of the slot: it stays, the slot takes
\* it, or it is given up with its agent at home.
TxKept == app'.at \in TxLabels /\ app'.slot = app.slot /\ Alike(app'.st, app.st)
TxTaken == /\ app'.at \notin TxLabels /\ slots'[app.slot].st # None
           /\ Alike(slots'[app.slot].st, app.st)
TxDropped(t) == /\ app'.at \notin TxLabels /\ slots'[app.slot].st = None
                /\ slots'[app.slot].pane = app.st.ph /\ Back(t, app.st)

LEMMA TxSlots ==
    ASSUME IInv, IInv', Away, NEW t \in ServerType, NEW d, NEW x, t.own[app.inst], AppUp,
           Core(t, app.inst, Eff(slots, app), Pad(slots, app), d, x),
           app.at \in TxLabels, TxKept \/ TxTaken \/ TxDropped(t),
           \A s \in Slots \ {app.slot} : slots'[s] = slots[s]
    PROVE  \A s \in Slots :
             SlotStep(t, app.inst, Eff(slots, app), Pad(slots, app),
                      Eff(slots', app'), Pad(slots', app'), s)
<1>1. /\ app.slot \in Slots /\ app.st \in SwapState /\ app.st # None
      /\ Eff(slots, app)[app.slot] = app.st /\ Pad(slots, app)[app.slot] = app.st.ph
      /\ app.st.inst = app.inst
  BY HeldHere
<1>2. ASSUME NEW s \in Slots, s # app.slot
      PROVE  SlotStep(t, app.inst, Eff(slots, app), Pad(slots, app),
                      Eff(slots', app'), Pad(slots', app'), s)
  <2>1. app'.at \in TxLabels => app'.slot = app.slot BY DEF TxKept, TxTaken, TxDropped
  <2>2. slots'[s] = slots[s] BY <1>2
  <2>3. QED BY <1>2, <2>1, <2>2, OthersKept
<1>3. CASE TxKept
  <2>1. Eff(slots', app')[app.slot] = app'.st BY <1>1, <1>3, EffFacts DEF TxKept
  <2>2. app'.st # None /\ app'.st.ph = app.st.ph BY <1>3, StateFacts DEF TxKept, Alike
  <2>3. Pad(slots', app')[app.slot] = app.st.ph BY <1>1, <2>1, <2>2, EffFacts
  <2>4. SlotStep(t, app.inst, Eff(slots, app), Pad(slots, app),
                 Eff(slots', app'), Pad(slots', app'), app.slot)
    BY <1>1, <1>3, <2>1, <2>2, <2>3 DEF SlotStep, TxKept
  <2>5. QED BY <1>2, <2>4
<1>4. CASE TxTaken
  <2>1. Eff(slots', app')[app.slot] = slots'[app.slot].st BY <1>1, <1>4, EffFacts DEF TxTaken
  <2>2. slots'[app.slot].st.ph = app.st.ph BY <1>4 DEF TxTaken, Alike
  <2>3. Pad(slots', app')[app.slot] = app.st.ph
    BY <1>1, <1>4, <2>1, <2>2, EffFacts DEF TxTaken
  <2>4. SlotStep(t, app.inst, Eff(slots, app), Pad(slots, app),
                 Eff(slots', app'), Pad(slots', app'), app.slot)
    BY <1>1, <1>4, <2>1, <2>3 DEF SlotStep, TxTaken
  <2>5. QED BY <1>2, <2>4
<1>5. CASE TxDropped(t)
  <2>1. Eff(slots', app')[app.slot] = None BY <1>1, <1>5, EffFacts DEF TxDropped
  <2>2. Pad(slots', app')[app.slot] = app.st.ph BY <1>1, <1>5, <2>1, EffFacts DEF TxDropped
  <2>3. ~Shown(t, app.st) /\ t.at[app.st.ph] \in {Disp(app.inst), Gone}
    <3>1. app.st.inst \in Insts /\ app.st.agent \in Agents BY <1>1, StateFacts
    <3>2. Back(t, app.st) BY <1>5 DEF TxDropped
    <3>3. QED BY <1>1, <3>1, <3>2, WindowFacts DEF Back, Shown
  <2>4. SlotStep(t, app.inst, Eff(slots, app), Pad(slots, app),
                 Eff(slots', app'), Pad(slots', app'), app.slot)
    BY <1>1, <2>1, <2>2, <2>3 DEF SlotStep
  <2>5. QED BY <1>2, <2>4
<1>6. QED BY <1>3, <1>4, <1>5

\* The frame of every such step.
LEMMA TxAway ==
    ASSUME IInv, IInv', Away, AppUp, UNCHANGED <<rec, tx>>, app'.inst = app.inst,
           Core(tm', app.inst, Eff(slots, app), Pad(slots, app), Rows(tm, app, rec), tx),
           RecOK(tm', rec), tm'.own = tm.own,
           app.at \in TxLabels, TxKept \/ TxTaken \/ TxDropped(tm'),
           \A s \in Slots \ {app.slot} : slots'[s] = slots[s],
           app'.at = "clear" => app'.st = app.st,
           AppOK(tm', slots', app', tx)
    PROVE  Away'
<1>1. /\ tm' \in ServerType /\ tm.own[app.inst]
      /\ UNION {RowsOf(rec[r]) : r \in Recoverers} \subseteq Rows(tm, app, rec)
  BY AppFacts
<1>2. \A s \in Slots : SlotStep(tm', app.inst, Eff(slots, app), Pad(slots, app),
                                Eff(slots', app'), Pad(slots', app'), s)
  BY <1>1, TxSlots
<1>3. app.st \in Held(tm, app.inst, Eff(slots, app)) BY HeldHere
<1>4. app.st \in Kept(tm', app.inst, Eff(slots, app)) BY <1>3 DEF Held, Kept
<1>5. Clearing(tm', app') \subseteq Rows(tm, app, rec) \cup Kept(tm', app.inst, Eff(slots, app))
  BY <1>4 DEF Clearing
<1>6. Core(tm', app.inst, Eff(slots, app), Pad(slots, app), Rows(tm, app, rec), tx') OBVIOUS
<1>7. AppOK(tm', slots', app', tx') OBVIOUS
<1>8. QED BY <1>1, <1>2, <1>5, <1>6, <1>7, StepAway

\* What is known at the labels of a transaction.
LEMMA TxFacts ==
    ASSUME IInv, IInv', Away, AppUp, app.at \in TxLabels
    PROVE  /\ tm \in ServerType /\ app.inst \in Insts /\ tm.own[app.inst]
           /\ app.slot \in Slots /\ slots[app.slot].st = None /\ slots[app.slot].pane = app.st.ph
           /\ app.st \in SwapState /\ app.st \in Held(tm, app.inst, Eff(slots, app))
           /\ app.st \in Kept(tm, app.inst, Eff(slots, app)) \cup Rows(tm, app, rec)
           /\ Alike(app.st, app.st) /\ RecordOK(tm, app.inst, tx, app.st)
           /\ app.st.inst = app.inst /\ app.st.slot = app.slot /\ app.st.agent = app.agent
           /\ app.st.agent \in Agents /\ app.st.inst \in Insts
           /\ app.st.home \in Home(app.st.agent) /\ app.st.home \in Windows
           /\ app.st.home \notin Displays
           /\ \A s \in Slots : slots[s].st # None => slots[s].st.agent = slots[s].agent
           /\ app.at \in {"prep1", "prep2", "swapout"} => Back(tm, app.st) /\ tm.keep[app.inst]
           /\ app.at \in {"swapout", "verify", "back", "commit1", "commit2"} => Marked(tm, app.st)
           /\ app.at \in {"verify", "back", "commit1", "commit2"} => Out(tm, app.st)
           /\ app.at = "verifyback" => Back(tm, app.st)
           /\ Core(tm, app.inst, Eff(slots, app), Pad(slots, app), Rows(tm, app, rec), tx)
           /\ RecOK(tm, rec)
<1>1. /\ tm \in ServerType /\ app.inst \in Insts /\ tm.own[app.inst]
      /\ AppOK(tm, slots, app, tx) /\ app.at \in StLabels /\ app.at \in FreeLabels
      /\ Core(tm, app.inst, Eff(slots, app), Pad(slots, app), Rows(tm, app, rec), tx)
      /\ RecOK(tm, rec)
  BY AppFacts
<1>2. /\ app.slot \in Slots /\ app.st \in SwapState
      /\ app.st \in Held(tm, app.inst, Eff(slots, app))
      /\ app.st \in Kept(tm, app.inst, Eff(slots, app))
      /\ RecordOK(tm, app.inst, tx, app.st)
      /\ app.st.inst = app.inst /\ app.st.slot = app.slot
  BY HeldHere
<1>3. slots[app.slot].st = None BY <1>1, AppFacts
<1>4. /\ \A s \in Slots : slots[s].st # None => slots[s].st.agent = slots[s].agent
      /\ app.st.agent = app.agent /\ slots[app.slot].pane = app.st.ph
  BY Others
<1>5. /\ app.st.agent \in Agents /\ app.st.inst \in Insts /\ app.st.home \in Windows
      /\ app.st.home \in Home(app.st.agent)
  BY <1>2, StateFacts DEF RecordOK
<1>6. app.st.home \notin Displays BY <1>5, WindowFacts DEF Displays
<1>7. Alike(app.st, app.st) BY <1>2 DEF Alike, Twins
<1>8. /\ app.at \in {"prep1", "prep2", "swapout"} => Back(tm, app.st) /\ tm.keep[app.inst]
      /\ app.at \in {"swapout", "verify", "back", "commit1", "commit2"} => Marked(tm, app.st)
      /\ app.at \in {"verify", "back", "commit1", "commit2"} => Out(tm, app.st)
      /\ app.at = "verifyback" => Back(tm, app.st)
  BY <1>1 DEF AppOK
<1>9. QED BY <1>1, <1>2, <1>3, <1>4, <1>5, <1>6, <1>7, <1>8

\* Its way on to the next label, ...
LEMMA TxGoes ==
    ASSUME IInv, IInv', Away, AppUp, app.at \in TxLabels, UNCHANGED <<slots, rec, tx>>,
           NEW l \in TxLabels, Goto(l),
           Core(tm', app.inst, Eff(slots, app), Pad(slots, app), Rows(tm, app, rec), tx),
           RecOK(tm', rec), tm'.own = tm.own,
           l \in {"prep1", "prep2", "swapout"} => Back(tm', app.st) /\ tm'.keep[app.inst],
           l \in {"swapout", "verify", "back", "commit1", "commit2"} => Marked(tm', app.st),
           l \in {"verify", "back", "commit1", "commit2"} => Out(tm', app.st),
           l = "verifyback" => Back(tm', app.st)
    PROVE  Away'
<1>1. /\ app'.at = l /\ app'.inst = app.inst /\ app'.slot = app.slot /\ app'.st = app.st
      /\ app'.agent = app.agent
  BY GotoFields DEF AppLabels, TxLabels
<1>2. AppOK(tm', slots', app', tx) BY <1>1, TxFacts, TxApp
<1>3. TxKept BY <1>1, TxFacts DEF TxKept
<1>4. app'.at # "clear" BY <1>1 DEF TxLabels
<1>5. QED BY <1>1, <1>2, <1>3, <1>4, TxAway

\* ... back to where the agent is displayed nested, ...
LEMMA TxFalls ==
    ASSUME IInv, IInv', Away, AppUp, app.at \in TxLabels, UNCHANGED <<slots, rec, tx>>,
           Fallback, Back(tm', app.st),
           Core(tm', app.inst, Eff(slots, app), Pad(slots, app), Rows(tm, app, rec), tx),
           RecOK(tm', rec), tm'.own = tm.own
    PROVE  Away'
<1>1. app'.at = "home" /\ app'.for = "fallback" /\ app'.inst = app.inst /\ app'.at \notin TxLabels
  BY FallbackFields DEF TxLabels
<1>2. AppOK(tm', slots', app', tx) BY <1>1, TxFacts, PlainApp DEF Plain
<1>3. TxDropped(tm') BY <1>1, TxFacts DEF TxDropped
<1>4. QED BY <1>1, <1>2, <1>3, TxAway

\* ... to the clearing of its markers, ...
LEMMA TxRollsBack ==
    ASSUME IInv, IInv', Away, AppUp, app.at \in TxLabels, UNCHANGED <<tm, slots, rec, tx>>,
           RollBack, Back(tm, app.st)
    PROVE  Away'
<1>1. /\ app'.at = "clear" /\ app'.for = "fallback" /\ app'.inst = app.inst
      /\ app'.slot = app.slot /\ app'.agent = app.agent /\ app'.st = app.st
      /\ app'.at \notin TxLabels
  BY RollBackFields DEF TxLabels
<1>2. ~Shown(tm, app.st) /\ tm.at[app.st.ph] \in {Disp(app.inst), Gone}
  BY TxFacts, WindowFacts DEF Back, Shown
<1>3. AppOK(tm', slots', app', tx) BY <1>1, <1>2, TxFacts, ClearApp
<1>4. TxDropped(tm') BY <1>1, TxFacts DEF TxDropped
<1>5. QED BY <1>1, <1>3, <1>4, TxFacts, TxAway

\* ... and into the slot.
LEMMA TxTakes ==
    ASSUME IInv, IInv', Away, AppUp, app.at \in TxLabels, UNCHANGED <<rec, tx>>,
           NEW phase \in {"prepared", "displayed", "returning"}, Take(phase),
           Core(tm', app.inst, Eff(slots, app), Pad(slots, app), Rows(tm, app, rec), tx),
           RecOK(tm', rec), tm'.own = tm.own
    PROVE  Away'
<1>1. /\ app'.at = "idle" /\ app'.inst = app.inst
      /\ \A s \in Slots \ {app.slot} : slots'[s] = slots[s]
      /\ slots'[app.slot].st = [app.st EXCEPT !.phase = phase]
      /\ slots'[app.slot].agent = app.agent
  BY TxFacts, TakeFields
<1>2. Alike(slots'[app.slot].st, app.st) /\ slots'[app.slot].st \in SwapState
  BY <1>1, TxFacts, PhaseAlike
<1>3. slots'[app.slot].st # None /\ slots'[app.slot].st.agent = app.agent
  <2>1. app.st.agent = app.agent BY TxFacts
  <2>2. slots'[app.slot].st # None BY <1>2, PanesAssumption
  <2>3. QED BY <1>2, <2>1, <2>2 DEF Alike, Twins
<1>4. \A s \in Slots : slots'[s].st # None => slots'[s].st.agent = slots'[s].agent
  <2>1. \A s \in Slots : slots[s].st # None => slots[s].st.agent = slots[s].agent BY TxFacts
  <2>2. ASSUME NEW s \in Slots, slots'[s].st # None
        PROVE  slots'[s].st.agent = slots'[s].agent
    <3>1. CASE s = app.slot BY <1>1, <1>3, <3>1
    <3>2. CASE s # app.slot
      <4>1. slots'[s] = slots[s] BY <1>1, <3>2
      <4>2. QED BY <2>1, <2>2, <4>1
    <3>3. QED BY <3>1, <3>2
  <2>3. QED BY <2>2
<1>5. AppOK(tm', slots', app', tx) BY <1>1, <1>4, PlainApp DEF Plain
<1>6. app'.at \notin TxLabels BY <1>1 DEF TxLabels
<1>7. TxTaken BY <1>2, <1>3, <1>6 DEF TxTaken
<1>8. QED BY <1>1, <1>5, <1>7, TxAway

LEMMA Prepare1Away ==
    ASSUME IInv, IInv', Away, Prepare1 PROVE Away'
<1>1. /\ AppUp /\ app.at = "prep1" /\ app.at \in TxLabels /\ UNCHANGED <<slots, rec, tx>>
      /\ WriteHome(app.st, Goto("prep2"), Fallback)
  BY DEF Prepare1, At, TxLabels
<1>2. CASE /\ WindowUp(tm, app.st.home)
           /\ tm' = SetOption(tm, app.st.home, app.st.slot, app.st) /\ Goto("prep2")
  <2>1. /\ Core(tm', app.inst, Eff(slots, app), Pad(slots, app), Rows(tm, app, rec), tx)
        /\ RecOK(tm', rec) /\ tm'.at = tm.at /\ tm'.own = tm.own /\ tm'.keep = tm.keep
    BY <1>1, <1>2, TxFacts, WriteFacts
  <2>2. Back(tm', app.st) /\ tm'.keep[app.inst] BY <1>1, <2>1, TxFacts DEF Back
  <2>3. QED BY <1>1, <1>2, <2>1, <2>2, TxGoes DEF TxLabels
<1>3. CASE UNCHANGED tm /\ Fallback BY <1>1, <1>3, TxFacts, TxFalls
<1>4. QED BY <1>1, <1>2, <1>3 DEF WriteHome

LEMMA Prepare2Away ==
    ASSUME IInv, IInv', Away, Prepare2 PROVE Away'
<1>1. /\ AppUp /\ app.at = "prep2" /\ app.at \in TxLabels /\ UNCHANGED <<slots, rec, tx>>
      /\ WriteDisplay(app.st, Goto("swapout"), Fallback)
  BY DEF Prepare2, At, TxLabels
<1>2. CASE /\ WindowUp(tm, Disp(app.st.inst))
           /\ tm' = SetOption(tm, Disp(app.st.inst), app.st.slot, app.st) /\ Goto("swapout")
  <2>1. /\ Core(tm', app.inst, Eff(slots, app), Pad(slots, app), Rows(tm, app, rec), tx)
        /\ RecOK(tm', rec) /\ tm'.at = tm.at /\ tm'.own = tm.own /\ tm'.keep = tm.keep
        /\ Marked(tm', app.st)
    BY <1>1, <1>2, TxFacts, WriteFacts
  <2>2. Back(tm', app.st) /\ tm'.keep[app.inst] BY <1>1, <2>1, TxFacts DEF Back
  <2>3. QED BY <1>1, <1>2, <2>1, <2>2, TxGoes DEF TxLabels
<1>3. CASE tm' = ClearMatching(tm, app.st.home, app.st.slot, app.st.tx) /\ Fallback
  <2>1. /\ Core(tm', app.inst, Eff(slots, app), Pad(slots, app), Rows(tm, app, rec), tx)
        /\ RecOK(tm', rec) /\ tm'.at = tm.at /\ tm'.own = tm.own
    BY <1>1, <1>3, TxFacts, ClearFacts
  <2>2. Back(tm', app.st) BY <1>1, <2>1, TxFacts DEF Back
  <2>3. QED BY <1>1, <1>3, <2>1, <2>2, TxFalls
<1>4. QED BY <1>1, <1>2, <1>3 DEF WriteDisplay

LEMMA SwapOutAway ==
    ASSUME IInv, IInv', Away, SwapOut PROVE Away'
<1>1. /\ AppUp /\ app.at = "swapout" /\ app.at \in TxLabels /\ UNCHANGED <<slots, rec, tx>>
      /\ Swap(app.st, Goto("verify"), RollBack)
  BY DEF SwapOut, At, TxLabels
<1>2. Back(tm, app.st) /\ Marked(tm, app.st) /\ tm.keep[app.inst] BY <1>1, TxFacts
<1>3. CASE /\ CanSwap(tm, app.st.real, app.st.ph)
           /\ tm' = SwapPanes(tm, app.st.real, app.st.ph) /\ Goto("verify")
  <2>1. /\ Core(tm', app.inst, Eff(slots, app), Pad(slots, app), Rows(tm, app, rec), tx)
        /\ RecOK(tm', rec) /\ tm'.own = tm.own /\ tm'.opt = tm.opt /\ Out(tm', app.st)
    BY <1>1, <1>2, <1>3, TxFacts, SwapFacts
  <2>2. Marked(tm', app.st) BY <1>2, <2>1 DEF Marked
  <2>3. QED BY <1>1, <1>3, <2>1, <2>2, TxGoes DEF TxLabels
<1>4. CASE UNCHANGED tm /\ RollBack BY <1>1, <1>2, <1>4, TxRollsBack
<1>5. QED BY <1>1, <1>3, <1>4 DEF Swap

LEMMA SwapBackAway ==
    ASSUME IInv, IInv', Away, SwapBack PROVE Away'
<1>1. /\ AppUp /\ app.at = "back" /\ app.at \in TxLabels /\ UNCHANGED <<rec, tx>>
      /\ Swap(app.st, Goto("verifyback") /\ UNCHANGED slots, Take("prepared"))
  BY DEF SwapBack, At, TxLabels
<1>2. Out(tm, app.st) BY <1>1, TxFacts
<1>3. CASE /\ CanSwap(tm, app.st.real, app.st.ph)
           /\ tm' = SwapPanes(tm, app.st.real, app.st.ph) /\ Goto("verifyback") /\ UNCHANGED slots
  <2>1. /\ Core(tm', app.inst, Eff(slots, app), Pad(slots, app), Rows(tm, app, rec), tx)
        /\ RecOK(tm', rec) /\ tm'.own = tm.own /\ Back(tm', app.st)
    BY <1>1, <1>2, <1>3, TxFacts, SwapFacts
  <2>2. QED BY <1>1, <1>3, <2>1, TxGoes DEF TxLabels
<1>4. CASE UNCHANGED tm /\ Take("prepared") BY <1>1, <1>4, TxFacts, TxTakes
<1>5. QED BY <1>1, <1>3, <1>4 DEF Swap

LEMMA VerifyBackAway ==
    ASSUME IInv, IInv', Away, VerifyBack PROVE Away'
<1>1. /\ AppUp /\ app.at = "verifyback" /\ app.at \in TxLabels /\ UNCHANGED <<tm, rec, tx>>
      /\ (RollBack /\ UNCHANGED slots) \/ Take("prepared")
  BY DEF VerifyBack, At, TxLabels
<1>2. Back(tm, app.st) BY <1>1, TxFacts
<1>3. CASE RollBack /\ UNCHANGED slots BY <1>1, <1>2, <1>3, TxRollsBack
<1>4. CASE Take("prepared") BY <1>1, <1>4, TxFacts, TxTakes
<1>5. QED BY <1>1, <1>3, <1>4

LEMMA Commit1Away ==
    ASSUME IInv, IInv', Away, Commit1 PROVE Away'
<1>1. /\ AppUp /\ app.at = "commit1" /\ app.at \in TxLabels /\ UNCHANGED <<slots, rec, tx>>
      /\ WriteHome(app.st, Goto("commit2"), Goto("back"))
  BY DEF Commit1, At, TxLabels
<1>2. Out(tm, app.st) /\ Marked(tm, app.st) BY <1>1, TxFacts
<1>3. CASE /\ WindowUp(tm, app.st.home)
           /\ tm' = SetOption(tm, app.st.home, app.st.slot, app.st) /\ Goto("commit2")
  <2>1. /\ Core(tm', app.inst, Eff(slots, app), Pad(slots, app), Rows(tm, app, rec), tx)
        /\ RecOK(tm', rec) /\ tm'.at = tm.at /\ tm'.own = tm.own /\ Marked(tm', app.st)
    BY <1>1, <1>2, <1>3, TxFacts, WriteFacts
  <2>2. Out(tm', app.st) BY <1>2, <2>1 DEF Out
  <2>3. QED BY <1>1, <1>3, <2>1, <2>2, TxGoes DEF TxLabels
<1>4. CASE UNCHANGED tm /\ Goto("back")
  BY <1>1, <1>2, <1>4, TxFacts, TxGoes DEF TxLabels
<1>5. QED BY <1>1, <1>3, <1>4 DEF WriteHome

LEMMA Commit2Away ==
    ASSUME IInv, IInv', Away, Commit2 PROVE Away'
<1>1. /\ AppUp /\ app.at = "commit2" /\ app.at \in TxLabels /\ UNCHANGED <<rec, tx>>
      /\ WriteDisplay(app.st, Take("displayed"), Goto("back") /\ UNCHANGED slots)
  BY DEF Commit2, At, TxLabels
<1>2. Out(tm, app.st) /\ Marked(tm, app.st) BY <1>1, TxFacts
<1>3. CASE /\ WindowUp(tm, Disp(app.st.inst))
           /\ tm' = SetOption(tm, Disp(app.st.inst), app.st.slot, app.st) /\ Take("displayed")
  <2>1. /\ Core(tm', app.inst, Eff(slots, app), Pad(slots, app), Rows(tm, app, rec), tx)
        /\ RecOK(tm', rec) /\ tm'.own = tm.own
    BY <1>1, <1>3, TxFacts, WriteFacts
  <2>2. QED BY <1>1, <1>3, <2>1, TxTakes
<1>4. CASE /\ tm' = ClearMatching(tm, app.st.home, app.st.slot, app.st.tx)
           /\ Goto("back") /\ UNCHANGED slots
  <2>1. app.st.home # Disp(app.st.inst) BY <1>1, TxFacts, WindowFacts
  <2>2. /\ Core(tm', app.inst, Eff(slots, app), Pad(slots, app), Rows(tm, app, rec), tx)
        /\ RecOK(tm', rec) /\ tm'.at = tm.at /\ tm'.own = tm.own /\ Marked(tm', app.st)
    BY <1>1, <1>2, <1>4, <2>1, TxFacts, ClearFacts
  <2>3. Out(tm', app.st) BY <1>2, <2>2 DEF Out
  <2>4. QED BY <1>1, <1>4, <2>2, <2>3, TxGoes DEF TxLabels
<1>5. QED BY <1>1, <1>3, <1>4 DEF WriteDisplay

LEMMA AlikeParts ==
    ASSUME NEW m, NEW n, Alike(m, n)
    PROVE  /\ m.inst = n.inst /\ m.slot = n.slot /\ m.agent = n.agent /\ m.real = n.real
           /\ m.ph = n.ph /\ m.home = n.home /\ m.tx = n.tx
BY DEF Alike, Twins

LEMMA VerifyAway ==
    ASSUME IInv, IInv', Away, Verify PROVE Away'
<1>1. /\ AppUp /\ app.at = "verify" /\ app.at \in TxLabels /\ UNCHANGED <<tm, slots, rec, tx>>
      /\ \/ app' = [app EXCEPT !.at = "commit1", !.st.phase = "displayed"]
         \/ VerifiedHome(tm, app.st) /\ RollBack
         \/ Goto("back")
  BY DEF Verify, At, TxLabels
<1>2. Out(tm, app.st) /\ Marked(tm, app.st) BY <1>1, TxFacts
<1>3. CASE app' = [app EXCEPT !.at = "commit1", !.st.phase = "displayed"]
  <2>1. /\ app'.at = "commit1" /\ app'.inst = app.inst /\ app'.slot = app.slot
        /\ app'.agent = app.agent /\ app'.st = [app.st EXCEPT !.phase = "displayed"]
    BY <1>3 DEF IInv, TypeOK, AppType
  <2>2. app.st \in SwapState BY <1>1, TxFacts
  <2>3. Alike(app'.st, app.st) BY <2>1, <2>2, PhaseAlike
  <2>4. Out(tm, app'.st) /\ Marked(tm, app'.st)
    BY <1>2, <2>3, AlikeFacts DEF Alike, Twins, Out
  <2>5. /\ app'.st.inst = app.inst /\ app'.st.slot = app.slot /\ app'.st.agent = app.agent
        /\ app'.st.ph = app.st.ph
    <3>1. app.st.inst = app.inst /\ app.st.slot = app.slot /\ app.st.agent = app.agent
      BY <1>1, TxFacts
    <3>2. QED BY <2>3, <3>1, AlikeParts
  <2>6. AppOK(tm', slots', app', tx)
    <3>1. /\ app'.st.inst = app'.inst /\ app'.st.slot = app'.slot /\ app'.st.agent = app'.agent
          /\ slots'[app'.slot].pane = app'.st.ph /\ app'.at \in TxLabels
      <4>1. slots[app.slot].pane = app.st.ph BY <1>1, TxFacts
      <4>2. QED BY <1>1, <2>1, <2>5, <4>1 DEF TxLabels
    <3>2. \A s \in Slots : slots'[s].st # None => slots'[s].st.agent = slots'[s].agent
      BY <1>1, TxFacts
    <3>3. Out(tm', app'.st) /\ Marked(tm', app'.st) BY <1>1, <2>4
    <3>4. app'.at = "commit1" BY <2>1
    <3>5. QED BY <3>1, <3>2, <3>3, <3>4, TxApp
  <2>7. TxKept BY <2>1, <2>3 DEF TxKept, TxLabels
  <2>8. QED BY <1>1, <2>1, <2>6, <2>7, TxFacts, TxAway
<1>4. CASE VerifiedHome(tm, app.st) /\ RollBack
  <2>1. Back(tm, app.st) BY <1>1, <1>4, TxFacts DEF Back, VerifiedHome
  <2>2. QED BY <1>1, <1>4, <2>1, TxRollsBack
<1>5. CASE Goto("back") BY <1>1, <1>2, <1>5, TxFacts, TxGoes DEF TxLabels
<1>6. QED BY <1>1, <1>3, <1>4, <1>5

LEMMA KeeperFields ==
    ASSUME NEW t \in ServerType, NEW i \in Insts, NEW u, u = GroupKeeper(t, i), PlacesOK(t, i)
    PROVE  /\ Adds(t, u, i) /\ u.at = t.at /\ u.outer = t.outer /\ u.own = t.own
           /\ u.keep[i]
<1>1. /\ u.at = t.at /\ u.outer = t.outer /\ u.own = t.own /\ u.opt = t.opt
      /\ u.keep = [t.keep EXCEPT ![i] = TRUE]
  BY DEF GroupKeeper, ServerType
<1>2. \A j \in Insts : t.keep[j] => u.keep[j] BY <1>1 DEF ServerType
<1>3. u.keep[i] BY <1>1 DEF ServerType
<1>4. QED BY <1>1, <1>2, <1>3 DEF Adds, PlacesOK

LEMMA KeeperAway ==
    ASSUME IInv, IInv', Away, Keeper PROVE Away'
<1> DEFINE i == app.inst
           e == Eff(slots, app)
           q == Pad(slots, app)
           d == Rows(tm, app, rec)
           m == app.st
<1>1. /\ AppUp /\ app.at = "keeper" /\ app.at \notin TxLabels /\ UNCHANGED <<slots, rec>>
      /\ app.at \in StLabels /\ app.at \in FreeLabels /\ app.at \in NewLabels
  BY DEF Keeper, At, TxLabels, StLabels, FreeLabels, NewLabels
<1>2. /\ tm \in ServerType /\ tm' \in ServerType /\ i \in Insts /\ tm.own[i] /\ tx \in Nat
      /\ app.slot \in Slots /\ slots[app.slot].st = None /\ m \in SwapState /\ m.ph \in Pads
      /\ Core(tm, i, e, q, d, tx) /\ AppOK(tm, slots, app, tx)
      /\ UNION {RowsOf(rec[r]) : r \in Recoverers} \subseteq d
  BY <1>1, AppFacts
<1>3. PlacesOK(tm, i) BY <1>2 DEF Core
<1>4. /\ m.inst = i /\ m.slot = app.slot /\ m.agent = app.agent /\ slots[app.slot].pane = m.ph
      /\ \A s \in Slots : slots[s].st # None => slots[s].st.agent = slots[s].agent
  BY <1>1, Others
<1>5. /\ m.tx = tx + 1 /\ tm.at[m.real] \in Home(m.agent) \cup {Gone}
      /\ m.home \in Home(m.agent)
      /\ m.real = m.agent \/ (m.real \in Pads /\ tm.at[m.agent] = Gone)
      /\ Unused(tm, e, m.agent)
  BY <1>1, <1>2, <1>4 DEF AppOK
<1>6. CASE Fallback /\ UNCHANGED <<tm, tx>>
  <2>1. app'.at = "home" /\ app'.for = "fallback" /\ app'.inst = app.inst
    BY <1>6, FallbackFields
  <2>2. QED BY <1>1, <1>6, <2>1, PlainAway DEF Plain
<1>7. CASE tm' = GroupKeeper(tm, i) /\ tm.at[m.ph] # W /\ Fallback /\ tx' = tx
  <2>1. /\ app'.at = "home" /\ app'.for = "fallback" /\ app'.inst = app.inst
        /\ app'.at \notin TxLabels
    BY <1>7, FallbackFields DEF TxLabels
  <2>2. Adds(tm, tm', i) /\ tm'.at = tm.at /\ tm'.outer = tm.outer /\ tm'.own = tm.own
    BY <1>2, <1>3, <1>7, KeeperFields
  <2>3. Core(tm', i, e, q, d, tx) BY <1>2, <2>2, AddsCore
  <2>4. RecOK(tm', rec) BY <1>1, <2>2, AddsRecOK
  <2>5. AppOK(tm', slots, app', tx) BY <1>4, <2>1, PlainApp DEF Plain
  <2>6. QED BY <1>1, <1>7, <2>1, <2>2, <2>3, <2>4, <2>5, ReturnAway
<1>8. CASE tm' = GroupKeeper(tm, i) /\ tm.at[m.ph] = W /\ Goto("prep1") /\ tx' = tx + 1
  <2>1. /\ app'.at = "prep1" /\ app'.inst = app.inst /\ app'.slot = app.slot /\ app'.st = m
        /\ app'.agent = app.agent /\ app'.at \in TxLabels /\ app'.at # "clear"
    BY <1>8, GotoFields DEF AppLabels, TxLabels
  <2>2. /\ Adds(tm, tm', i) /\ tm'.at = tm.at /\ tm'.outer = tm.outer /\ tm'.own = tm.own
        /\ tm'.keep[i]
    BY <1>2, <1>3, <1>8, KeeperFields
  <2>3. Core(tm', i, e, q, d, tx) BY <1>2, <2>2, AddsCore
  <2>4. RecOK(tm', rec) BY <1>1, <2>2, AddsRecOK
  <2>5. Stored(tm') = Stored(tm) BY <2>2 DEF Adds, Stored
  <2>6. Unused(tm', e, m.agent) BY <1>5, <2>2, <2>5 DEF Unused, Live
  <2>7. e[app.slot] = None /\ q[app.slot] = m.ph BY <1>1, <1>2, <1>4, EffFacts
  <2>8. /\ \A s \in Slots \ {app.slot} : Eff(slots', app')[s] = e[s]
        /\ Eff(slots', app')[app.slot] = m
    BY <1>1, <1>2, <2>1, EffFacts
  <2>9. m # None BY <1>2, StateFacts
  <2>10. \A s \in Slots : Pad(slots', app')[s] = q[s]
    <3>1. \A s \in Slots \ {app.slot} : Pad(slots', app')[s] = q[s]
      BY <1>1, <2>8, EffFacts
    <3>2. Pad(slots', app')[app.slot] = m.ph BY <1>2, <2>8, <2>9, EffFacts
    <3>3. QED BY <2>7, <3>1, <3>2
  <2> HIDE DEF e, q, d, m, i
  <2>11. tm'.at[m.ph] = Disp(i) BY <1>8, <2>2 DEF W, i
  <2>12. tm'.at[m.real] \in Home(m.agent) \cup {Gone}
         /\ (m.real = m.agent \/ (m.real \in Pads /\ tm'.at[m.agent] = Gone))
    BY <1>5, <2>2
  <2>13. tm'.own[i] BY <1>2, <2>2
  <2>14. Core(tm', i, Eff(slots', app'), q, d, tx + 1)
    BY <1>2, <1>4, <1>5, <2>3, <2>6, <2>7, <2>8, <2>11, <2>12, <2>13, NewCore
  <2>15. Core(tm', app.inst, Eff(slots', app'), q, d, tx') BY <1>8, <2>14 DEF i
  <2>16. \A s \in Slots : SlotStep(tm', app.inst, Eff(slots', app'), q,
                                   Eff(slots', app'), Pad(slots', app'), s)
    <3>1. ASSUME NEW s \in Slots
          PROVE  SlotStep(tm', i, Eff(slots', app'), q, Eff(slots', app'), Pad(slots', app'), s)
      BY <1>2, <2>10, <2>13, <2>14, SlotKept
    <3>2. QED BY <3>1 DEF i
  <2>17. Back(tm', m) BY <1>4, <2>11, <2>12 DEF Back
  <2>18. AppOK(tm', slots', app', tx')
    <3>1. /\ app'.st.inst = app'.inst /\ app'.st.slot = app'.slot /\ app'.st.agent = app'.agent
          /\ slots'[app'.slot].pane = app'.st.ph /\ Back(tm', app'.st) /\ tm'.keep[app'.inst]
      BY <1>1, <1>4, <2>1, <2>2, <2>17 DEF i
    <3>2. \A s \in Slots : slots'[s].st # None => slots'[s].st.agent = slots'[s].agent
      BY <1>1, <1>4
    <3>3. QED BY <2>1, <3>1, <3>2, TxApp
  <2>19. Clearing(tm', app') = {} BY <2>1 DEF Clearing
  <2>20. QED BY <1>1, <1>2, <2>1, <2>4, <2>15, <2>16, <2>18, <2>19, StepAway
<1>9. QED BY <1>6, <1>7, <1>8 DEF Keeper

LEMMA AppStepAway ==
    ASSUME IInv, IInv', Away, ~Overlap, Turns, GenHome(tm), AppStep PROVE Away'
<1>1. AttachStep => Away'
  BY GateAway, PlaceAway, InspectAway, KeeperAway, Prepare1Away, Prepare2Away, SwapOutAway,
     VerifyAway, SwapBackAway, VerifyBackAway, Commit1Away, Commit2Away, NestedAway
  DEF AttachStep
<1>2. QED
  BY <1>1, CheckHomeAway, MarkReturningHomeAway, MarkReturningDisplayAway, SwapHomeAway,
     VerifyHomeAway, ClearMarkerAway, AfterHomeAway, BlankAway, ClosePaneAway, CloseAllAway,
     ExitDropsKeeperAway, ByeAway, KillSessionAway
  DEF AppStep

LEMMA EnvironmentAway ==
    ASSUME IInv, IInv', Away, ~Overlap, Environment PROVE Away'
BY AgentExitsAway, UserAttachesAway, UserKillsSessionAway, UserKillsOuterAway,
   NestedClientEndsAway, AppKilledAway, RecovererKilledAway
DEF Environment

LEMMA StutterAway ==
    ASSUME Away, UNCHANGED vars PROVE Away'
BY DEF vars, Away

\* Every step of the process, of a launcher and of the environment.
LEMMA NextAway ==
    ASSUME IInv, IInv', Away, ~Overlap, ~IdentityFaults, Turns, GenHome(tm), [Next]_vars
    PROVE  Away'
BY RequestAway, ReapDeadAway, ExternalClientAway, AppStepAway, RecoverStepAway,
   EnvironmentAway, StutterAway
DEF Next, Refresh

-----------------------------------------------------------------------------
(* The initial state *)

\* A fresh server has no markers, and every agent is in its home window.
LEMMA InitAway == ASSUME Init PROVE Away
<1>1. IInv BY InitInv
<1>2. tm \in ServerType /\ app.inst = 1 /\ app.inst \in Insts BY <1>1, StateTypes DEF Init, Idle
<1>3. /\ app.at = "idle" /\ app = Idle(1) /\ tx = 0
      /\ \A s \in Slots : slots[s] = EmptySlot
      /\ \A r \in Recoverers : rec[r] = Off
  BY DEF Init, Idle
<1>4. /\ \A a \in Agents : tm.at[a] = <<a, 1>>
      /\ \A p \in Panes : p \notin Agents => tm.at[p] = Unborn
      /\ \A w \in Windows, s \in Slots : tm.opt[w][s] = None
      /\ \A j \in Insts : tm.own[j] => j = 1
  BY DEF Init, FreshServer, Panes
<1>5. Stored(tm) = {} BY <1>4 DEF Stored
<1> DEFINE e == Eff(slots, app)
           q == Pad(slots, app)
<1>6. \A s \in Slots : e[s] = None /\ q[s] = None
  <2>1. ASSUME NEW s \in Slots PROVE e[s] = None /\ q[s] = None
    <3>1. app.at \notin TxLabels BY <1>3 DEF TxLabels
    <3>2. e[s] = None BY <1>3, <3>1, EffFacts DEF EmptySlot
    <3>3. q[s] = None BY <1>3, <3>2, EffFacts DEF EmptySlot
    <3>4. QED BY <3>2, <3>3
  <2>2. QED BY <2>1
<1> HIDE DEF e, q
<1>7. Held(tm, app.inst, e) = {} BY <1>6 DEF Held
<1>8. Kept(tm, app.inst, e) = {} BY <1>5, <1>7 DEF Kept
<1>9. Rows(tm, app, rec) = {}
  BY <1>3 DEF Rows, Clearing, RowsOf, Off, RecStLabels
<1>10. Dead(tm, {}) = {} BY DEF Dead
<1>11. \A a \in Agents : tm.at[a] \in Home(a) BY <1>4 DEF Home
<1>12. PlacesOK(tm, app.inst)
  <2>1. \A p \in Panes, j \in Insts : tm.at[p] # Disp(j)
    BY <1>4, <1>11, WindowFacts DEF Panes
  <2>2. QED BY <1>2, <1>4, <1>11, <2>1 DEF PlacesOK
<1>13. WhereSet(tm)
  <2>1. \A i \in Insts : Disp(i) \in Windows BY WindowFacts
  <2>2. QED BY <1>4, <2>1 DEF WhereSet
<1>14. AgentsOK(tm) BY <1>11, WindowFacts DEF AgentsOK
<1>15. SlotsOK(tm, app.inst, e, q, {})
  <2>1. ASSUME NEW s \in Slots PROVE PadOK(tm, app.inst, e, q, {}, s) BY <1>6 DEF PadOK
  <2>2. QED BY <2>1 DEF SlotsOK
<1>16. Core(tm, app.inst, e, q, {}, tx)
  BY <1>5, <1>8, <1>10, <1>12, <1>13, <1>14, <1>15
  DEF Core, RecordsOK, Agree, ShownMarked, One, OneDead, ShownHeld
<1>17. AppOK(tm, slots, app, tx)
  <2>1. app.at \in Plain /\ app.at # "home" /\ app.at # "gate" BY <1>3 DEF Plain
  <2>2. \A s \in Slots : slots[s].st = None BY <1>3 DEF EmptySlot
  <2>3. QED BY <2>1, <2>2, PlainApp
<1>18. RecOK(tm, rec) BY <1>3 DEF RecOK, Off
<1>19. QED BY <1>9, <1>16, <1>17, <1>18 DEF Away, e, q

-----------------------------------------------------------------------------
(* The homes: every pane in one is in its current window *)

\* Whoever is in a home window is in the current one: a session is created anew
\* only when nothing is left in the window it had.
Current(t) == \A p \in Panes, a \in Agents : t.at[p] \in Home(a) => t.at[p] = HomeWin(t, a)

\* The panes of u are where some pane was, in a display window, or gone.
Relocates(t, u) ==
    /\ u.gen = t.gen
    /\ \A p \in Panes : \/ u.at[p] = Gone \/ u.at[p] \in Displays
                        \/ \E o \in Panes : u.at[p] = t.at[o]

LEMMA CurrentHome ==
    ASSUME NEW t, Current(t) PROVE GenHome(t)
BY DEF Current, GenHome, Panes

LEMMA RelocatesCurrent ==
    ASSUME NEW t, NEW u, Current(t), Relocates(t, u)
    PROVE  Current(u)
<1>1. ASSUME NEW p \in Panes, NEW a \in Agents, u.at[p] \in Home(a)
      PROVE  u.at[p] = HomeWin(u, a)
  <2>1. u.at[p] # Gone /\ u.at[p] \notin Displays
    BY <1>1, WindowFacts DEF Displays
  <2>2. PICK o \in Panes : u.at[p] = t.at[o] BY <2>1 DEF Relocates
  <2>3. u.at[p] = HomeWin(t, a) BY <1>1, <2>2 DEF Current
  <2>4. QED BY <2>3 DEF HomeWin, Relocates
<1>2. QED BY <1>1 DEF Current

LEMMA SameRelocates ==
    ASSUME NEW t, NEW u, u.at = t.at, u.gen = t.gen PROVE Relocates(t, u)
BY DEF Relocates

LEMMA SettleRelocates ==
    ASSUME NEW t, NEW v, Relocates(t, v) PROVE Relocates(t, Settle(v))
<1>1. Settle(v).gen = v.gen BY DEF Settle
<1>2. \A p \in Panes : Settle(v).at[p] = v.at[p] \/ Settle(v).at[p] = Gone
  BY DEF Settle
<1>3. QED BY <1>1, <1>2 DEF Relocates

\* Every command relocates, but for the creation of a session.
LEMMA CommandRelocates ==
    ASSUME NEW t \in ServerType
    PROVE  /\ Relocates(t, t)
           /\ \A p \in Panes : Relocates(t, KillPane(t, p))
           /\ \A a : Relocates(t, KillAgentSession(t, a))
           /\ \A i \in Insts : /\ Relocates(t, KillOuter(t, i)) /\ Relocates(t, KillKeeper(t, i))
                               /\ Relocates(t, OwnerDies(t, i)) /\ Relocates(t, GroupKeeper(t, i))
                               /\ Relocates(t, StartOuter(t, i)) /\ Relocates(t, HardQuit(t, i))
           /\ \A p, o \in Panes : Relocates(t, SwapPanes(t, p, o))
           /\ \A w, s, v : Relocates(t, SetOption(t, w, s, v))
           /\ \A w, s, x : Relocates(t, ClearMatching(t, w, s, x))
<1>1. Relocates(t, t) BY DEF Relocates
<1>2. ASSUME NEW p \in Panes PROVE Relocates(t, KillPane(t, p))
  <2>1. Relocates(t, [t EXCEPT !.at[p] = Gone]) BY DEF Relocates, ServerType
  <2>2. QED BY <2>1, SettleRelocates DEF KillPane
<1>3. ASSUME NEW a PROVE Relocates(t, KillAgentSession(t, a))
  <2>1. Relocates(t, [t EXCEPT !.at = [p \in Panes |-> IF t.at[p] = HomeWin(t, a)
                                                      THEN Gone ELSE t.at[p]]])
    BY DEF Relocates, ServerType
  <2>2. QED BY <2>1, SettleRelocates DEF KillAgentSession
<1>4. ASSUME NEW i \in Insts
      PROVE  /\ Relocates(t, KillOuter(t, i)) /\ Relocates(t, KillKeeper(t, i))
             /\ Relocates(t, OwnerDies(t, i)) /\ Relocates(t, GroupKeeper(t, i))
             /\ Relocates(t, StartOuter(t, i)) /\ Relocates(t, HardQuit(t, i))
  <2>1. /\ Relocates(t, [t EXCEPT !.outer[i] = FALSE])
        /\ Relocates(t, [t EXCEPT !.keep[i] = FALSE])
        /\ Relocates(t, [t EXCEPT !.own[i] = FALSE])
        /\ Relocates(t, [t EXCEPT !.keep[i] = TRUE])
        /\ Relocates(t, [t EXCEPT !.outer[i] = TRUE, !.own[i] = TRUE])
    <3>1. Relocates(t, [t EXCEPT !.outer[i] = FALSE]) BY DEF Relocates, ServerType
    <3>2. Relocates(t, [t EXCEPT !.keep[i] = FALSE]) BY DEF Relocates, ServerType
    <3>3. Relocates(t, [t EXCEPT !.own[i] = FALSE]) BY DEF Relocates, ServerType
    <3>4. Relocates(t, [t EXCEPT !.keep[i] = TRUE]) BY DEF Relocates, ServerType
    <3>5. Relocates(t, [t EXCEPT !.outer[i] = TRUE, !.own[i] = TRUE])
      BY DEF Relocates, ServerType
    <3>6. QED BY <3>1, <3>2, <3>3, <3>4, <3>5
  <2>2. Relocates(t, [t EXCEPT !.own[i] = FALSE, !.outer[i] = FALSE,
                        !.at = [p \in Panes |-> IF t.at[p] \in HomeWindows
                                                THEN Gone ELSE t.at[p]]])
    BY DEF Relocates, ServerType
  <2>3. Relocates(t, HardQuit(t, i)) BY <2>2, SettleRelocates DEF HardQuit
  <2>4. QED BY <2>1, <2>3, SettleRelocates
            DEF KillOuter, KillKeeper, OwnerDies, GroupKeeper, StartOuter
<1>5. ASSUME NEW p \in Panes, NEW o \in Panes PROVE Relocates(t, SwapPanes(t, p, o))
  <2>1. /\ SwapPanes(t, p, o).gen = t.gen
        /\ \A r \in Panes : SwapPanes(t, p, o).at[r] = t.at[r]
                         \/ SwapPanes(t, p, o).at[r] = t.at[p] \/ SwapPanes(t, p, o).at[r] = t.at[o]
    BY DEF SwapPanes, ServerType
  <2>2. QED BY <2>1 DEF Relocates
<1>6. ASSUME NEW w, NEW s, NEW v PROVE Relocates(t, SetOption(t, w, s, v))
  BY SameRelocates DEF SetOption, ServerType
<1>7. ASSUME NEW w, NEW s, NEW x PROVE Relocates(t, ClearMatching(t, w, s, x))
  BY SameRelocates DEF ClearMatching, ServerType
<1>8. QED BY <1>1, <1>2, <1>3, <1>4, <1>5, <1>6, <1>7

LEMMA NewSessionCurrent ==
    ASSUME NEW t \in ServerType, Current(t), NEW a \in Agents, t.gen[a] = 1, ~SessionUp(t, a),
           HasFreshPad(t)
    PROVE  Current(NewDetachedSession(t, a))
<1> DEFINE u == NewDetachedSession(t, a)
<1>1. FreshPad(t) \in Pads /\ FreshPad(t) \in Panes BY DEF HasFreshPad, FreshPad, Panes
<1>2. /\ u.gen = [t.gen EXCEPT ![a] = 2] /\ u.at = [t.at EXCEPT ![FreshPad(t)] = <<a, 2>>]
  BY DEF NewDetachedSession, ServerType
<1>3. \A b \in Agents : u.gen[b] = IF b = a THEN 2 ELSE t.gen[b] BY <1>2 DEF ServerType
<1>4. \A p \in Panes : u.at[p] = IF p = FreshPad(t) THEN <<a, 2>> ELSE t.at[p]
  BY <1>2 DEF ServerType
<1> HIDE DEF u
<1>5. \A p \in Panes : t.at[p] \notin Home(a)
  BY DEF Current, SessionUp, PanesIn
<1>6. ASSUME NEW p \in Panes, NEW b \in Agents, u.at[p] \in Home(b)
      PROVE  u.at[p] = HomeWin(u, b)
  <2>1. CASE p = FreshPad(t)
    <3>1. u.at[p] = <<a, 2>> BY <1>4, <2>1
    <3>2. a = b BY <1>6, <3>1 DEF Home
    <3>3. QED BY <1>3, <3>1, <3>2 DEF HomeWin
  <2>2. CASE p # FreshPad(t)
    <3>1. u.at[p] = t.at[p] BY <1>4, <2>2
    <3>2. b # a BY <1>5, <1>6, <3>1
    <3>3. t.at[p] = HomeWin(t, b) BY <1>6, <3>1 DEF Current
    <3>4. QED BY <1>3, <3>1, <3>2, <3>3 DEF HomeWin
  <2>3. QED BY <2>1, <2>2
<1>7. QED BY <1>6 DEF Current, u

LEMMA ShowRelocates ==
    ASSUME IInv, NEW s \in Slots, NEW what, Show(s, what) PROVE Relocates(tm, tm')
<1>1. tm \in ServerType /\ slots \in [Slots -> SlotType] /\ app.inst \in Insts
  BY StateTypes
<1>2. CASE PaneReady(s)
  <2>1. slots[s].pane \in Panes BY <1>1, <1>2 DEF PaneReady, SlotType
  <2>2. tm' = RespawnPane(tm, slots[s].pane, what) BY <1>2 DEF Show
  <2>3. CASE slots[s].pane \in Agents
    <3>1. tm' = KillPane(tm, slots[s].pane) BY <2>2, <2>3 DEF RespawnPane
    <3>2. QED BY <1>1, <2>1, <3>1, CommandRelocates
  <2>4. CASE slots[s].pane \notin Agents
    <3>1. tm' = [tm EXCEPT !.shows[slots[s].pane] = what] BY <2>2, <2>4 DEF RespawnPane
    <3>2. tm'.at = tm.at /\ tm'.gen = tm.gen BY <1>1, <3>1 DEF ServerType
    <3>3. QED BY <3>2, SameRelocates
  <2>5. QED BY <2>3, <2>4
<1>3. CASE ~PaneReady(s)
  <2>1. tm' = [SplitWindow(tm, app.inst) EXCEPT !.shows[FreshPad(tm)] = what] BY <1>3 DEF Show
  <2>2. tm'.gen = tm.gen /\ tm'.at = [tm.at EXCEPT ![FreshPad(tm)] = Disp(app.inst)]
    BY <1>1, <2>1 DEF SplitWindow, ServerType
  <2>3. \A p \in Panes : tm'.at[p] = tm.at[p] \/ tm'.at[p] = Disp(app.inst)
    BY <1>1, <2>2 DEF ServerType
  <2>4. QED BY <1>1, <2>2, <2>3 DEF Relocates, Displays
<1>4. QED BY <1>2, <1>3

LEMMA WriteRelocates ==
    ASSUME IInv, NEW m, NEW ok, NEW failed, WriteHome(m, ok, failed) \/ WriteDisplay(m, ok, failed)
    PROVE  Relocates(tm, tm')
BY StateTypes, CommandRelocates DEF WriteHome, WriteDisplay

LEMMA SwapRelocates ==
    ASSUME IInv, NEW m \in SwapState, NEW ok, NEW failed, Swap(m, ok, failed)
    PROVE  Relocates(tm, tm')
BY StateTypes, StateFacts, CommandRelocates DEF Swap

LEMMA ClearRelocates ==
    ASSUME IInv, NEW m, NEW w, Clear(m, w) PROVE Relocates(tm, tm')
BY StateTypes, CommandRelocates DEF Clear

LEMMA DropRelocates ==
    ASSUME IInv, NEW sl, DropKeeperIfIdle(sl) PROVE Relocates(tm, tm')
BY StateTypes, CommandRelocates DEF DropKeeperIfIdle

LEMMA AppRelocates ==
    ASSUME IInv, AppStep PROVE Relocates(tm, tm')
<1>1. /\ tm \in ServerType /\ app.inst \in Insts /\ slots \in [Slots -> SlotType]
      /\ app \in AppType
      /\ app.at \in StLabels => app.st \in SwapState
      /\ app.at \in StLabels \cup FreeLabels => app.slot \in Slots
  BY StateTypes DEF IInv, AppInv
<1>2. UNCHANGED tm => Relocates(tm, tm') BY <1>1, CommandRelocates
<1>3. CASE CheckHome \/ VerifyHome \/ Gate \/ Inspect \/ Verify \/ VerifyBack
  BY <1>2, <1>3 DEF CheckHome, VerifyHome, Gate, Inspect, Verify, VerifyBack
<1>4. CASE MarkReturningHome \/ MarkReturningDisplay \/ Prepare1 \/ Prepare2 \/ Commit1 \/ Commit2
  BY <1>4, WriteRelocates
  DEF MarkReturningHome, MarkReturningDisplay, Prepare1, Prepare2, Commit1, Commit2
<1>5. CASE SwapHome \/ SwapOut \/ SwapBack
  <2>1. app.st \in SwapState
    BY <1>1, <1>5 DEF SwapHome, SwapOut, SwapBack, At, StLabels
  <2>2. QED BY <1>5, <2>1, SwapRelocates DEF SwapHome, SwapOut, SwapBack
<1>6. CASE ClearMarker BY <1>6, ClearRelocates DEF ClearMarker
<1>7. CASE AfterHome \/ ExitDropsKeeper
  BY <1>2, <1>7, DropRelocates DEF AfterHome, ExitDropsKeeper
<1>8. CASE Place \/ Nested \/ Blank
  <2>1. app.slot \in Slots BY <1>1, <1>8 DEF Place, Nested, Blank, At, FreeLabels, StLabels
  <2>2. QED BY <1>2, <1>8, <2>1, ShowRelocates DEF Place, Nested, Blank
<1>9. CASE Keeper BY <1>1, <1>2, <1>9, CommandRelocates DEF Keeper
<1>10. CASE ClosePane
  <2>1. app.slot \in Slots BY <1>1, <1>10 DEF ClosePane, At, FreeLabels, StLabels
  <2>2. PaneReady(app.slot) => slots[app.slot].pane \in Panes
    BY <1>1, <2>1 DEF PaneReady, SlotType
  <2>3. \/ UNCHANGED tm
        \/ PaneReady(app.slot) /\ tm' = KillPane(tm, slots[app.slot].pane)
    BY <1>10 DEF ClosePane
  <2>4. QED BY <1>1, <1>2, <2>2, <2>3, CommandRelocates
<1>11. CASE CloseAll
  <2>1. \/ UNCHANGED tm
        \/ \E s \in ToClose : tm' = KillPane(tm, slots[s].pane)
    BY <1>11 DEF CloseAll
  <2>2. \A s \in ToClose : slots[s].pane \in Panes BY <1>1 DEF ToClose, SlotType
  <2>3. QED BY <1>1, <1>2, <2>1, <2>2, CommandRelocates
<1>12. CASE Bye
  <2>1. tm' = HardQuit(tm, app.inst) \/ tm' = OwnerDies(tm, app.inst)
    BY <1>12 DEF Bye, HardQuit
  <2>2. QED BY <1>1, <2>1, CommandRelocates
<1>13. CASE \E a \in Agents : KillSession(a)
  BY <1>1, <1>2, <1>13, CommandRelocates DEF KillSession
<1>14. QED
  BY <1>3, <1>4, <1>5, <1>6, <1>7, <1>8, <1>9, <1>10, <1>11, <1>12, <1>13
  DEF AppStep, AttachStep

LEMMA RecoverOneCurrent ==
    ASSUME IInv, Current(tm), NEW r \in Recoverers, RecoverOne(r) PROVE Current(tm')
<1>1. tm \in ServerType /\ rec[r] \in RecType BY StateTypes
<1>2. PICK m \in rec[r].rows :
        \/ UNCHANGED tm
        \/ /\ ~SessionUp(tm, m.agent) /\ HasFreshPad(tm) /\ tm.gen[m.agent] = 1
           /\ tm' = NewDetachedSession(tm, m.agent)
        \/ tm' = KillAgentSession(tm, m.agent)
  BY DEF RecoverOne
<1>3. m \in SwapState /\ m.agent \in Agents BY <1>1, StateFacts DEF RecType
<1>4. Relocates(tm, tm') => Current(tm') BY RelocatesCurrent
<1>5. QED BY <1>1, <1>2, <1>3, <1>4, CommandRelocates, NewSessionCurrent

LEMMA RecoverCurrent ==
    ASSUME IInv, Current(tm), NEW r \in Recoverers, RecoverStep(r) PROVE Current(tm')
<1>1. /\ tm \in ServerType /\ app.inst \in Insts /\ rec[r] \in RecType
      /\ rec[r].at \in RecStLabels => rec[r].st \in SwapState
  BY StateTypes
<1>2. UNCHANGED tm => Relocates(tm, tm') BY <1>1, CommandRelocates
<1>3. Relocates(tm, tm') => Current(tm') BY RelocatesCurrent
<1>4. CASE RecoverOne(r) BY <1>4, RecoverOneCurrent
<1>5. CASE RecoverList(r) \/ RecoverObserve(r) \/ RecoverVerify(r)
  BY <1>2, <1>3, <1>5 DEF RecoverList, RecoverObserve, RecoverVerify
<1>6. CASE RecoverMark1(r) \/ RecoverMark2(r)
  BY <1>3, <1>6, WriteRelocates DEF RecoverMark1, RecoverMark2
<1>7. CASE RecoverSwap(r)
  <2>1. rec[r].st \in SwapState BY <1>1, <1>7 DEF RecoverSwap, RecStLabels
  <2>2. QED BY <1>3, <1>7, <2>1, SwapRelocates DEF RecoverSwap
<1>8. CASE RecoverClear(r) BY <1>3, <1>8, ClearRelocates DEF RecoverClear
<1>9. CASE RecoverKeepers(r)
  <2>1. rec[r].all \subseteq Insts BY <1>1 DEF RecType
  <2>2. UNCHANGED tm \/ \E i \in rec[r].all : tm' = KillKeeper(tm, i)
    BY <1>9 DEF RecoverKeepers
  <2>3. QED BY <1>1, <1>2, <1>3, <2>1, <2>2, CommandRelocates
<1>10. CASE RecoverOuters(r)
  <2>1. rec[r].stale \subseteq Insts BY <1>1 DEF RecType
  <2>2. UNCHANGED tm \/ \E i \in rec[r].stale : tm' = KillOuter(tm, i)
    BY <1>10 DEF RecoverOuters
  <2>3. QED BY <1>1, <1>2, <1>3, <2>1, <2>2, CommandRelocates
<1>11. CASE Launch(r)
  <2>1. UNCHANGED tm \/ (app.inst < MaxInst /\ tm' = StartOuter(tm, app.inst + 1))
    BY <1>11 DEF Launch
  <2>2. app.inst < MaxInst => app.inst + 1 \in Insts BY <1>1, BoundsAssumption DEF Insts
  <2>3. QED BY <1>1, <1>2, <1>3, <2>1, <2>2, CommandRelocates
<1>12. QED
  BY <1>4, <1>5, <1>6, <1>7, <1>8, <1>9, <1>10, <1>11 DEF RecoverStep

LEMMA EnvironmentRelocates ==
    ASSUME IInv, Environment PROVE Relocates(tm, tm')
<1>1. tm \in ServerType /\ app.inst \in Insts BY StateTypes
<1>2. CASE \E a \in Agents : AgentExits(a)
  BY <1>1, <1>2, CommandRelocates DEF AgentExits, Panes
<1>3. CASE \E a \in Agents : UserAttaches(a)
  <2>1. tm'.at = tm.at /\ tm'.gen = tm.gen BY <1>1, <1>3 DEF UserAttaches, ServerType
  <2>2. QED BY <2>1, SameRelocates
<1>4. CASE \E a \in Agents : UserKillsSession(a)
  BY <1>1, <1>4, CommandRelocates DEF UserKillsSession
<1>5. CASE \E i \in Insts : UserKillsOuter(i)
  BY <1>1, <1>5, CommandRelocates DEF UserKillsOuter
<1>6. CASE \E p \in Pads : NestedClientEnds(p)
  BY <1>1, <1>6, CommandRelocates DEF NestedClientEnds, Panes
<1>7. CASE AppKilled BY <1>1, <1>7, CommandRelocates DEF AppKilled
<1>8. CASE \E r \in Recoverers : RecovererKilled(r)
  BY <1>1, <1>8, CommandRelocates DEF RecovererKilled
<1>9. QED BY <1>2, <1>3, <1>4, <1>5, <1>6, <1>7, <1>8 DEF Environment

LEMMA RequestRelocates ==
    ASSUME IInv, Request \/ Refresh PROVE Relocates(tm, tm')
<1>1. tm \in ServerType BY StateTypes
<1>2. Request => UNCHANGED tm BY DEF Request, Attach, Vacate, Kill, Leave
<1>3. Refresh => UNCHANGED tm \/ \E a : tm' = KillAgentSession(tm, a)
  BY DEF Refresh, ReapDead, ExternalClient
<1>4. QED BY <1>1, <1>2, <1>3, CommandRelocates

LEMMA NextCurrent ==
    ASSUME IInv, Current(tm), [Next]_vars PROVE Current(tm')
<1>1. Relocates(tm, tm') => Current(tm') BY RelocatesCurrent
<1>2. tm \in ServerType BY StateTypes
<1>3. UNCHANGED vars => Relocates(tm, tm') BY <1>2, CommandRelocates DEF vars
<1>4. QED
  BY <1>1, <1>3, AppRelocates, RecoverCurrent, EnvironmentRelocates, RequestRelocates DEF Next

LEMMA InitCurrent == ASSUME Init PROVE Current(tm)
<1>1. /\ \A a \in Agents : tm.at[a] = <<a, 1>> /\ tm.gen[a] = 1
      /\ \A p \in Panes : p \notin Agents => tm.at[p] = Unborn
  BY DEF Init, FreshServer, Panes
<1>2. ASSUME NEW p \in Panes, NEW a \in Agents, tm.at[p] \in Home(a)
      PROVE  tm.at[p] = HomeWin(tm, a)
  <2>1. p \in Agents BY <1>1, <1>2, WindowFacts
  <2>2. tm.at[p] = <<p, 1>> BY <1>1, <2>1
  <2>3. p = a BY <1>2, <2>2 DEF Home
  <2>4. QED BY <1>1, <2>2, <2>3 DEF HomeWin
<1>3. QED BY <1>2 DEF Current

\* The gate is reached by an attach only, and an attach never ends in a quit.
LEMMA GotoTurns ==
    ASSUME IInv, NEW l \in AppLabels, Goto(l), l = "gate" => app.for = "attach",
           l = "quit" => app.for # "attach"
    PROVE  Turns'
BY GotoFields DEF Turns

LEMMA ElsewhereTurns ==
    ASSUME app'.at \notin {"gate", "quit"} PROVE Turns'
BY DEF Turns

LEMMA FailTurns == ASSUME IInv, Fail PROVE Turns'
<1>1. app \in AppType BY StateTypes
<1>2. QED BY <1>1 DEF Fail, Goto, Idle, AppType, Turns

LEMMA AppTurns ==
    ASSUME IInv, Turns, AppStep PROVE Turns'
<1>1. app \in AppType BY StateTypes
<1>2. ASSUME NEW l \in AppLabels \ {"gate", "quit"}, Goto(l) PROVE Turns'
  BY <1>2, GotoTurns
<1>3. \A i : app' = Idle(i) => Turns' BY ElsewhereTurns DEF Idle
<1>4. ClearBoth \/ RollBack \/ Fallback => Turns'
  BY ClearBothFields, RollBackFields, FallbackFields, ElsewhereTurns
<1>5. \A p : Take(p) => Turns' BY <1>3 DEF Take
<1>6. CASE CheckHome \/ VerifyHome BY <1>2, <1>4, <1>6, FailTurns DEF CheckHome, VerifyHome, AppLabels
<1>7. CASE MarkReturningHome \/ MarkReturningDisplay
  BY <1>2, <1>7 DEF MarkReturningHome, MarkReturningDisplay, WriteHome, WriteDisplay, AppLabels
<1>8. CASE SwapHome BY <1>2, <1>8, FailTurns DEF SwapHome, Swap, AppLabels
<1>9. CASE ClearMarker
  <2>1. app'.at \in {"home", "clear"} BY <1>1, <1>9 DEF ClearMarker, AppType
  <2>2. QED BY <2>1, ElsewhereTurns
<1>10. CASE AfterHome
  BY <1>2, <1>3, <1>10, GotoTurns DEF AfterHome, AppLabels
<1>11. CASE Gate BY <1>2, <1>11, FailTurns DEF Gate, AppLabels
<1>12. CASE Place BY <1>2, <1>12, FailTurns DEF Place, AppLabels
<1>13. CASE Inspect
  <2>1. app'.at \in {"home", "keeper"} BY <1>1, <1>13 DEF Inspect, AppType
  <2>2. QED BY <2>1, ElsewhereTurns
<1>14. CASE Keeper BY <1>2, <1>4, <1>14 DEF Keeper, AppLabels
<1>15. CASE Prepare1 \/ Prepare2
  BY <1>2, <1>4, <1>15 DEF Prepare1, Prepare2, WriteHome, WriteDisplay, AppLabels
<1>16. CASE SwapOut \/ SwapBack
  BY <1>2, <1>4, <1>5, <1>16 DEF SwapOut, SwapBack, Swap, AppLabels
<1>17. CASE Verify
  <2>1. app'.at \in {"commit1", "clear", "back"}
    BY <1>1, <1>17, RollBackFields, GotoFields DEF Verify, AppType, AppLabels
  <2>2. QED BY <2>1, ElsewhereTurns
<1>18. CASE VerifyBack BY <1>4, <1>5, <1>18 DEF VerifyBack
<1>19. CASE Commit1 \/ Commit2
  BY <1>2, <1>5, <1>19 DEF Commit1, Commit2, WriteHome, WriteDisplay, AppLabels
<1>20. CASE Nested \/ Blank BY <1>2, <1>3, <1>20 DEF Nested, Blank, AppLabels
<1>21. CASE ClosePane
  <2>1. \/ app' = [app EXCEPT !.at = "home", !.for = "reaped"]
        \/ app' = Idle(app.inst)
    BY <1>21 DEF ClosePane
  <2>2. app' = [app EXCEPT !.at = "home", !.for = "reaped"] => app'.at = "home"
    BY <1>1 DEF AppType
  <2>3. QED BY <1>3, <2>1, <2>2, ElsewhereTurns
<1>22. CASE CloseAll
  <2>1. app'.at = "check" \/ UNCHANGED app \/ Goto("exit")
    BY <1>1, <1>22 DEF CloseAll, AppType
  <2>2. QED BY <1>2, <2>1, ElsewhereTurns DEF AppLabels, Turns
<1>23. CASE ExitDropsKeeper BY <1>2, <1>23 DEF ExitDropsKeeper, AppLabels
<1>24. CASE Bye \/ \E a \in Agents : KillSession(a) BY <1>3, <1>24 DEF Bye, KillSession
<1>25. QED
  BY <1>6, <1>7, <1>8, <1>9, <1>10, <1>11, <1>12, <1>13, <1>14, <1>15, <1>16, <1>17, <1>18,
     <1>19, <1>20, <1>21, <1>22, <1>23, <1>24 DEF AppStep, AttachStep

LEMMA NextTurns ==
    ASSUME IInv, Turns, [Next]_vars PROVE Turns'
<1>1. app \in AppType BY StateTypes
<1>2. CASE AppStep BY <1>2, AppTurns
<1>3. CASE Refresh
  <2>1. app'.at \in {"clear", "home", "check"}
    BY <1>1, <1>3 DEF Refresh, ReapDead, ExternalClient, Begin, AppType
  <2>2. QED BY <2>1, ElsewhereTurns
<1>4. CASE Request
  <2>1. \/ app'.at = "gate" /\ app'.for = "attach"
        \/ app'.at = "quit" /\ app'.for \in {"soft", "hard"}
        \/ app'.at \in {"check", "home", "killagent"}
    <3>1. (\E s \in Slots, a \in Agents : Attach(s, a)) =>
             (app'.at = "gate" /\ app'.for = "attach") \/ app'.at = "check"
      BY <1>1 DEF Attach, AppType
    <3>2. (\E how \in {"soft", "hard"} : Leave(how)) =>
             app'.at = "quit" /\ app'.for \in {"soft", "hard"}
      BY <1>1 DEF Leave, AppType
    <3>3. (\E a \in Agents : Kill(a)) => app'.at \in {"check", "home", "killagent"}
      BY <1>1 DEF Kill, Begin, AppType
    <3>4. (\E s \in Slots, purpose \in {"preview", "reset", "close"} : Vacate(s, purpose)) =>
             app'.at \in {"check", "home"}
      BY <1>1 DEF Vacate, Begin, AppType
    <3>5. QED BY <1>4, <3>1, <3>2, <3>3, <3>4 DEF Request
  <2>2. QED BY <2>1 DEF Turns
<1>5. CASE \E r \in Recoverers : RecoverStep(r)
  <2>1. UNCHANGED app \/ \E i : app' = Idle(i)
    BY <1>5 DEF RecoverStep, RecoverList, RecoverOne, RecoverObserve, RecoverMark1, RecoverMark2,
                RecoverSwap, RecoverVerify, RecoverClear, RecoverKeepers, RecoverOuters, Launch
  <2>2. QED BY <2>1, ElsewhereTurns DEF Idle, Turns
<1>6. CASE Environment
  <2>1. UNCHANGED app \/ \E i : app' = Idle(i)
    BY <1>6 DEF Environment, AgentExits, UserAttaches, UserKillsSession, UserKillsOuter,
                NestedClientEnds, AppKilled, RecovererKilled
  <2>2. QED BY <2>1, ElsewhereTurns DEF Idle, Turns
<1>7. CASE UNCHANGED vars BY <1>7 DEF vars, Turns
<1>8. QED BY <1>2, <1>3, <1>4, <1>5, <1>6, <1>7 DEF Next

LEMMA InitTurns == ASSUME Init PROVE Turns
BY DEF Init, Idle, Turns

-----------------------------------------------------------------------------
(* Marked, kept and owned *)

\* The whole invariant, for launchers that do not overlap and queries that do
\* not fail.  With either, recovery can take a live transaction for a dead
\* one, and TLC shows the states it leaves.
Safe == IInv /\ Away /\ Current(tm) /\ Turns

LEMMA InitSafe == Init => Safe
BY InitInv, InitAway, InitCurrent, InitTurns DEF Safe

LEMMA NextSafe ==
    ASSUME ~Overlap, ~IdentityFaults, Safe, [Next]_vars PROVE Safe'
<1>1. IInv /\ Away /\ Current(tm) /\ Turns BY DEF Safe
<1>2. IInv' BY <1>1, NextInv
<1>3. Away' BY <1>1, <1>2, CurrentHome, NextAway
<1>4. Current(tm') BY <1>1, NextCurrent
<1>5. Turns' BY <1>1, NextTurns
<1>6. QED BY <1>2, <1>3, <1>4, <1>5 DEF Safe

LEMMA SafeAway ==
    ASSUME Safe PROVE AwayIsMarked /\ AwayIsKept
<1>1. AgentsOK(tm) /\ WhereSet(tm) BY CoreParts DEF Safe, Away
<1>2. \A a \in Agents : \A i \in AwayFrom(a) :
        /\ i \in Insts /\ tm.keep[i]
        /\ \E s \in Slots : tm.opt[Disp(i)][s] # None /\ tm.opt[Disp(i)][s].real = a
  BY <1>1 DEF AwayFrom, AgentsOK
<1>3. QED BY <1>1, <1>2 DEF AwayIsMarked, AwayIsKept, WhereSet

\* The invariant holds in every reachable state, for any number of agents,
\* slots, instances, launchers, failed commands and killed processes.
THEOREM SafeInvariance == ASSUME ~Overlap, ~IdentityFaults PROVE Spec => []Safe
<1>1. Init => Safe BY InitSafe
<1>2. Safe /\ [Next]_vars => Safe' BY NextSafe
<1>3. QED BY <1>1, <1>2, PTL DEF Spec

\* Whatever command fails and whenever a process or launcher is killed, an agent
\* in a display window has a marker on that window that names it and the
\* window's instance, so a later recovery finds it: _write_marker_pair comes
\* before swap-pane, and _clear_markers after the way back is verified.
THEOREM AlwaysMarked == ASSUME ~Overlap, ~IdentityFaults PROVE Spec => []AwayIsMarked
<1>1. Safe => AwayIsMarked BY SafeAway
<1>2. QED BY <1>1, SafeInvariance, PTL

\* A display window with an agent in it has its keeper session: it is grouped
\* before the swap, and neither _drop_keeper_if_idle nor a recovery kills it
\* while an agent is there.  So the outer session may be killed at any time.
THEOREM AlwaysKept == ASSUME ~Overlap, ~IdentityFaults PROVE Spec => []AwayIsKept
<1>1. Safe => AwayIsKept BY SafeAway
<1>2. QED BY <1>1, SafeInvariance, PTL

\* The marker of an agent in the process's window names the slot that holds it
\* (ShownHeld), and another slot with this agent would hold the same
\* transaction (One).
LEMMA SafeOwner ==
    ASSUME Safe PROVE OneOwner
<1> SUFFICES ASSUME AppUp, app.at = "idle", NEW a \in Agents, app.inst \in AwayFrom(a)
             PROVE  \E s \in Slots : /\ slots[s].st # None
                                     /\ slots[s].st.real = a
                                     /\ \A o \in Slots \ {s} :
                                          slots[o].st = None \/ slots[o].st.real # a
  BY DEF OneOwner
<1> DEFINE i == app.inst
           e == Eff(slots, app)
           q == Pad(slots, app)
           d == Rows(tm, app, rec)
<1>1. tm \in ServerType /\ i \in Insts /\ tm.own[i] /\ tm.at[a] = Disp(i)
  BY StateTypes DEF Safe, AppUp, AwayFrom
<1>2. Core(tm, i, e, q, d, tx) BY DEF Safe, Away
<1>3. \A s \in Slots : e[s] = slots[s].st BY EffFacts DEF TxLabels
<1> HIDE DEF i, e, q, d
<1>4. PICK s \in Slots : tm.opt[Disp(i)][s] # None /\ tm.opt[Disp(i)][s].real = a
  BY <1>1, <1>2 DEF Core, AgentsOK
<1> DEFINE m == tm.opt[Disp(i)][s]
<1>5. m.inst = i /\ m.slot = s BY <1>1, <1>2, <1>4 DEF Core, WhereSet
<1>6. m \in Stored(tm) BY <1>1, <1>4, StoredFacts, WindowFacts
<1> HIDE DEF m
<1>7. m.real = a BY <1>4 DEF m
<1>8. Shown(tm, m) BY <1>1, <1>5, <1>7 DEF Shown
<1>9. e[s] # None /\ e[s].tx = m.tx
  BY <1>1, <1>2, <1>5, <1>6, <1>8 DEF Core, ShownHeld
<1>10. \A o \in Slots : e[o] # None => /\ e[o] \in Held(tm, i, e) /\ e[o] \in Kept(tm, i, e)
                                       /\ e[o].slot = o
  BY <1>1, <1>2, HeldFacts DEF Kept, Core, SlotsOK, PadOK
<1>11. m \in Kept(tm, i, e) BY <1>6 DEF Kept
<1>12. \A k, n \in Kept(tm, i, e) : k.tx = n.tx => Twins(k, n)
  BY <1>2 DEF Core, Agree
<1>13. e[s].real = a BY <1>7, <1>9, <1>10, <1>11, <1>12 DEF Twins
<1>14. Live(tm, m) BY <1>1, <1>7, WindowFacts DEF Live
<1>15. ASSUME NEW o \in Slots \ {s}, e[o] # None, e[o].real = a PROVE FALSE
  <2>1. Meets(m, e[o]) BY <1>7, <1>15 DEF Meets
  <2>2. m.tx = e[o].tx BY <1>2, <1>10, <1>11, <1>14, <1>15, <2>1 DEF Core, One
  <2>3. Twins(m, e[o]) BY <1>10, <1>11, <1>12, <1>15, <2>2
  <2>4. QED BY <1>5, <1>10, <1>15, <2>3 DEF Twins
<1>16. QED BY <1>3, <1>9, <1>13, <1>15

\* Between two operations, an agent in the live process's window is the pane of
\* exactly one slot, from which it can be sent home.
THEOREM OwnedOnce == ASSUME ~Overlap, ~IdentityFaults PROVE Spec => []OneOwner
<1>1. Safe => OneOwner BY SafeOwner
<1>2. QED BY <1>1, SafeInvariance, PTL

-----------------------------------------------------------------------------
(* Who is not destroyed *)

\* The agents that t has in a window, u has in a window.
Lives(t, u) == \A a \in Agents : Alive(t, a) => Alive(u, a)

\* tmux's cleanup ends no agent: those away are in windows that are kept.
LEMMA SettleLives ==
    ASSUME NEW v \in ServerType, NEW a \in Agents, Alive(v, a),
           \A j \in Insts : v.at[a] = Disp(j) => v.keep[j]
    PROVE  Alive(Settle(v), a)
<1> DEFINE dead == {i \in Insts : \/ ~v.outer[i] /\ ~v.keep[i]
                                  \/ ~v.own[i] /\ PanesIn(v, Disp(i)) = {}}
<1>1. a \in Panes BY DEF Panes
<1>2. Settle(v).at = [p \in Panes |-> IF \E i \in dead : v.at[p] = Disp(i)
                                      THEN Gone ELSE v.at[p]]
  BY DEF Settle
<1>3. \A i \in dead : v.at[a] # Disp(i) BY <1>1 DEF PanesIn
<1>4. Settle(v).at[a] = v.at[a] BY <1>1, <1>2, <1>3
<1>5. QED BY <1>4 DEF Alive

LEMMA KillPadLives ==
    ASSUME NEW t \in ServerType, AgentsOK(t), NEW p \in Panes, NEW a \in Agents, a # p, Alive(t, a)
    PROVE  Alive(KillPane(t, p), a)
<1> DEFINE v == [t EXCEPT !.at[p] = Gone]
<1>1. v \in ServerType BY DEF ServerType
<1>2. v.at[a] = t.at[a] /\ v.keep = t.keep BY DEF ServerType, Panes
<1> HIDE DEF v
<1>3. Alive(v, a) BY <1>2 DEF Alive
<1>4. \A j \in Insts : v.at[a] = Disp(j) => v.keep[j] BY <1>2 DEF AgentsOK
<1>5. QED BY <1>1, <1>3, <1>4, SettleLives DEF KillPane, v

LEMMA KillSessionLives ==
    ASSUME NEW t \in ServerType, AgentsOK(t), NEW b, NEW a \in Agents, Alive(t, a),
           t.at[a] # HomeWin(t, b)
    PROVE  Alive(KillAgentSession(t, b), a)
<1> DEFINE v == [t EXCEPT !.at = [p \in Panes |-> IF t.at[p] = HomeWin(t, b)
                                                  THEN Gone ELSE t.at[p]]]
<1>1. v \in ServerType BY DEF ServerType
<1>2. v.at[a] = t.at[a] /\ v.keep = t.keep BY DEF ServerType, Panes
<1> HIDE DEF v
<1>3. Alive(v, a) BY <1>2 DEF Alive
<1>4. \A j \in Insts : v.at[a] = Disp(j) => v.keep[j] BY <1>2 DEF AgentsOK
<1>5. QED BY <1>1, <1>3, <1>4, SettleLives DEF KillAgentSession, v

LEMMA EndLives ==
    ASSUME NEW t \in ServerType, AgentsOK(t), NEW i \in Insts
    PROVE  Lives(t, KillOuter(t, i)) /\ Lives(t, OwnerDies(t, i))
<1>1. ASSUME NEW a \in Agents, Alive(t, a) PROVE Alive(KillOuter(t, i), a)
  <2> DEFINE v == [t EXCEPT !.outer[i] = FALSE]
  <2>1. v \in ServerType BY DEF ServerType
  <2>2. v.at = t.at /\ v.keep = t.keep BY DEF ServerType
  <2> HIDE DEF v
  <2>3. Alive(v, a) BY <1>1, <2>2 DEF Alive
  <2>4. \A j \in Insts : v.at[a] = Disp(j) => v.keep[j] BY <2>2 DEF AgentsOK
  <2>5. QED BY <2>1, <2>3, <2>4, SettleLives DEF KillOuter, v
<1>2. ASSUME NEW a \in Agents, Alive(t, a) PROVE Alive(OwnerDies(t, i), a)
  <2> DEFINE v == [t EXCEPT !.own[i] = FALSE]
  <2>1. v \in ServerType BY DEF ServerType
  <2>2. v.at = t.at /\ v.keep = t.keep BY DEF ServerType
  <2> HIDE DEF v
  <2>3. Alive(v, a) BY <1>2, <2>2 DEF Alive
  <2>4. \A j \in Insts : v.at[a] = Disp(j) => v.keep[j] BY <2>2 DEF AgentsOK
  <2>5. QED BY <2>1, <2>3, <2>4, SettleLives DEF OwnerDies, v
<1>3. QED BY <1>1, <1>2 DEF Lives

LEMMA KillKeeperLives ==
    ASSUME NEW t \in ServerType, AgentsOK(t), NEW i \in Insts, \A a \in Agents : t.at[a] # Disp(i)
    PROVE  Lives(t, KillKeeper(t, i))
<1>1. ASSUME NEW a \in Agents, Alive(t, a) PROVE Alive(KillKeeper(t, i), a)
  <2> DEFINE v == [t EXCEPT !.keep[i] = FALSE]
  <2>1. v \in ServerType BY DEF ServerType
  <2>2. v.at = t.at /\ \A j \in Insts \ {i} : v.keep[j] = t.keep[j] BY DEF ServerType
  <2> HIDE DEF v
  <2>3. Alive(v, a) BY <1>1, <2>2 DEF Alive
  <2>4. \A j \in Insts : v.at[a] = Disp(j) => v.keep[j] BY <2>2 DEF AgentsOK
  <2>5. QED BY <2>1, <2>3, <2>4, SettleLives DEF KillKeeper, v
<1>2. QED BY <1>1 DEF Lives

\* What a hard quit ends was at home.
LEMMA HardQuitLives ==
    ASSUME NEW t \in ServerType, AgentsOK(t), NEW i \in Insts, NEW a \in Agents, Alive(t, a),
           t.at[a] \notin HomeWindows
    PROVE  Alive(HardQuit(t, i), a)
<1> DEFINE v == [t EXCEPT !.own[i] = FALSE, !.outer[i] = FALSE,
                   !.at = [p \in Panes |-> IF t.at[p] \in HomeWindows
                                           THEN Gone ELSE t.at[p]]]
<1>1. v \in ServerType BY DEF ServerType
<1>2. v.at[a] = t.at[a] /\ v.keep = t.keep BY DEF ServerType, Panes
<1> HIDE DEF v
<1>3. Alive(v, a) BY <1>2 DEF Alive
<1>4. \A j \in Insts : v.at[a] = Disp(j) => v.keep[j] BY <1>2 DEF AgentsOK
<1>5. QED BY <1>1, <1>3, <1>4, SettleLives DEF HardQuit, v

\* Every command but the kills leaves the agents where they are, or in a window.
LEMMA CommandLives ==
    ASSUME NEW t \in ServerType
    PROVE  /\ Lives(t, t)
           /\ \A u : u.at = t.at => Lives(t, u)
           /\ \A w, s, v : Lives(t, SetOption(t, w, s, v))
           /\ \A w, s, x : Lives(t, ClearMatching(t, w, s, x))
           /\ \A i \in Insts : Lives(t, GroupKeeper(t, i)) /\ Lives(t, StartOuter(t, i))
           /\ \A p, o \in Panes : CanSwap(t, p, o) => Lives(t, SwapPanes(t, p, o))
           /\ HasFreshPad(t) => \A a \in Agents : Lives(t, NewDetachedSession(t, a))
<1>1. \A u : u.at = t.at => Lives(t, u) BY DEF Lives, Alive
<1>2. ASSUME NEW w, NEW s, NEW v PROVE SetOption(t, w, s, v).at = t.at
  BY DEF SetOption, ServerType
<1>3. ASSUME NEW w, NEW s, NEW x PROVE ClearMatching(t, w, s, x).at = t.at
  BY DEF ClearMatching, ServerType
<1>4. ASSUME NEW i \in Insts PROVE GroupKeeper(t, i).at = t.at /\ StartOuter(t, i).at = t.at
  BY DEF GroupKeeper, StartOuter, ServerType
<1>5. ASSUME NEW p \in Panes, NEW o \in Panes, CanSwap(t, p, o) PROVE Lives(t, SwapPanes(t, p, o))
  <2>1. \A r \in Panes : \/ SwapPanes(t, p, o).at[r] = t.at[r]
                         \/ SwapPanes(t, p, o).at[r] = t.at[p]
                         \/ SwapPanes(t, p, o).at[r] = t.at[o]
    BY DEF SwapPanes, ServerType
  <2>2. QED BY <1>5, <2>1 DEF Lives, Alive, CanSwap, Panes
<1>6. ASSUME HasFreshPad(t), NEW a \in Agents PROVE Lives(t, NewDetachedSession(t, a))
  <2>1. FreshPad(t) \in Pads BY <1>6 DEF HasFreshPad, FreshPad
  <2>2. \A b \in Agents : NewDetachedSession(t, a).at[b] = t.at[b]
    BY <2>1, PanesAssumption DEF NewDetachedSession, ServerType, Panes
  <2>3. QED BY <2>2 DEF Lives, Alive
<1>7. QED BY <1>1, <1>2, <1>3, <1>4, <1>5, <1>6

\* An agent whose session's one pane is a placeholder is not at home.
LEMMA PadAlone ==
    ASSUME NEW t \in ServerType, NEW b, NEW p \in Pads, SingleLivePane(t, b) = p, NEW a \in Agents
    PROVE  t.at[a] # HomeWin(t, b)
<1>1. p # None BY PanesAssumption DEF Panes
<1>2. a \in Panes /\ a # p BY PanesAssumption DEF Panes
<1>3. QED BY <1>1, <1>2, SinglePane

LEMMA PadKills ==
    ASSUME NEW t \in ServerType, AgentsOK(t)
    PROVE  /\ \A p \in Pads : Lives(t, KillPane(t, p))
           /\ \A b : \A p \in Pads : SingleLivePane(t, b) = p => Lives(t, KillAgentSession(t, b))
<1>1. ASSUME NEW p \in Pads PROVE Lives(t, KillPane(t, p))
  <2>1. p \in Panes /\ \A a \in Agents : a # p BY PanesAssumption DEF Panes
  <2>2. QED BY <2>1, KillPadLives DEF Lives
<1>2. ASSUME NEW b, NEW p \in Pads, SingleLivePane(t, b) = p PROVE Lives(t, KillAgentSession(t, b))
  BY <1>2, PadAlone, KillSessionLives DEF Lives
<1>3. QED BY <1>1, <1>2

LEMMA ShowLives ==
    ASSUME IInv, NEW s \in Slots, slots[s].st = None, NEW what, Show(s, what)
    PROVE  Lives(tm, tm')
<1>1. tm \in ServerType /\ slots \in [Slots -> SlotType] /\ app.inst \in Insts
  BY StateTypes
<1>2. slots[s].pane \notin Agents BY DEF IInv, SlotsInv
<1>3. CASE PaneReady(s)
  <2>1. tm' = [tm EXCEPT !.shows[slots[s].pane] = what] BY <1>2, <1>3 DEF Show, RespawnPane
  <2>2. tm'.at = tm.at BY <1>1, <2>1 DEF ServerType
  <2>3. QED BY <1>1, <2>2, CommandLives
<1>4. CASE ~PaneReady(s)
  <2>1. tm' = [SplitWindow(tm, app.inst) EXCEPT !.shows[FreshPad(tm)] = what] /\ HasFreshPad(tm)
    BY <1>4 DEF Show
  <2>2. FreshPad(tm) \in Pads BY <2>1 DEF HasFreshPad, FreshPad
  <2>3. tm'.at = [tm.at EXCEPT ![FreshPad(tm)] = Disp(app.inst)]
    BY <1>1, <2>1 DEF SplitWindow, ServerType
  <2>4. \A b \in Agents : tm'.at[b] = tm.at[b]
    BY <1>1, <2>2, <2>3, PanesAssumption DEF ServerType, Panes
  <2>5. QED BY <2>4 DEF Lives, Alive
<1>5. QED BY <1>3, <1>4

LEMMA WriteLives ==
    ASSUME IInv, NEW m, NEW ok, NEW failed, WriteHome(m, ok, failed) \/ WriteDisplay(m, ok, failed)
    PROVE  Lives(tm, tm')
BY StateTypes, CommandLives DEF WriteHome, WriteDisplay

LEMMA SwapLives ==
    ASSUME IInv, NEW m \in SwapState, NEW ok, NEW failed, Swap(m, ok, failed)
    PROVE  Lives(tm, tm')
BY StateTypes, StateFacts, CommandLives DEF Swap

LEMMA ClearLives ==
    ASSUME IInv, NEW m, NEW w, Clear(m, w) PROVE Lives(tm, tm')
BY StateTypes, CommandLives DEF Clear

LEMMA DropLives ==
    ASSUME IInv, IInv', Away, AppUp, DropKeeperIfIdle(slots), app.at \notin TxLabels
    PROVE  Lives(tm, tm')
<1>1. tm \in ServerType /\ app.inst \in Insts /\ AgentsOK(tm) BY AppFacts
<1>2. UNCHANGED tm \/ (NoSwaps(slots) /\ tm' = KillKeeper(tm, app.inst))
  BY DEF DropKeeperIfIdle
<1>3. NoSwaps(slots) => \A a \in Agents : tm.at[a] # Disp(app.inst) BY NoneShown
<1>4. QED BY <1>1, <1>2, <1>3, KillKeeperLives, CommandLives

LEMMA QuitLives ==
    ASSUME Safe, Bye, NEW a \in Agents, Alive(tm, a), ~Alive(tm', a)
    PROVE  tm.at[a] = HomeWin(tm, a)
<1>1. /\ tm \in ServerType /\ app.inst \in Insts /\ AgentsOK(tm)
      /\ PlacesOK(tm, app.inst) /\ Current(tm)
  BY StateTypes, CoreParts DEF Safe, Away
<1>2. tm' = HardQuit(tm, app.inst) \/ tm' = OwnerDies(tm, app.inst) BY DEF Bye, HardQuit
<1>3. tm' = HardQuit(tm, app.inst) BY <1>1, <1>2, EndLives DEF Lives
<1>4. tm.at[a] \in HomeWindows BY <1>1, <1>3, HardQuitLives
<1>5. tm.at[a] \in Home(a)
  <2>1. PICK b \in Agents : tm.at[a] \in Home(b) BY <1>4 DEF HomeWindows, Home
  <2>2. tm.at[a] \in Reach(a) BY <1>1 DEF PlacesOK, Reach
  <2>3. QED BY <2>1, <2>2, ReachFacts
<1>6. QED BY <1>1, <1>5 DEF Current, Panes

LEMMA AppLives ==
    ASSUME Safe, IInv', AppStep PROVE Lives(tm, tm') \/ Bye \/ \E a \in Agents : KillSession(a)
<1>1. /\ tm \in ServerType /\ app.inst \in Insts /\ slots \in [Slots -> SlotType]
      /\ IInv /\ Away /\ AgentsOK(tm)
  BY StateTypes, CoreParts DEF Safe, Away
<1>2. /\ app.at \in StLabels => app.st \in SwapState
      /\ app.at \in StLabels \cup FreeLabels => app.slot \in Slots
      /\ app.at \in FreeLabels => slots[app.slot].st = None
      /\ \A s \in Slots : slots[s].st = None => slots[s].pane \notin Agents
  BY <1>1 DEF IInv, AppInv, SlotsInv
<1>3. UNCHANGED tm => Lives(tm, tm') BY <1>1, CommandLives
<1>4. CASE CheckHome \/ VerifyHome \/ Gate \/ Inspect \/ Verify \/ VerifyBack
  BY <1>3, <1>4 DEF CheckHome, VerifyHome, Gate, Inspect, Verify, VerifyBack
<1>5. CASE MarkReturningHome \/ MarkReturningDisplay \/ Prepare1 \/ Prepare2 \/ Commit1 \/ Commit2
  BY <1>1, <1>5, WriteLives
  DEF MarkReturningHome, MarkReturningDisplay, Prepare1, Prepare2, Commit1, Commit2
<1>6. CASE SwapHome \/ SwapOut \/ SwapBack
  <2>1. app.st \in SwapState
    BY <1>2, <1>6 DEF SwapHome, SwapOut, SwapBack, At, StLabels
  <2>2. QED BY <1>1, <1>6, <2>1, SwapLives DEF SwapHome, SwapOut, SwapBack
<1>7. CASE ClearMarker BY <1>1, <1>7, ClearLives DEF ClearMarker
<1>8. CASE AfterHome \/ ExitDropsKeeper
  <2>1. AppUp /\ app.at \notin TxLabels /\ (UNCHANGED tm \/ DropKeeperIfIdle(slots))
    BY <1>8 DEF AfterHome, ExitDropsKeeper, At, TxLabels
  <2>2. QED BY <1>1, <1>3, <2>1, DropLives
<1>9. CASE Place \/ Nested \/ Blank
  <2>1. app.slot \in Slots /\ slots[app.slot].st = None
    BY <1>2, <1>9 DEF Place, Nested, Blank, At, FreeLabels
  <2>2. QED BY <1>1, <1>3, <1>9, <2>1, ShowLives DEF Place, Nested, Blank
<1>10. CASE Keeper BY <1>1, <1>3, <1>10, CommandLives DEF Keeper
<1>11. CASE ClosePane \/ CloseAll
  <2>1. \/ UNCHANGED tm
        \/ \E s \in Slots : /\ slots[s].st = None /\ slots[s].pane # None
                            /\ tm' = KillPane(tm, slots[s].pane)
    <3>1. CASE ClosePane
      <4>1. app.slot \in Slots /\ slots[app.slot].st = None
        BY <1>2, <3>1 DEF ClosePane, At, FreeLabels
      <4>2. QED BY <3>1, <4>1 DEF ClosePane, PaneReady
    <3>2. CASE CloseAll BY <3>2 DEF CloseAll, ToClose
    <3>3. QED BY <1>11, <3>1, <3>2
  <2>2. \A s \in Slots : slots[s].st = None /\ slots[s].pane # None => slots[s].pane \in Pads
    BY <1>1, <1>2 DEF SlotType, Panes
  <2>3. QED BY <1>1, <1>3, <2>1, <2>2, PadKills
<1>12. QED
  BY <1>4, <1>5, <1>6, <1>7, <1>8, <1>9, <1>10, <1>11 DEF AppStep, AttachStep

LEMMA RecoverLives ==
    ASSUME Safe, IInv', NEW r \in Recoverers, RecoverStep(r) PROVE Lives(tm, tm')
<1>1. /\ tm \in ServerType /\ app.inst \in Insts /\ rec[r] \in RecType
      /\ rec[r].at \in RecStLabels => rec[r].st \in SwapState
      /\ IInv /\ Away /\ AgentsOK(tm)
  BY StateTypes, CoreParts DEF Safe, Away
<1>2. UNCHANGED tm => Lives(tm, tm') BY <1>1, CommandLives
<1>3. CASE RecoverOne(r)
  <2>1. PICK m \in rec[r].rows :
          \/ UNCHANGED tm
          \/ HasFreshPad(tm) /\ tm' = NewDetachedSession(tm, m.agent)
          \/ SingleLivePane(tm, m.agent) = m.ph /\ tm' = KillAgentSession(tm, m.agent)
    BY <1>3 DEF RecoverOne
  <2>2. m \in SwapState /\ m.agent \in Agents BY <1>1, StateFacts DEF RecType
  <2>3. m \in Rows(tm, app, rec) BY DEF Rows, RowsOf
  <2>4. m.ph \in Pads BY <2>3 DEF Safe, Away, Core, RecordsOK, RecordOK
  <2>5. QED BY <1>1, <1>2, <2>1, <2>2, <2>4, PadKills, CommandLives
<1>4. CASE RecoverList(r) \/ RecoverObserve(r) \/ RecoverVerify(r)
  BY <1>2, <1>4 DEF RecoverList, RecoverObserve, RecoverVerify
<1>5. CASE RecoverMark1(r) \/ RecoverMark2(r)
  BY <1>1, <1>5, WriteLives DEF RecoverMark1, RecoverMark2
<1>6. CASE RecoverSwap(r)
  <2>1. rec[r].st \in SwapState BY <1>1, <1>6 DEF RecoverSwap, RecStLabels
  <2>2. QED BY <1>1, <1>6, <2>1, SwapLives DEF RecoverSwap
<1>7. CASE RecoverClear(r) BY <1>1, <1>7, ClearLives DEF RecoverClear
<1>8. CASE RecoverKeepers(r)
  <2>1. rec[r].all \subseteq Insts BY <1>1 DEF RecType
  <2>2. \/ UNCHANGED tm
        \/ \E i \in rec[r].all \ rec[r].inuse : tm' = KillKeeper(tm, i)
    BY <1>8 DEF RecoverKeepers
  <2>3. rec[r].rows = {} /\ rec[r].at # "off" BY <1>8 DEF RecoverKeepers
  <2>4. LauncherOK(tm, rec[r]) BY <2>3 DEF Safe, Away, RecOK
  <2>5. ASSUME NEW i \in rec[r].all \ rec[r].inuse, NEW a \in Agents
        PROVE  tm.at[a] # Disp(i)
    <3>1. i \in Insts BY <2>1
    <3>2. ~tm.own[i] BY <2>3, <2>4, <3>1 DEF LauncherOK
    <3>3. QED BY <2>3, <2>4, <3>1, <3>2 DEF LauncherOK
  <2>6. QED BY <1>1, <1>2, <2>1, <2>2, <2>5, KillKeeperLives
<1>9. CASE RecoverOuters(r)
  <2>1. rec[r].stale \subseteq Insts BY <1>1 DEF RecType
  <2>2. UNCHANGED tm \/ \E i \in rec[r].stale : tm' = KillOuter(tm, i)
    BY <1>9 DEF RecoverOuters
  <2>3. QED BY <1>1, <1>2, <2>1, <2>2, EndLives
<1>10. CASE Launch(r)
  <2>1. UNCHANGED tm \/ (app.inst < MaxInst /\ tm' = StartOuter(tm, app.inst + 1))
    BY <1>10 DEF Launch
  <2>2. app.inst < MaxInst => app.inst + 1 \in Insts BY <1>1, BoundsAssumption DEF Insts
  <2>3. QED BY <1>1, <1>2, <2>1, <2>2, CommandLives
<1>11. QED
  BY <1>3, <1>4, <1>5, <1>6, <1>7, <1>8, <1>9, <1>10 DEF RecoverStep

\* The steps that end a pane: what they aim at is no agent (PadKills,
\* ShowLives), a window without agents (DropLives), or the session of the very
\* agent.
LEMMA NextNeverDestroyed ==
    ASSUME Safe, IInv', [Next]_vars, NEW a \in Agents, Alive(tm, a), ~Alive(tm', a)
    PROVE  \/ AgentExits(a)
           \/ tm.at[a] = HomeWin(tm, a) /\ (UserKillsSession(a) \/ KillSession(a) \/ Bye)
<1>1. /\ tm \in ServerType /\ app.inst \in Insts /\ PlacesOK(tm, app.inst)
      /\ slots \in [Slots -> SlotType] /\ IInv /\ AgentsOK(tm)
  BY StateTypes, CoreParts DEF Safe, Away
<1>2. ~Lives(tm, tm') BY DEF Lives
<1>3. \A b \in Agents : tm' = KillAgentSession(tm, b) => a = b /\ tm.at[a] = HomeWin(tm, a)
  <2>1. ASSUME NEW b \in Agents, tm' = KillAgentSession(tm, b)
        PROVE  a = b /\ tm.at[a] = HomeWin(tm, a)
    <3>1. tm.at[a] = HomeWin(tm, b) BY <1>1, <2>1, KillSessionLives
    <3>2. tm.at[a] \in Home(b) BY <1>1, <3>1, HomeWinFacts
    <3>3. tm.at[a] \in Reach(a) BY <1>1 DEF PlacesOK, Reach
    <3>4. a = b BY <3>2, <3>3, ReachFacts
    <3>5. QED BY <3>1, <3>4
  <2>2. QED BY <2>1
<1>4. UNCHANGED tm => Lives(tm, tm') BY <1>1, CommandLives
<1>5. CASE Request BY <1>2, <1>4, <1>5 DEF Request, Attach, Vacate, Kill, Leave
<1>6. CASE Refresh
  <2>1. \/ UNCHANGED tm
        \/ \E s \in Slots : /\ slots[s].st # None
                            /\ SingleLivePane(tm, slots[s].st.agent) = slots[s].st.ph
                            /\ tm' = KillAgentSession(tm, slots[s].st.agent)
    BY <1>6 DEF Refresh, ReapDead, ExternalClient
  <2>2. \A s \in Slots : slots[s].st # None => slots[s].st.ph \in Pads
    BY <1>1 DEF IInv, SlotsInv
  <2>3. Lives(tm, tm') BY <1>1, <1>4, <2>1, <2>2, PadKills
  <2>4. QED BY <1>2, <2>3
<1>7. CASE AppStep
  <2>1. Bye \/ \E b \in Agents : KillSession(b) BY <1>2, <1>7, AppLives
  <2>2. CASE Bye BY <2>2, QuitLives
  <2>3. CASE \E b \in Agents : KillSession(b)
    <3>1. PICK b \in Agents : KillSession(b) BY <2>3
    <3>2. tm' = KillAgentSession(tm, b) BY <1>2, <1>4, <3>1 DEF KillSession
    <3>3. QED BY <1>3, <3>1, <3>2
  <2>4. QED BY <2>1, <2>2, <2>3
<1>8. CASE \E r \in Recoverers : RecoverStep(r) BY <1>2, <1>8, RecoverLives
<1>9. CASE Environment
  <2>1. CASE \E b \in Agents : AgentExits(b)
    <3>1. PICK b \in Agents : AgentExits(b) BY <2>1
    <3>2. tm' = KillPane(tm, b) /\ b \in Panes BY <3>1 DEF AgentExits, Panes
    <3>3. a = b BY <1>1, <3>2, KillPadLives
    <3>4. QED BY <3>1, <3>3
  <2>2. CASE \E b \in Agents : UserAttaches(b)
    <3>1. tm'.at = tm.at BY <1>1, <2>2 DEF UserAttaches, ServerType
    <3>2. QED BY <1>1, <1>2, <3>1, CommandLives
  <2>3. CASE \E b \in Agents : UserKillsSession(b)
    BY <1>3, <2>3 DEF UserKillsSession
  <2>4. CASE \E i \in Insts : UserKillsOuter(i)
    BY <1>1, <1>2, <2>4, EndLives DEF UserKillsOuter
  <2>5. CASE \E p \in Pads : NestedClientEnds(p)
    BY <1>1, <1>2, <2>5, PadKills DEF NestedClientEnds
  <2>6. CASE AppKilled BY <1>1, <1>2, <2>6, EndLives DEF AppKilled
  <2>7. CASE \E r \in Recoverers : RecovererKilled(r)
    BY <1>2, <1>4, <2>7 DEF RecovererKilled
  <2>8. QED BY <1>9, <2>1, <2>2, <2>3, <2>4, <2>5, <2>6, <2>7 DEF Environment
<1>10. CASE UNCHANGED vars BY <1>2, <1>4, <1>10 DEF vars
<1>11. QED BY <1>5, <1>6, <1>7, <1>8, <1>9, <1>10 DEF Next

\* No step of Railmux or of a recovery ends an agent that is not asked to end: an
\* agent ends by itself, or at home, with its session, when the user kills
\* that session or quits hard.
THEOREM NoneDestroyed == ASSUME ~Overlap, ~IdentityFaults PROVE Spec => NeverDestroyed
<1>1. Safe /\ Safe' /\ [Next]_vars =>
        [\A a \in Agents :
           Alive(tm, a) /\ ~Alive(tm', a) =>
              \/ AgentExits(a)
              \/ tm.at[a] = HomeWin(tm, a)
                 /\ (UserKillsSession(a) \/ KillSession(a) \/ Bye)]_vars
  <2>1. Safe' => IInv' BY DEF Safe
  <2>2. QED BY <2>1, NextNeverDestroyed
<1>2. QED BY <1>1, SafeInvariance, PTL DEF Spec, NeverDestroyed

=============================================================================
