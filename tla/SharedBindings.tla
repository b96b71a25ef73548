--------------------------- MODULE SharedBindings ---------------------------
(***************************************************************************)
(* The lease on tmux's server-global key bindings that the Railmux          *)
(* processes of one server share: src/railmux/tmux_binding_manager.py, and   *)
(* the bindings of tmux_ctl.py that it installs and restores.               *)
(*                                                                         *)
(* Every process takes a non-blocking file lock, reads the state file and   *)
(* the bindings, and changes them one command or one write at a time.  A    *)
(* process may be killed between any two of these; the lock is then free.   *)
(*                                                                         *)
(* Simplifications: a binding is a user's (the number of the configuration  *)
(* that set it) or a wrapper, which carries the lease's token and replays   *)
(* the user's outside Railmux windows; an owner stays in its window; dead   *)
(* owners are pruned in one step, and the options they leave are unset      *)
(* without failure; the versions 1 to 4 of the state file are one old       *)
(* version without the optional bindings; a file always decodes; cleanup of *)
(* selection markers is left out.                                           *)
(***************************************************************************)
EXTENDS Naturals, FiniteSets

CONSTANTS
    Railmuxes,      \* the panes in which Railmux runs
    None,
    WindowOf,       \* pane -> its window
    Core,           \* F8 and F9: without them there is no lease
    Optional,       \* prefix Tab, right click, selection hook, status click
    Hooks,          \* those whose failed query is told from an absent one
    Tokens,         \* the random tokens that tell one lease from another
    MaxReloads,     \* bound on reloads of the user's configuration
    MaxFaults,      \* bound on failed writes, commands and rounds of queries
    RacingReload,   \* a reload may fall inside a transaction
    Kills,          \* a process may be killed
    PaneOutlives    \* a pane may outlive the process that ran in it

ASSUME KeysAssumption == Core \cap Optional = {} /\ Hooks \subseteq Optional
Keys == Core \cup Optional
Windows == {WindowOf[p] : p \in Railmuxes}

\* A user's binding is the number of the configuration that set it.
Unbound == 0
Users == Unbound..MaxReloads
Lease == [token : Tokens, phase : {"installing", "active"}, old : BOOLEAN,
          owners : SUBSET Railmuxes, backup : [Keys -> Users],
          managed : SUBSET Optional]

ASSUME NoneAssumption == None \notin Railmuxes \cup Tokens \cup Lease
ASSUME LimitsAssumption == MaxReloads \in Nat /\ MaxFaults \in Nat

VARIABLES
    misread,  \* the bound keys that a failed query passed off as unbound
    lost,     \* the keys whose restoring command failed
    key,      \* key -> its binding: token of the wrapper or None, user's binding
    file,     \* the state file
    opt,      \* window -> @railmux_controller_pane
    lock,     \* the holder of the lock
    pane,     \* pane -> not yet there, live or dead
    proc,     \* pane -> its process: label and locals of open and close
    want,     \* key -> the binding the user configured last
    reloads,  \* reloads so far
    faults    \* failures so far

vars == <<misread, lost, key, file, opt, lock, pane, proc, want, reloads, faults>>

Free(n) == [tok |-> None, val |-> n]
Wrapper(st, k) == [tok |-> st.token, val |-> st.backup[k]]
Managed(st) == Core \cup st.managed

NoProcess == [at |-> "off", st |-> None, live |-> {}, todo |-> {},
              bad |-> {}, fresh |-> FALSE, reg |-> FALSE, then |-> "none"]

\* A file may be left by an older version, killed while or after it installed.
Old(t, ph) == [token |-> t, phase |-> ph, old |-> TRUE, owners |-> {},
               backup |-> [k \in Keys |-> Unbound], managed |-> {}]

Init ==
    /\ \/ file = None /\ key = [k \in Keys |-> Free(Unbound)]
       \/ \E t \in Tokens, S \in SUBSET Core :
             /\ \/ file = Old(t, "installing")
                \/ S = Core /\ file = Old(t, "active")
             /\ key = [k \in Keys |-> [tok |-> IF k \in S THEN t ELSE None,
                                       val |-> Unbound]]
    /\ opt = [w \in Windows |-> None]
    /\ lock = None
    /\ pane = [p \in Railmuxes |-> "unborn"]
    /\ proc = [p \in Railmuxes |-> NoProcess]
    /\ want = [k \in Keys |-> Unbound]
    /\ reloads = 0 /\ faults = 0 /\ lost = {} /\ misread = {}

Live == {p \in Railmuxes : pane[p] = "live"}
Fault == faults < MaxFaults /\ faults' = faults + 1
NoFault == UNCHANGED faults

At(p, l) == proc[p].at = l
Goto(p, l) == proc' = [proc EXCEPT ![p].at = l]
GotoWith(p, l, st) == proc' = [proc EXCEPT ![p].at = l, ![p].st = st]

\* The lock is given up: open or close is over.
Over(p, l, r) ==
    /\ proc' = [proc EXCEPT ![p] = [NoProcess EXCEPT !.at = l, !.reg = r]]
    /\ lock' = None
Refused(p) == Over(p, "up", FALSE)

\* Mutant: only F8 and F9 are restored.
MutRestoreThen(p, st, then) ==
    proc' = [proc EXCEPT ![p].at = "restore", ![p].st = st,
                         ![p].todo = Core, ![p].then = then]
\* Undo the lease: restore the bindings, remove the file, go on with then.
RestoreThen(p, st, then) ==
    proc' = [proc EXCEPT ![p].at = "restore", ![p].st = st,
                         ![p].todo = Managed(st), ![p].then = then]

-----------------------------------------------------------------------------
(* The lease *)

\* _read_key_binding with the failed queries S: it takes a key that it cannot
\* read for unbound.
Read(S, k) == IF k \in S THEN Free(Unbound) ELSE key[k]
Asked(S) == (S = {} /\ NoFault) \/ (S # {} /\ Fault)
Mistaken(S) == {k \in S : key[k].val # Unbound}

\* Mutant: a key the user rebound meanwhile passes for the original.
MutSafe(st, S) == TRUE
\* The interrupted install may be completed: each key is as it was or ours.
Safe(st, S) ==
    \A k \in Managed(st) :
        /\ k \notin S \cap Hooks
        /\ Read(S, k) = Free(st.backup[k]) \/ Read(S, k).tok = st.token

Owned(st, S) == \A k \in Managed(st) : Read(S, k).tok = st.token

\* What open asks of the lease: to be fit for repair or to be in force.
Good(st, S) == IF st.phase = "installing" THEN Safe(st, S) ELSE Owned(st, S)

Pruned(st, live) == [st EXCEPT !.owners = @ \cap live]

\* Mutant: the options of all owners are cleared.
MutPrunedOptions(st, live) ==
    [w \in Windows |-> IF opt[w] \in st.owners THEN None ELSE opt[w]]
\* The controller options of dead owners are cleared.
PrunedOptions(st, live) ==
    [w \in Windows |->
        IF opt[w] \in st.owners \ live /\ WindowOf[opt[w]] = w
        THEN None ELSE opt[w]]

\* unset_window_user_option_if_value
Unset(o, p) == IF o[WindowOf[p]] = p
               THEN [o EXCEPT ![WindowOf[p]] = None] ELSE o

\* The option goes to another owner in the window of p, if there is one.
HandedOver(o, others, p) ==
    LET heirs == {q \in others : WindowOf[q] = WindowOf[p]}
    IN  IF heirs = {} THEN {o}
        ELSE {[o EXCEPT ![WindowOf[p]] = q] : q \in heirs}

Wrappable(S, k) == Read(S, k).tok = None
\* Mutant: F8 and F9 are listed among the optional keys.
MutOptionals(S) == {k \in Keys : Wrappable(S, k)}
\* Those that can be taken in; open declines more, such as a repeating Tab.
Optionals(S) == {k \in Optional \ (S \cap Hooks) : Wrappable(S, k)}

-----------------------------------------------------------------------------
(* open *)

\* The lock is free; a busy one makes open return at once.
Open(p) ==
    /\ At(p, "up") /\ ~proc[p].reg /\ lock = None
    /\ lock' = p
    /\ proc' = [proc EXCEPT ![p].live = Live, ![p].st = file,
                  ![p].at = IF file = None THEN "prepare"
                            ELSE IF file.old THEN "upgrade" ELSE "decide"]
    /\ UNCHANGED <<misread, lost, key, file, opt, pane, want, reloads, faults>>

\* A lease of an older version takes in optional bindings m.
Upgraded(st, m, S) ==
    [st EXCEPT !.old = FALSE, !.phase = "installing", !.managed = m,
               !.backup = [k \in Keys |->
                             IF k \in m THEN Read(S, k).val ELSE @[k]]]
Upgrade(p) ==
    /\ At(p, "upgrade")
    /\ \/ \E S \in SUBSET Optional : \E m \in SUBSET Optionals(S) :
            LET st == Upgraded(proc[p].st, m, S)
            IN  /\ file' = st /\ Asked(S) /\ GotoWith(p, "decide", st)
                /\ misread' = misread \cup Mistaken(S \cap m)
                /\ UNCHANGED lock
       \/ Fault /\ Refused(p) /\ UNCHANGED <<misread, file>>
    /\ UNCHANGED <<lost, key, opt, pane, want, reloads>>

\* Dead owners are pruned; an install left unfinished is finished, an active
\* lease is joined, and one whose keys the user took back is undone.
Decide(p) ==
    /\ At(p, "decide")
    /\ opt' = PrunedOptions(proc[p].st, proc[p].live)
    /\ \E S \in SUBSET Keys :
         LET st == Pruned(proc[p].st, proc[p].live)
         IN  /\ Asked(S)
             /\ \/ /\ Good(st, S) /\ st.phase = "installing"
                   /\ proc' = [proc EXCEPT ![p].at = "set", ![p].st = st,
                                 ![p].todo = Managed(st), ![p].fresh = FALSE]
                   /\ misread' = misread \cup Mistaken(S \cap Managed(st))
                \/ /\ Good(st, S) /\ st.phase = "active"
                   /\ GotoWith(p, "join", st) /\ UNCHANGED misread
                \/ /\ ~Good(st, S) /\ st.owners = {}
                   /\ RestoreThen(p, st, "prepare") /\ UNCHANGED misread
    /\ UNCHANGED <<lost, key, file, lock, pane, want, reloads>>

\* The keys are not as they should be, or cannot be read, and an owner lives.
FailClosed(p) ==
    /\ At(p, "decide")
    /\ \E S \in SUBSET Keys :
         LET st == Pruned(proc[p].st, proc[p].live)
         IN  Asked(S) /\ st.owners # {} /\ ~Good(st, S)
    /\ opt' = PrunedOptions(proc[p].st, proc[p].live)
    /\ Refused(p)
    /\ UNCHANGED <<misread, lost, key, file, pane, want, reloads>>

Unused(t) ==
    (\A k \in Keys : key[k].tok # t) /\ (file # None => file.token # t)

\* A new lease is saved before any key is bound.  A key that could not be read
\* gets the backup of an unbound one.
Prepare(p) ==
    /\ At(p, "prepare")
    /\ \/ \E S \in SUBSET Keys, t \in Tokens :
          /\ Unused(t) /\ \A k \in Core : Wrappable(S, k)
          /\ \E m \in SUBSET Optionals(S) :
               LET ours == Core \cup m
                   st   == [token |-> t, phase |-> "installing", old |-> FALSE,
                            owners |-> {p}, managed |-> m,
                            backup |-> [k \in Keys |-> IF k \in ours
                                          THEN Read(S, k).val ELSE Unbound]]
               IN  /\ file' = st /\ Asked(S) /\ UNCHANGED lock
                   /\ proc' = [proc EXCEPT ![p].at = "set", ![p].st = st,
                                 ![p].todo = ours, ![p].fresh = TRUE]
                   /\ misread' = misread \cup Mistaken(S \cap ours)
       \/ Fault /\ Refused(p) /\ UNCHANGED <<misread, file>>
    /\ UNCHANGED <<lost, key, opt, pane, want, reloads>>

\* F8 or F9 carries another lease's wrapper.
Decline(p) ==
    /\ At(p, "prepare") /\ \E k \in Core : ~Wrappable({}, k)
    /\ Refused(p)
    /\ UNCHANGED <<misread, lost, key, file, opt, pane, want, reloads, faults>>

\* The next keys to bind: F8 and F9 come first.
FirstKeys(p) == IF Core \cap proc[p].todo # {} THEN Core \cap proc[p].todo
                ELSE proc[p].todo

\* One bind-key.  Without F8 and F9 a new lease is undone and an older one
\* left for the next process; another key is dropped from the lease.
SetKey(p, k) ==
    LET st == proc[p].st
    IN  /\ At(p, "set") /\ k \in FirstKeys(p)
        /\ \/ /\ key' = [key EXCEPT ![k] = Wrapper(st, k)]
              /\ proc' = [proc EXCEPT ![p].todo = @ \ {k}]
              /\ NoFault /\ UNCHANGED lock
           \/ /\ Fault /\ UNCHANGED key
              /\ \/ /\ k \in Core /\ proc[p].fresh
                    /\ RestoreThen(p, st, "up") /\ UNCHANGED lock
                 \/ k \in Core /\ ~proc[p].fresh /\ Refused(p)
                 \/ /\ k \in Optional /\ UNCHANGED lock
                    /\ proc' = [proc EXCEPT ![p].at = "undo", ![p].bad = {k}]
        /\ UNCHANGED <<misread, lost, file, opt, pane, want, reloads>>

\* Only a wrapper of this lease is replaced.
Restored(st, k) == IF key[k].tok = st.token THEN Free(st.backup[k]) ELSE key[k]

\* The command or the query before it may fail, and no one looks at the result.
Restore(p, k) ==
    \/ /\ key' = [key EXCEPT ![k] = Restored(proc[p].st, k)]
       /\ NoFault /\ UNCHANGED lost
    \/ /\ Fault /\ UNCHANGED key
       /\ lost' = IF key[k].tok = proc[p].st.token THEN lost \cup {k} ELSE lost

\* The key that could not be bound may carry an earlier wrapper of the lease.
Undo(p) ==
    /\ At(p, "undo")
    /\ \E k \in proc[p].bad :
         /\ Restore(p, k)
         /\ proc' = [proc EXCEPT ![p].at = "drop", ![p].bad = {},
                       ![p].todo = @ \ {k}, ![p].st.managed = @ \ {k}]
    /\ UNCHANGED <<misread, file, opt, lock, pane, want, reloads>>

\* A save by which open goes on; failing, it undoes a new lease.
Save(p, st, ok) ==
    \/ file' = st /\ ok /\ NoFault /\ UNCHANGED lock
    \/ /\ Fault /\ UNCHANGED file
       /\ \/ proc[p].fresh /\ RestoreThen(p, st, "up") /\ UNCHANGED lock
          \/ ~proc[p].fresh /\ Refused(p)

Drop(p) ==
    /\ At(p, "drop")
    /\ Save(p, proc[p].st, Goto(p, "set"))
    /\ UNCHANGED <<misread, lost, key, opt, pane, want, reloads>>

\* Every key is bound: a new lease is saved as active, an older one is
\* active in memory until it is joined.
Activate(p) ==
    /\ At(p, "set") /\ proc[p].todo = {}
    /\ LET st == [proc[p].st EXCEPT !.phase = "active"]
       IN  \/ /\ proc[p].fresh
              /\ Save(p, st, GotoWith(p, "control", st))
           \/ /\ ~proc[p].fresh /\ GotoWith(p, "join", st)
              /\ UNCHANGED <<file, lock, faults>>
    /\ UNCHANGED <<misread, lost, key, opt, pane, want, reloads>>

\* The controller option of a new lease's window.
Control(p) ==
    /\ At(p, "control")
    /\ \/ /\ opt' = [opt EXCEPT ![WindowOf[p]] = p]
          /\ Over(p, "up", TRUE) /\ NoFault
       \/ /\ Fault /\ RestoreThen(p, proc[p].st, "up")
          /\ UNCHANGED <<opt, lock>>
    /\ UNCHANGED <<misread, lost, key, file, pane, want, reloads>>

Join(p) ==
    /\ At(p, "join")
    /\ \/ /\ opt' = [opt EXCEPT ![WindowOf[p]] = p]
          /\ Goto(p, "joined") /\ NoFault /\ UNCHANGED lock
       \/ Fault /\ Refused(p) /\ UNCHANGED opt
    /\ UNCHANGED <<misread, lost, key, file, pane, want, reloads>>

\* The save by which a process joins; failing, it gives the option back.
Joined(p) ==
    LET st == proc[p].st
    IN  /\ At(p, "joined")
        /\ \/ /\ file' = [st EXCEPT !.owners = @ \cup {p}]
              /\ Over(p, "up", TRUE) /\ NoFault /\ UNCHANGED opt
           \/ /\ Fault /\ Refused(p) /\ UNCHANGED file
              /\ opt' \in HandedOver(Unset(opt, p), st.owners, p)
        /\ UNCHANGED <<misread, lost, key, pane, want, reloads>>

-----------------------------------------------------------------------------
(* Undoing a lease *)

RestoreKey(p, k) ==
    /\ At(p, "restore") /\ k \in proc[p].todo
    /\ Restore(p, k)
    /\ proc' = [proc EXCEPT ![p].todo = @ \ {k}]
    /\ UNCHANGED <<misread, file, opt, lock, pane, want, reloads>>

\* _remove_state, whose failure goes unnoticed.
Remove(p) ==
    /\ At(p, "restore") /\ proc[p].todo = {}
    /\ \/ file' = None /\ NoFault
       \/ UNCHANGED file /\ Fault
    /\ \/ proc[p].then = "prepare" /\ Goto(p, "prepare") /\ UNCHANGED lock
       \/ proc[p].then # "prepare" /\ Over(p, proc[p].then, FALSE)
    /\ UNCHANGED <<misread, lost, key, opt, pane, want, reloads>>

-----------------------------------------------------------------------------
(* close *)

\* The lock is busy, the file gone or the list of panes not to be had: only
\* the own option is given up.
CloseUnlocked(p) ==
    /\ At(p, "up") /\ proc[p].reg
    /\ \/ (lock # None \/ file = None) /\ NoFault
       \/ Fault
    /\ opt' = Unset(opt, p)
    /\ proc' = [proc EXCEPT ![p] = [NoProcess EXCEPT !.at = "closed"]]
    /\ UNCHANGED <<misread, lost, key, file, lock, pane, want, reloads>>

\* Mutant: whoever closes undoes the lease.
MutRest(st, p) == {}
\* The owners that are left.
Rest(st, p) == (st.owners \cap Live) \ {p}

Close(p) ==
    /\ At(p, "up") /\ proc[p].reg
    /\ lock = None /\ file # None
    /\ lock' = p
    /\ LET o    == PrunedOptions(file, Live)
           rest == Rest(file, p)
           st   == [file EXCEPT !.owners = rest]
       IN  /\ IF p \in file.owners
              THEN opt' \in HandedOver(Unset(o, p), rest, p)
              ELSE opt' = Unset(o, p)
           /\ \/ rest # {} /\ GotoWith(p, "leave", st)
              \/ rest = {} /\ RestoreThen(p, st, "closed")
    /\ UNCHANGED <<misread, lost, key, file, pane, want, reloads, faults>>

\* Others still need the lease; a failed save leaves a dead owner in it.
Leave(p) ==
    /\ At(p, "leave")
    /\ \/ file' = proc[p].st /\ NoFault
       \/ UNCHANGED file /\ Fault
    /\ Over(p, "closed", FALSE)
    /\ UNCHANGED <<misread, lost, key, opt, pane, want, reloads>>

-----------------------------------------------------------------------------
(* The processes and the user *)

Start(p) ==
    /\ At(p, "off") /\ pane[p] # "dead"
    /\ pane' = [pane EXCEPT ![p] = "live"]
    /\ Goto(p, "up")
    /\ UNCHANGED <<misread, lost, key, file, opt, lock, want, reloads, faults>>

\* The process of p is gone, and with it its lock and mostly its pane.
Gone(p) ==
    /\ proc' = [proc EXCEPT ![p] = NoProcess]
    /\ lock' = IF lock = p THEN None ELSE lock
    /\ \/ pane' = [pane EXCEPT ![p] = "dead"]
       \/ PaneOutlives /\ UNCHANGED pane
    /\ UNCHANGED <<misread, lost, key, file, opt, want, reloads, faults>>

Exit(p) == At(p, "closed") /\ Gone(p)

Kill(p) == Kills /\ proc[p].at \notin {"off", "closed"} /\ Gone(p)

\* The user reloads a configuration that binds some of the keys.
Reload(S) ==
    /\ reloads < MaxReloads /\ (RacingReload \/ lock = None)
    /\ reloads' = reloads + 1
    /\ key' = [k \in Keys |-> IF k \in S THEN Free(reloads') ELSE key[k]]
    /\ want' = [k \in Keys |-> IF k \in S THEN reloads' ELSE want[k]]
    /\ misread' = misread \ S
    /\ UNCHANGED <<lost, file, opt, lock, pane, proc, faults>>

Step(p) ==
    \/ Open(p) \/ Upgrade(p) \/ Undo(p) \/ Decide(p) \/ FailClosed(p)
    \/ Prepare(p) \/ Decline(p) \/ Drop(p) \/ Activate(p) \/ Control(p)
    \/ Join(p) \/ Joined(p) \/ Remove(p)
    \/ CloseUnlocked(p) \/ Close(p) \/ Leave(p)
    \/ \E k \in Keys : SetKey(p, k) \/ RestoreKey(p, k)

Next ==
    \/ \E p \in Railmuxes : Step(p) \/ Start(p) \/ Exit(p) \/ Kill(p)
    \/ \E S \in SUBSET Keys \ {{}} : Reload(S)

Spec == Init /\ [][Next]_vars

-----------------------------------------------------------------------------
(* Properties *)

Labels == {"off", "up", "upgrade", "decide", "prepare", "set", "undo", "drop",
           "control", "join", "joined", "restore", "leave", "closed"}
ProcType == [at : Labels, st : Lease \cup {None}, live : SUBSET Railmuxes,
             todo : SUBSET Keys, bad : SUBSET Optional, fresh : BOOLEAN, reg : BOOLEAN,
             then : {"none", "prepare", "up", "closed"}]

TypeOK ==
    /\ lost \in SUBSET Keys /\ misread \in SUBSET Keys
    /\ key \in [Keys -> [tok : Tokens \cup {None}, val : Users]]
    /\ file \in Lease \cup {None}
    /\ opt \in [Windows -> Railmuxes \cup {None}]
    /\ lock \in Railmuxes \cup {None}
    /\ pane \in [Railmuxes -> {"unborn", "live", "dead"}]
    /\ proc \in [Railmuxes -> ProcType]
    /\ want \in [Keys -> Users]
    /\ reloads \in 0..MaxReloads /\ faults \in 0..MaxFaults

\* Outside Railmux windows each key does what the user configured last, bound,
\* wrapped or restored: a lease neither captures a stale binding nor restores
\* one over a newer configuration.  Only a key that a failed query passed off as
\* unbound may have lost its binding, and then it does nothing.
Authorized(k, v) == v = want[k] \/ (k \in misread /\ v = Unbound)
NewestAuthority == \A k \in Keys : Authorized(k, key[k].val)

\* The same without the exception, which one failed query refutes.
NothingMisread == \A k \in Keys : key[k].val = want[k]

\* A wrapper in the key tables belongs to the lease in the state file, which
\* manages that key: the next process can repair or undo it.  Only a command
\* that failed to restore a key may leave one that belongs to no lease.
NoOrphan ==
    \A k \in Keys \ lost : key[k].tok # None =>
        file # None /\ file.token = key[k].tok /\ k \in Managed(file)

Registered == {p \in Railmuxes : proc[p].reg /\ At(p, "up")}

\* A process that was told its keys are bound stays an owner of the lease, and
\* until the user takes a core key back no one undoes it.
RegisteredHasLease ==
    \A p \in Registered :
        /\ file # None /\ p \in file.owners
        /\ \A k \in Core : key[k].tok = file.token \/ key[k].val > file.backup[k]

\* F8 reaches a Railmux process from its window.
ControllerServed == \A p \in Registered : opt[WindowOf[p]] # None

\* An open that finds the keys taken back is refused only on account of
\* another Railmux: what a dead one left is repaired by the next.
RefusedForOthers ==
    [][\A p \in Railmuxes : FailClosed(p) => proc[p].live # {p}]_vars

\* When every process has closed, the user's bindings are back.
LastRestores ==
    (\A p \in Railmuxes : pane[p] = "dead") =>
        \A k \in Keys : key[k].tok = None

=============================================================================
